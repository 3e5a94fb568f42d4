-------------------------- MODULE ShmDeliveryProof --------------------------
(***************************************************************************)
(* For every number of readers, chunks and messages: the writer of the     *)
(* shared memory queue never touches a chunk that a reader reads, no       *)
(* reader dequeues a message twice, and one that has not given up on a     *)
(* message dequeues all of them in order, those that come in a chunk and   *)
(* those that come through the socket.                                     *)
(***************************************************************************)
EXTENDS ShmRingBuffer, TLAPS

-----------------------------------------------------------------------------
(***************************************************************************)
(* Exclusive access.  The writer looks at the flags one after the other    *)
(* and a reader loads its flag before the written flag, so what they act   *)
(* on may be old.  The invariant says why it is not outdated: a flag the   *)
(* writer counted stays up until the writer itself resets it, and a flag a *)
(* reader found down stays down until the reader itself raises it.         *)
(***************************************************************************)

\* While every flag was found up, the flags counted so far are still up.
CountedFlagsStayUp ==
    wpc = "count" =>
        /\ read_count <= rank
        /\ read_count = rank => \A i \in Reader : i < rank => read_flag[widx][i] = 1

\* The chunk being filled is not marked as written.
FilledIsUnwritten == wpc \in {"fill", "reset"} => written_flag[widx] = 0

\* The chunk being read is marked as written, and not as read by the reader.
ReadIsWritten ==
    \A r \in Reader :
        rpc[r] = "read" => written_flag[ridx[r]] = 1 /\ read_flag[ridx[r]][r] = 0

\* A flag that was loaded as 0 is still 0.
SeenFlagIsCurrent ==
    \A r \in Reader : rpc[r] = "test" /\ seen[r] = 0 => read_flag[ridx[r]][r] = 0

IInv ==
    /\ TypeOK
    /\ CountedFlagsStayUp
    /\ FilledIsUnwritten
    /\ ReadIsWritten
    /\ SeenFlagIsCurrent

(***************************************************************************)
(* current_idx stays within the ring.                                      *)
(***************************************************************************)
LEMMA SuccessorType ==
    ASSUME NEW c \in Chunk
    PROVE  Successor(c) \in Chunk
BY RingAssumption DEF Successor, Chunk

(***************************************************************************)
(* The queue as __init__ leaves it satisfies the invariant.                *)
(***************************************************************************)
LEMMA InitInv == Init => IInv
<1> SUFFICES ASSUME Init PROVE IInv
  OBVIOUS
<1>1. 0 \in Chunk /\ NoMessage \in Message /\ 0 \in 0 .. NReader
  BY RingAssumption DEF Chunk, NoMessage, Message, Kind
<1>2. TypeOK
  BY <1>1 DEF Init, TypeOK
<1>3. CountedFlagsStayUp /\ FilledIsUnwritten /\ ReadIsWritten /\ SeenFlagIsCurrent
  BY DEF Init, CountedFlagsStayUp, FilledIsUnwritten, ReadIsWritten, SeenFlagIsCurrent
<1> QED BY <1>2, <1>3 DEF IInv

(***************************************************************************)
(* The invariant rules out a common access to a chunk.                     *)
(***************************************************************************)
LEMMA InvExclusive == IInv => ExclusiveAccess
BY DEF IInv, TypeOK, FilledIsUnwritten, ReadIsWritten, ExclusiveAccess

(***************************************************************************)
(* Every step of the writer preserves the invariant.                       *)
(***************************************************************************)
LEMMA WriterInv == IInv /\ Writer => IInv'
<1> SUFFICES ASSUME IInv, Writer PROVE IInv'
  OBVIOUS
<1> USE RingAssumption
<1>1. CASE \E kind \in Kinds : enqueue(kind)
  BY <1>1
  DEF IInv, TypeOK, CountedFlagsStayUp, FilledIsUnwritten, ReadIsWritten, SeenFlagIsCurrent,
      enqueue, memoryVars, socketVars, writerVars, readerVars, Reader, Message
<1>2. CASE CountFlag
  <2>1. TypeOK'
    <3>1. rank' \in 0 .. NReader /\ read_count' \in Nat
      <4>1. rank \in Reader /\ rank + 1 \in 0 .. NReader
        BY <1>2 DEF IInv, TypeOK, CountFlag, Reader
      <4>2. read_flag[widx][rank] \in {0, 1} /\ read_count \in Nat
        BY <4>1 DEF IInv, TypeOK
      <4> QED BY <1>2, <4>1, <4>2 DEF CountFlag
    <3> QED BY <1>2, <3>1 DEF IInv, TypeOK, CountFlag, memoryVars, readerVars
  <2>2. CountedFlagsStayUp'
    <3>1. read_flag[widx][rank] \in {0, 1} /\ read_count <= rank /\ read_count \in Nat
      BY <1>2 DEF IInv, TypeOK, CountedFlagsStayUp, CountFlag, Reader
    <3>2. read_count' <= rank'
      BY <1>2, <3>1 DEF IInv, TypeOK, CountFlag
    <3>3. ASSUME read_count' = rank', NEW i \in Reader, i < rank'
          PROVE  read_flag'[widx'][i] = 1
      <4>1. read_count = rank /\ read_flag[widx][rank] = 1
        BY <1>2, <3>1, <3>3 DEF IInv, TypeOK, CountFlag
      <4>2. i < rank \/ i = rank
        BY <1>2, <3>3 DEF IInv, TypeOK, CountFlag, Reader
      <4> QED BY <1>2, <4>1, <4>2 DEF IInv, CountedFlagsStayUp, CountFlag, memoryVars
    <3> QED BY <3>2, <3>3 DEF CountedFlagsStayUp
  <2>3. FilledIsUnwritten' /\ ReadIsWritten' /\ SeenFlagIsCurrent'
    BY <1>2 DEF IInv, FilledIsUnwritten, ReadIsWritten, SeenFlagIsCurrent, CountFlag,
                memoryVars, readerVars
  <2> QED BY <2>1, <2>2, <2>3 DEF IInv
<1>3. CASE WriteWait
  BY <1>3
  DEF IInv, TypeOK, CountedFlagsStayUp, FilledIsUnwritten, ReadIsWritten, SeenFlagIsCurrent,
      WriteWait, memoryVars, socketVars, writerVars, readerVars, Reader, CanWrite
<1>4. CASE AcquireChunk
  \* Nobody reads the chunk: it is unwritten, or every reader's flag is up.
  <2>1. ASSUME NEW r \in Reader, rpc[r] = "read"
        PROVE  ridx[r] # widx
    <3>1. written_flag[ridx[r]] = 1 /\ read_flag[ridx[r]][r] = 0
      BY <2>1 DEF IInv, ReadIsWritten
    <3>2. CASE written_flag[widx] = 0
      BY <3>1, <3>2
    <3>3. CASE read_count = NReader
      <4>1. read_flag[widx][r] = 1
        BY <1>4, <3>3 DEF IInv, CountedFlagsStayUp, AcquireChunk, Reader
      <4> QED BY <3>1, <4>1
    <3> QED BY <1>4, <3>2, <3>3 DEF AcquireChunk, CanWrite
  <2>2. ReadIsWritten'
    BY <1>4, <2>1 DEF IInv, TypeOK, ReadIsWritten, AcquireChunk, readerVars
  <2>3. TypeOK' /\ CountedFlagsStayUp' /\ FilledIsUnwritten' /\ SeenFlagIsCurrent'
    BY <1>4 DEF IInv, TypeOK, CountedFlagsStayUp, FilledIsUnwritten, SeenFlagIsCurrent,
                AcquireChunk, readerVars
  <2> QED BY <2>2, <2>3 DEF IInv
<1>5. CASE FillChunk
  BY <1>5
  DEF IInv, TypeOK, CountedFlagsStayUp, FilledIsUnwritten, ReadIsWritten, SeenFlagIsCurrent,
      FillChunk, memoryVars, socketVars, writerVars, readerVars, Reader
<1>6. CASE FillFails
  <2>1. PICK m \in {data[widx], NoMessage} : data' = [data EXCEPT ![widx] = m]
    BY <1>6 DEF FillFails
  <2>2. m \in Message
    BY <2>1 DEF IInv, TypeOK, NoMessage, Message, Kind
  <2>3. data' \in [Chunk -> Message]
    BY <2>1, <2>2 DEF IInv, TypeOK
  <2> QED
    BY <1>6, <2>3
    DEF IInv, TypeOK, CountedFlagsStayUp, FilledIsUnwritten, ReadIsWritten, SeenFlagIsCurrent,
        FillFails, memoryVars, socketVars, writerVars, readerVars, Reader
<1>7. CASE ResetFlag
  BY <1>7
  DEF IInv, TypeOK, CountedFlagsStayUp, FilledIsUnwritten, ReadIsWritten, SeenFlagIsCurrent,
      ResetFlag, memoryVars, socketVars, writerVars, readerVars, Reader
<1>8. CASE Publish
  BY <1>8, SuccessorType
  DEF IInv, TypeOK, CountedFlagsStayUp, FilledIsUnwritten, ReadIsWritten, SeenFlagIsCurrent,
      Publish, memoryVars, socketVars, writerVars, readerVars, Reader
<1>9. CASE SendOverflow
  BY <1>9
  DEF IInv, TypeOK, CountedFlagsStayUp, FilledIsUnwritten, ReadIsWritten, SeenFlagIsCurrent,
      SendOverflow, memoryVars, socketVars, writerVars, readerVars, Reader
<1>10. CASE notify
  BY <1>10
  DEF IInv, TypeOK, CountedFlagsStayUp, FilledIsUnwritten, ReadIsWritten, SeenFlagIsCurrent,
      notify, memoryVars, socketVars, writerVars, readerVars, Reader
<1> QED BY <1>1, <1>2, <1>3, <1>4, <1>5, <1>6, <1>7, <1>8, <1>9, <1>10 DEF Writer

(***************************************************************************)
(* Every step of a reader preserves the invariant.                         *)
(***************************************************************************)
LEMMA ReaderInv ==
    ASSUME IInv, NEW r \in Reader, ReaderStep(r)
    PROVE  IInv'
<1> USE RingAssumption
<1>1. CASE dequeue(r)
  BY <1>1
  DEF IInv, TypeOK, CountedFlagsStayUp, FilledIsUnwritten, ReadIsWritten, SeenFlagIsCurrent,
      dequeue, memoryVars, socketVars, writerVars, readerVars, GoTo, Reader
<1>2. CASE LoadReadFlag(r)
  BY <1>2
  DEF IInv, TypeOK, CountedFlagsStayUp, FilledIsUnwritten, ReadIsWritten, SeenFlagIsCurrent,
      LoadReadFlag, memoryVars, socketVars, writerVars, readerVars, GoTo, Reader
<1>3. CASE TestWrittenFlag(r)
  BY <1>3
  DEF IInv, TypeOK, CountedFlagsStayUp, FilledIsUnwritten, ReadIsWritten, SeenFlagIsCurrent,
      TestWrittenFlag, memoryVars, socketVars, writerVars, readerVars, GoTo, Reader, CanRead
<1>4. CASE wait(r)
  BY <1>4
  DEF IInv, TypeOK, CountedFlagsStayUp, FilledIsUnwritten, ReadIsWritten, SeenFlagIsCurrent,
      wait, memoryVars, socketVars, writerVars, readerVars, GoTo, Reader, Awake
<1>5. CASE Poll(r)
  BY <1>5
  DEF IInv, TypeOK, CountedFlagsStayUp, FilledIsUnwritten, ReadIsWritten, SeenFlagIsCurrent,
      Poll, memoryVars, socketVars, writerVars, readerVars, GoTo, Reader, Awake
<1>6. CASE MarkRead(r)
  BY <1>6, SuccessorType
  DEF IInv, TypeOK, CountedFlagsStayUp, FilledIsUnwritten, ReadIsWritten, SeenFlagIsCurrent,
      MarkRead, memoryVars, socketVars, writerVars, readerVars, GoTo, Reader
<1>7. CASE ReadFails(r)
  BY <1>7
  DEF IInv, TypeOK, CountedFlagsStayUp, FilledIsUnwritten, ReadIsWritten, SeenFlagIsCurrent,
      ReadFails, memoryVars, socketVars, writerVars, readerVars, GoTo, Reader
<1>8. CASE RecvOverflow(r)
  BY <1>8
  DEF IInv, TypeOK, CountedFlagsStayUp, FilledIsUnwritten, ReadIsWritten, SeenFlagIsCurrent,
      RecvOverflow, memoryVars, socketVars, writerVars, readerVars, GoTo, Reader
<1>9. CASE RecvTimeout(r)
  BY <1>9
  DEF IInv, TypeOK, CountedFlagsStayUp, FilledIsUnwritten, ReadIsWritten, SeenFlagIsCurrent,
      RecvTimeout, memoryVars, socketVars, writerVars, readerVars, GoTo, Reader
<1>10. CASE RecvFails(r)
  BY <1>10
  DEF IInv, TypeOK, CountedFlagsStayUp, FilledIsUnwritten, ReadIsWritten, SeenFlagIsCurrent,
      RecvFails, memoryVars, socketVars, writerVars, readerVars, GoTo, Reader
<1> QED BY <1>1, <1>2, <1>3, <1>4, <1>5, <1>6, <1>7, <1>8, <1>9, <1>10, ReaderStep(r) DEF ReaderStep

(***************************************************************************)
(* So does shutting a reader down.                                         *)
(***************************************************************************)
LEMMA ShutdownInv ==
    ASSUME IInv, NEW r \in Reader, SetShuttingDown(r) \/ cancel(r)
    PROVE  IInv'
BY DEF IInv, TypeOK, CountedFlagsStayUp, FilledIsUnwritten, ReadIsWritten, SeenFlagIsCurrent,
       SetShuttingDown, cancel, memoryVars, socketVars, writerVars, readerVars

(***************************************************************************)
(* Every step preserves the invariant.                                     *)
(***************************************************************************)
LEMMA NextInv == IInv /\ [Next]_vars => IInv'
<1> SUFFICES ASSUME IInv, [Next]_vars PROVE IInv'
  OBVIOUS
<1>1. CASE Writer
  BY <1>1, WriterInv
<1>2. ASSUME NEW r \in Reader, ReaderStep(r)
      PROVE  IInv'
  BY <1>2, ReaderInv
<1>3. ASSUME NEW r \in Reader, SetShuttingDown(r) \/ cancel(r)
      PROVE  IInv'
  BY <1>3, ShutdownInv
<1>4. CASE UNCHANGED vars
  BY <1>4 DEF IInv, TypeOK, CountedFlagsStayUp, FilledIsUnwritten, ReadIsWritten,
              SeenFlagIsCurrent, vars, memoryVars, writerVars, readerVars
<1> QED BY <1>1, <1>2, <1>3, <1>4 DEF Next

(***************************************************************************)
(* ExclusiveAccess is an invariant: while a reader copies a message out of *)
(* its chunk, acquire_write neither hands the chunk to the writer nor      *)
(* resets its flags, for every number of readers and chunks.               *)
(***************************************************************************)
THEOREM ChunksExclusive == Spec => [](TypeOK /\ ExclusiveAccess)
<1>1. IInv => TypeOK /\ ExclusiveAccess
  BY InvExclusive DEF IInv
<1> QED BY InitInv, NextInv, <1>1, PTL DEF Spec

-----------------------------------------------------------------------------
(***************************************************************************)
(* Delivery.  No sequence number is stored with a message in the code: the *)
(* order is kept by the places of the writer and the readers in the ring   *)
(* and by flags that tell a chunk of this round from one of the last.      *)
(***************************************************************************)

\* What the sockets and the readers hold.
QueuesOK ==
    /\ local_socket \in [Reader -> Seq(Nat)]
    /\ received \in [Reader -> Seq(Nat)]

\* The message being enqueued is the next one; one that is published is the last.
MessageIsNext ==
    /\ wpc \in {"count", "fill", "reset"} => message.number = sent + 1
    /\ wpc = "reset" => data[widx] = message
    /\ wpc = "send" => message.number = sent /\ message.kind = "overflow"

\* The chunks hold different messages, which were all sent.
ChunksDiffer ==
    \A c \in Chunk : written_flag[c] = 1 =>
        /\ data[c].number > 0 /\ data[c].number <= sent
        /\ \A d \in Chunk : d # c /\ written_flag[d] = 1 => data[d].number # data[c].number
        /\ wpc = "send" /\ data[c].number = sent => data[c].kind = "overflow"

InSocket(r, k) == \E i \in DOMAIN local_socket[r] : local_socket[r][i] = k
Received(r, k) == \E i \in DOMAIN received[r] : received[r][i] = k

\* A message is in one place of the socket, or was received from it once.
QueuesDiffer ==
    \A r \in Reader :
        /\ \A i \in DOMAIN received[r] :
              /\ received[r][i] <= sent
              /\ wpc = "send" => received[r][i] # sent
        /\ \A i, j \in DOMAIN received[r] : received[r][i] = received[r][j] => i = j
        /\ \A i \in DOMAIN local_socket[r] :
              /\ local_socket[r][i] <= sent
              /\ wpc = "send" => local_socket[r][i] # sent
              /\ ~ Received(r, local_socket[r][i])
        /\ \A i, j \in DOMAIN local_socket[r] :
              local_socket[r][i] = local_socket[r][j] => i = j

\* A message in a chunk that a reader has not read did not reach it otherwise.
UnreadIsNew ==
    \A r \in Reader, c \in Chunk :
        written_flag[c] = 1 /\ read_flag[c][r] = 0 /\ data[c].kind # "overflow" =>
            ~ InSocket(r, data[c].number) /\ ~ Received(r, data[c].number)

OnceInv ==
    /\ IInv
    /\ QueuesOK
    /\ MessageIsNext
    /\ ChunksDiffer
    /\ QueuesDiffer
    /\ UnreadIsNew

-----------------------------------------------------------------------------
\* How many chunks ago the writer was at a chunk.
Age(c) == IF c < widx THEN widx - c ELSE (widx - c) + MaxChunks

\* How many chunks a reader has marked as read: the messages it received, and
\* the one it is about to get from the socket.
Marked(r) == Len(received[r]) + (IF rpc[r] = "recv" THEN 1 ELSE 0)

\* A chunk holds the message that its place says, and the writer has been there
\* unless it is in its first round.
RingInOrder ==
    \A c \in Chunk :
        /\ written_flag[c] = 1 => data[c].number = sent + 1 - Age(c)
        /\ written_flag[c] = 0 /\ c # widx => sent = widx /\ c > widx

\* A reader is where the number of its messages says, less than a round behind,
\* and its flags tell the messages it has read.
ReaderInRing(r) ==
    /\ Marked(r) = sent - Age(ridx[r]) \/ (ridx[r] = widx /\ Marked(r) = sent)
    /\ written_flag[widx] = 0 => Marked(r) > sent - MaxChunks
    /\ \A c \in Chunk : written_flag[c] = 1 =>
          (read_flag[c][r] = 1 <=> data[c].number <= Marked(r))

\* The socket holds the overflowing messages that a reader has yet to get.
SocketInOrder(r) ==
    /\ \A i, j \in DOMAIN local_socket[r] : i < j => local_socket[r][i] < local_socket[r][j]
    /\ \A i \in DOMAIN local_socket[r] :
          /\ local_socket[r][i] >= Marked(r)
          /\ rpc[r] # "recv" => local_socket[r][i] > Marked(r)
    /\ \A c \in Chunk : written_flag[c] = 1 /\ data[c].number > Marked(r) =>
          IF data[c].kind = "overflow"
          THEN InSocket(r, data[c].number) \/ (wpc = "send" /\ data[c].number = sent)
          ELSE ~ InSocket(r, data[c].number)
    /\ rpc[r] = "recv" => InSocket(r, Marked(r)) \/ (wpc = "send" /\ Marked(r) = sent)
    /\ wpc = "send" /\ rpc[r] # "recv" => Marked(r) < sent

\* The flags of the chunk to be published are down as far as they were reset.
ResetFlagsDown ==
    wpc = "reset" => \A i \in Reader : i < rank => read_flag[widx][i] = 0

ReceivedInOrder(r) == \A i \in DOMAIN received[r] : received[r][i] = i

OrderInv ==
    /\ OnceInv
    /\ RingInOrder
    /\ ResetFlagsDown
    /\ \A r \in Reader : ~ gave_up[r] =>
          ReaderInRing(r) /\ SocketInOrder(r) /\ ReceivedInOrder(r)

-----------------------------------------------------------------------------
(***************************************************************************)
(* A step that writes no chunk, reads no message and sends none.           *)
(***************************************************************************)
LEMMA OnceKept ==
    ASSUME OnceInv, IInv', MessageIsNext', UNCHANGED <<local_socket, received, sent>>,
           wpc' = "send" => wpc = "send",
           \A c \in Chunk : written_flag'[c] = 1 =>
              /\ written_flag[c] = 1 /\ data'[c] = data[c]
              /\ \A r \in Reader : read_flag'[c][r] = 0 => read_flag[c][r] = 0
    PROVE  OnceInv'
<1>1. QueuesOK'
  BY DEF OnceInv, QueuesOK
<1>2. ChunksDiffer'
  BY DEF OnceInv, ChunksDiffer
<1>3. QueuesDiffer'
  BY DEF OnceInv, QueuesDiffer, Received
<1>4. UnreadIsNew'
  BY DEF OnceInv, UnreadIsNew, Received, InSocket
<1> QED BY <1>1, <1>2, <1>3, <1>4 DEF OnceInv

(***************************************************************************)
(* A published message is newer than all the others.                       *)
(***************************************************************************)
LEMMA PublishOnce ==
    ASSUME OnceInv, IInv', Publish
    PROVE  OnceInv'
<1>1. /\ wpc = "reset" /\ written_flag' = [written_flag EXCEPT ![widx] = 1]
      /\ sent' = sent + 1 /\ wpc' = IF message.kind = "overflow" THEN "send" ELSE "notify"
      /\ UNCHANGED <<read_flag, data, message, local_socket, received>>
  BY DEF Publish, socketVars, readerVars
<1>2. /\ sent \in Nat /\ widx \in Chunk /\ written_flag \in [Chunk -> {0, 1}]
      /\ message \in Message /\ data \in [Chunk -> Message]
  BY DEF OnceInv, IInv, TypeOK
<1>3. /\ data[widx].number = sent + 1 /\ data[widx] = message /\ message.number = sent + 1
      /\ written_flag'[widx] = 1
      /\ \A c \in Chunk : c # widx => written_flag'[c] = written_flag[c]
  BY <1>1, <1>2 DEF OnceInv, MessageIsNext
<1>4. \A c \in Chunk : data[c].number \in Nat
  BY <1>2 DEF Message
<1>5. \A c \in Chunk : written_flag[c] = 1 => data[c].number > 0 /\ data[c].number <= sent
  BY DEF OnceInv, ChunksDiffer
<1>6. MessageIsNext'
  BY <1>1, <1>3 DEF MessageIsNext
<1>7. QueuesOK'
  BY <1>1 DEF OnceInv, QueuesOK
<1>8. ChunksDiffer'
  <2>1. ASSUME NEW c \in Chunk, written_flag'[c] = 1
        PROVE  /\ data[c].number > 0 /\ data[c].number <= sent + 1
               /\ wpc' = "send" /\ data[c].number = sent + 1 => data[c].kind = "overflow"
               /\ data[c].number = sent + 1 => c = widx
    BY <1>1, <1>2, <1>3, <1>4, <1>5, <2>1
  <2>2. ASSUME NEW c \in Chunk, written_flag'[c] = 1, NEW d \in Chunk, written_flag'[d] = 1, d # c
        PROVE  data[d].number # data[c].number
    <3>1. CASE c # widx /\ d # widx
      BY <1>3, <2>2, <3>1 DEF OnceInv, ChunksDiffer
    <3> QED BY <1>3, <2>1, <2>2, <3>1
  <2> QED BY <1>1, <2>1, <2>2 DEF ChunksDiffer
<1>9. QueuesDiffer'
  <2>1. ASSUME NEW r \in Reader
        PROVE  /\ \A i \in DOMAIN received[r] :
                     /\ received[r][i] <= sent + 1
                     /\ received[r][i] # sent + 1
               /\ \A i \in DOMAIN local_socket[r] :
                     /\ local_socket[r][i] <= sent + 1
                     /\ local_socket[r][i] # sent + 1
    <3>1. received[r] \in Seq(Nat) /\ local_socket[r] \in Seq(Nat)
      BY DEF OnceInv, QueuesOK
    <3>2. /\ \A i \in DOMAIN received[r] : received[r][i] \in Nat /\ received[r][i] <= sent
          /\ \A i \in DOMAIN local_socket[r] : local_socket[r][i] \in Nat /\ local_socket[r][i] <= sent
      BY <3>1 DEF OnceInv, QueuesDiffer
    <3> QED BY <1>2, <3>2
  <2> QED BY <1>1, <2>1 DEF OnceInv, QueuesDiffer, Received
<1>10. UnreadIsNew'
  <2>1. ASSUME NEW r \in Reader
        PROVE  ~ InSocket(r, sent + 1) /\ ~ Received(r, sent + 1)
    <3>1. received[r] \in Seq(Nat) /\ local_socket[r] \in Seq(Nat)
      BY DEF OnceInv, QueuesOK
    <3>2. /\ \A i \in DOMAIN received[r] : received[r][i] \in Nat /\ received[r][i] <= sent
          /\ \A i \in DOMAIN local_socket[r] : local_socket[r][i] \in Nat /\ local_socket[r][i] <= sent
      BY <3>1 DEF OnceInv, QueuesDiffer
    <3> QED BY <1>2, <3>2 DEF InSocket, Received
  <2> QED BY <1>1, <1>3, <2>1 DEF OnceInv, UnreadIsNew, InSocket, Received
<1> QED BY <1>6, <1>7, <1>8, <1>9, <1>10 DEF OnceInv

(***************************************************************************)
(* What appending a number to a sequence of numbers, and taking the first, *)
(* leave.                                                                  *)
(***************************************************************************)
LEMMA AppendNumber ==
    ASSUME NEW s \in Seq(Nat), NEW k \in Nat
    PROVE  /\ Append(s, k) \in Seq(Nat) /\ Len(s) \in Nat
           /\ DOMAIN s = 1 .. Len(s) /\ DOMAIN Append(s, k) = 1 .. (Len(s) + 1)
           /\ Len(Append(s, k)) = Len(s) + 1
           /\ Append(s, k)[Len(s) + 1] = k /\ Len(s) + 1 \in DOMAIN Append(s, k)
           /\ \A i \in DOMAIN s : i \in DOMAIN Append(s, k) /\ Append(s, k)[i] = s[i]
           /\ \A i \in DOMAIN Append(s, k) : i \in DOMAIN s \/ i = Len(s) + 1
           /\ Len(s) + 1 \notin DOMAIN s
<1>1. /\ Append(s, k) \in Seq(Nat) /\ Len(s) \in Nat
      /\ DOMAIN s = 1 .. Len(s) /\ DOMAIN Append(s, k) = 1 .. (Len(s) + 1)
      /\ Len(Append(s, k)) = Len(s) + 1
      /\ Append(s, k)[Len(s) + 1] = k
      /\ \A i \in 1 .. Len(s) : Append(s, k)[i] = s[i]
  OBVIOUS
<1>2. /\ Len(s) + 1 \in 1 .. (Len(s) + 1) /\ Len(s) + 1 \notin 1 .. Len(s)
      /\ \A i \in 1 .. Len(s) : i \in 1 .. (Len(s) + 1)
      /\ \A i \in 1 .. (Len(s) + 1) : i \in 1 .. Len(s) \/ i = Len(s) + 1
  BY <1>1
<1> QED BY <1>1, <1>2

(***************************************************************************)
(* Taking the first number leaves the others in their order.               *)
(***************************************************************************)
LEMMA TailNumber ==
    ASSUME NEW s \in Seq(Nat), s # <<>>
    PROVE  /\ Tail(s) \in Seq(Nat) /\ Head(s) \in Nat /\ Head(s) = s[1]
           /\ Len(s) \in Nat /\ DOMAIN s = 1 .. Len(s) /\ DOMAIN Tail(s) = 1 .. (Len(s) - 1)
           /\ 1 \in DOMAIN s /\ 1 \notin {i + 1 : i \in DOMAIN Tail(s)}
           /\ \A i \in DOMAIN Tail(s) : i + 1 \in DOMAIN s /\ Tail(s)[i] = s[i + 1] /\ 1 < i + 1
           /\ \A k \in DOMAIN s : k = 1 \/ \E i \in DOMAIN Tail(s) : Tail(s)[i] = s[k]
<1>1. /\ Tail(s) \in Seq(Nat) /\ Len(s) \in Nat /\ Len(s) # 0 /\ Head(s) = s[1]
      /\ DOMAIN s = 1 .. Len(s) /\ DOMAIN Tail(s) = 1 .. (Len(s) - 1)
      /\ \A i \in 1 .. (Len(s) - 1) : Tail(s)[i] = s[i + 1]
  OBVIOUS
<1>2. /\ 1 \in 1 .. Len(s)
      /\ \A i \in 1 .. (Len(s) - 1) : i + 1 \in 1 .. Len(s) /\ 1 < i + 1
      /\ \A k \in 1 .. Len(s) : k = 1 \/ (k - 1 \in 1 .. (Len(s) - 1) /\ k = (k - 1) + 1)
  BY <1>1
<1>3. Head(s) \in Nat
  BY <1>1, <1>2
<1>4. ASSUME NEW k \in DOMAIN s, k # 1
      PROVE  \E i \in DOMAIN Tail(s) : Tail(s)[i] = s[k]
  <2>1. k - 1 \in DOMAIN Tail(s) /\ Tail(s)[k - 1] = s[k]
    BY <1>1, <1>2, <1>4
  <2> QED BY <2>1
<1>5. 1 \notin {i + 1 : i \in DOMAIN Tail(s)}
  BY <1>1
<1> QED BY <1>1, <1>2, <1>3, <1>4, <1>5

(***************************************************************************)
(* An overflowing message is sent through the socket once.                 *)
(***************************************************************************)
LEMMA SendOnce ==
    ASSUME OnceInv, IInv', SendOverflow
    PROVE  OnceInv'
<1>1. /\ wpc = "send" /\ wpc' = "notify"
      /\ local_socket' = [r \in Reader |-> Append(local_socket[r], message.number)]
      /\ UNCHANGED <<written_flag, read_flag, data, message, received, sent, widx>>
  BY DEF SendOverflow, memoryVars, readerVars
<1>2. sent \in Nat /\ message.number = sent
  BY <1>1 DEF OnceInv, IInv, TypeOK, MessageIsNext
<1>3. \A r \in Reader : local_socket'[r] = Append(local_socket[r], sent)
  BY <1>1, <1>2
<1>4. \A r \in Reader : local_socket[r] \in Seq(Nat) /\ received[r] \in Seq(Nat)
  BY DEF OnceInv, QueuesOK
<1>5. QueuesOK'
  BY <1>1, <1>2, <1>4 DEF OnceInv, QueuesOK
<1>6. MessageIsNext'
  BY <1>1 DEF MessageIsNext
<1>7. ChunksDiffer'
  BY <1>1 DEF OnceInv, ChunksDiffer
<1>8. QueuesDiffer'
  <2> SUFFICES ASSUME NEW r \in Reader
               PROVE  /\ \A i \in DOMAIN local_socket'[r] :
                            local_socket'[r][i] <= sent /\ ~ Received(r, local_socket'[r][i])
                      /\ \A i, j \in DOMAIN local_socket'[r] :
                            local_socket'[r][i] = local_socket'[r][j] => i = j
    BY <1>1 DEF OnceInv, QueuesDiffer, Received
  <2> DEFINE s == local_socket[r]
  <2>1. s \in Seq(Nat) /\ local_socket'[r] = Append(s, sent)
    BY <1>3, <1>4
  <2>2. /\ \A i \in DOMAIN s : s[i] <= sent /\ s[i] # sent /\ ~ Received(r, s[i])
        /\ \A i, j \in DOMAIN s : s[i] = s[j] => i = j
        /\ ~ Received(r, sent)
    BY <1>1 DEF OnceInv, QueuesDiffer, Received
  <2>3. sent <= sent
    BY <1>2
  <2> HIDE DEF s
  <2> QED BY <1>2, <2>1, <2>2, <2>3, AppendNumber
<1>9. UnreadIsNew'
  <2> SUFFICES ASSUME NEW r \in Reader, NEW c \in Chunk, written_flag[c] = 1,
                      read_flag[c][r] = 0, data[c].kind # "overflow"
               PROVE  ~ InSocket(r, data[c].number)'
    BY <1>1 DEF OnceInv, UnreadIsNew, Received
  <2> DEFINE s == local_socket[r]
  <2>1. s \in Seq(Nat) /\ local_socket'[r] = Append(s, sent)
    BY <1>3, <1>4
  <2>2. data[c].number # sent /\ \A i \in DOMAIN s : s[i] # data[c].number
    BY <1>1 DEF OnceInv, ChunksDiffer, UnreadIsNew, InSocket
  <2>3. \A i \in DOMAIN local_socket'[r] : local_socket'[r][i] # data[c].number
    <3> HIDE DEF s
    <3> QED BY <1>2, <2>1, <2>2, AppendNumber
  <2> QED BY <1>1, <2>3 DEF InSocket
<1> QED BY <1>5, <1>6, <1>7, <1>8, <1>9 DEF OnceInv

(***************************************************************************)
(* A reader dequeues what its chunk holds: it did not come before.         *)
(***************************************************************************)
LEMMA MarkOnce ==
    ASSUME OnceInv, IInv', NEW r \in Reader, MarkRead(r)
    PROVE  OnceInv'
<1> DEFINE c == ridx[r]
           m == data[ridx[r]]
<1>1. /\ rpc[r] = "read" /\ c \in Chunk /\ written_flag[c] = 1 /\ read_flag[c][r] = 0
      /\ read_flag' = [read_flag EXCEPT ![c] = [@ EXCEPT ![r] = 1]]
      /\ UNCHANGED <<written_flag, data, local_socket, wpc, widx, message, sent>>
  BY DEF MarkRead, OnceInv, IInv, TypeOK, ReadIsWritten, socketVars, writerVars
<1>2. /\ read_flag \in [Chunk -> [Reader -> {0, 1}]] /\ data[c] \in Message /\ data[c].number \in Nat
      /\ sent \in Nat
  BY <1>1 DEF OnceInv, IInv, TypeOK, Message
<1>3. /\ read_flag'[c][r] = 1
      /\ \A d \in Chunk, q \in Reader : read_flag'[d][q] = 0 => read_flag[d][q] = 0
  BY <1>1, <1>2
<1>4. MessageIsNext'
  BY <1>1 DEF OnceInv, MessageIsNext
<1>5. CASE m.kind = "overflow"
  <2>1. UNCHANGED <<local_socket, received, sent, written_flag, data, wpc>>
    BY <1>1, <1>5 DEF MarkRead
  <2> QED BY <1>3, <1>4, <2>1, OnceKept
<1>6. CASE m.kind # "overflow"
  <2> DEFINE k == data[c].number
             s == received[r]
  <2>1. received' = [received EXCEPT ![r] = Append(@, k)]
    BY <1>6 DEF MarkRead
  <2>2. /\ s \in Seq(Nat) /\ received \in [Reader -> Seq(Nat)] /\ received'[r] = Append(s, k)
        /\ \A q \in Reader : q # r => received'[q] = received[q]
    BY <2>1 DEF OnceInv, QueuesOK
  <2>3. /\ k \in Nat /\ k <= sent /\ (wpc = "send" => k # sent)
        /\ \A i \in DOMAIN s : s[i] # k
        /\ \A i \in DOMAIN local_socket[r] : local_socket[r][i] # k
    BY <1>1, <1>2, <1>6 DEF OnceInv, ChunksDiffer, UnreadIsNew, InSocket, Received
  <2>4. /\ \A i \in DOMAIN s : s[i] <= sent /\ (wpc = "send" => s[i] # sent)
        /\ \A i, j \in DOMAIN s : s[i] = s[j] => i = j
    BY DEF OnceInv, QueuesDiffer
  <2>5. /\ \A i \in DOMAIN received'[r] :
              /\ received'[r][i] <= sent /\ (wpc = "send" => received'[r][i] # sent)
              /\ received'[r][i] = k \/ \E j \in DOMAIN s : received'[r][i] = s[j]
        /\ \A i, j \in DOMAIN received'[r] : received'[r][i] = received'[r][j] => i = j
    <3> HIDE DEF s, k
    <3> QED BY <2>2, <2>3, <2>4, AppendNumber
  <2>6. QueuesOK'
    <3>1. Append(s, k) \in Seq(Nat)
      <4> HIDE DEF s, k
      <4> QED BY <2>2, <2>3
    <3> QED BY <1>1, <2>1, <2>2, <3>1 DEF OnceInv, QueuesOK
  <2>7. ChunksDiffer'
    BY <1>1 DEF OnceInv, ChunksDiffer
  <2>8. ASSUME NEW q \in Reader, NEW n, n # k \/ q # r, ~ Received(q, n)
        PROVE  ~ Received(q, n)'
    <3>1. CASE q = r
      BY <2>5, <2>8, <3>1 DEF Received
    <3>2. CASE q # r
      BY <2>2, <2>8, <3>2 DEF Received
    <3> QED BY <3>1, <3>2
  <2>9. QueuesDiffer'
    <3> SUFFICES ASSUME NEW q \in Reader
                 PROVE  /\ \A i \in DOMAIN received'[q] :
                              /\ received'[q][i] <= sent
                              /\ wpc = "send" => received'[q][i] # sent
                        /\ \A i, j \in DOMAIN received'[q] : received'[q][i] = received'[q][j] => i = j
                        /\ \A i \in DOMAIN local_socket[q] : ~ Received(q, local_socket[q][i])'
      BY <1>1 DEF OnceInv, QueuesDiffer
    <3>1. \A i \in DOMAIN local_socket[q] : ~ Received(q, local_socket[q][i])
      BY DEF OnceInv, QueuesDiffer
    <3>2. \A i \in DOMAIN local_socket[q] : ~ Received(q, local_socket[q][i])'
      BY <1>1, <2>3, <2>8, <3>1
    <3>3. CASE q = r
      BY <2>5, <3>2, <3>3
    <3>4. CASE q # r
      BY <2>2, <3>2, <3>4 DEF OnceInv, QueuesDiffer
    <3> QED BY <3>3, <3>4
  <2>10. UnreadIsNew'
    <3> SUFFICES ASSUME NEW q \in Reader, NEW d \in Chunk, written_flag[d] = 1,
                        read_flag'[d][q] = 0, data[d].kind # "overflow"
                 PROVE  ~ InSocket(q, data[d].number)' /\ ~ Received(q, data[d].number)'
      BY <1>1 DEF UnreadIsNew
    <3>1. ~ InSocket(q, data[d].number) /\ ~ Received(q, data[d].number)
      BY <1>3 DEF OnceInv, UnreadIsNew
    <3>2. data[d].number # k \/ q # r
      BY <1>1, <1>3 DEF OnceInv, ChunksDiffer
    <3>3. ~ Received(q, data[d].number)'
      BY <1>1, <2>8, <3>1, <3>2
    <3> QED BY <1>1, <3>1, <3>3 DEF InSocket
  <2> QED BY <1>4, <2>6, <2>7, <2>9, <2>10 DEF OnceInv
<1> QED BY <1>5, <1>6

(***************************************************************************)
(* A reader dequeues the first message of the socket.                      *)
(***************************************************************************)
LEMMA RecvOnce ==
    ASSUME OnceInv, IInv', NEW r \in Reader, RecvOverflow(r)
    PROVE  OnceInv'
<1> DEFINE s == local_socket[r]
           t == received[r]
           k == Head(local_socket[r])
<1>1. /\ s # <<>> /\ local_socket' = [local_socket EXCEPT ![r] = Tail(@)]
      /\ received' = [received EXCEPT ![r] = Append(@, k)]
      /\ UNCHANGED <<written_flag, read_flag, data, wpc, widx, message, sent>>
  BY DEF RecvOverflow, memoryVars, writerVars
<1>2. /\ s \in Seq(Nat) /\ t \in Seq(Nat)
      /\ received'[r] = Append(t, k) /\ local_socket'[r] = Tail(s)
      /\ \A q \in Reader : q # r => received'[q] = received[q] /\ local_socket'[q] = local_socket[q]
  BY <1>1 DEF OnceInv, QueuesOK
<1>3. /\ k \in Nat /\ 1 \in DOMAIN s /\ k = s[1]
  <2> HIDE DEF s
  <2> QED BY <1>1, <1>2, TailNumber DEF s
<1>4. /\ k <= sent /\ (wpc = "send" => k # sent) /\ ~ Received(r, k)
      /\ \A i \in DOMAIN s : s[i] <= sent /\ (wpc = "send" => s[i] # sent) /\ ~ Received(r, s[i])
      /\ \A i, j \in DOMAIN s : s[i] = s[j] => i = j
      /\ \A i \in DOMAIN t : t[i] <= sent /\ (wpc = "send" => t[i] # sent)
      /\ \A i, j \in DOMAIN t : t[i] = t[j] => i = j
  BY <1>3 DEF OnceInv, QueuesDiffer
<1>5. /\ \A i \in DOMAIN received'[r] :
            /\ received'[r][i] <= sent /\ (wpc = "send" => received'[r][i] # sent)
            /\ received'[r][i] = k \/ \E j \in DOMAIN t : received'[r][i] = t[j]
      /\ \A i, j \in DOMAIN received'[r] : received'[r][i] = received'[r][j] => i = j
  <2>1. \A i \in DOMAIN t : t[i] # k
    BY <1>4 DEF Received
  <2> HIDE DEF s, t, k
  <2> QED BY <1>2, <1>3, <1>4, <2>1, AppendNumber
<1>6. /\ \A i \in DOMAIN local_socket'[r] :
            i + 1 \in DOMAIN s /\ local_socket'[r][i] = s[i + 1] /\ s[i + 1] # k /\ i \in Nat
  <2> HIDE DEF k, s
  <2>1. \A i \in DOMAIN Tail(s) : i + 1 \in DOMAIN s /\ Tail(s)[i] = s[i + 1] /\ 1 < i + 1 /\ i \in Nat
    BY <1>1, <1>2, TailNumber
  <2> QED BY <1>2, <1>3, <1>4, <2>1
<1>7. \A i, j \in DOMAIN local_socket'[r] : local_socket'[r][i] = local_socket'[r][j] => i = j
  <2> HIDE DEF k, s
  <2> QED BY <1>4, <1>6
<1>8. QueuesOK'
  <2>1. Tail(s) \in Seq(Nat) /\ Append(t, k) \in Seq(Nat)
    <3> HIDE DEF s, t, k
    <3> QED BY <1>1, <1>2, <1>3
  <2> QED BY <1>1, <2>1 DEF OnceInv, QueuesOK
<1>9. MessageIsNext'
  BY <1>1 DEF OnceInv, MessageIsNext
<1>10. ChunksDiffer'
  BY <1>1 DEF OnceInv, ChunksDiffer
<1>11. \A n : n # k /\ ~ Received(r, n) => ~ Received(r, n)'
  BY <1>5 DEF Received
<1>12. QueuesDiffer'
  <2> SUFFICES ASSUME NEW q \in Reader
               PROVE  /\ \A i \in DOMAIN received'[q] :
                            /\ received'[q][i] <= sent
                            /\ wpc = "send" => received'[q][i] # sent
                      /\ \A i, j \in DOMAIN received'[q] : received'[q][i] = received'[q][j] => i = j
                      /\ \A i \in DOMAIN local_socket'[q] :
                            /\ local_socket'[q][i] <= sent
                            /\ wpc = "send" => local_socket'[q][i] # sent
                            /\ ~ Received(q, local_socket[q][i])'
                      /\ \A i, j \in DOMAIN local_socket'[q] :
                            local_socket'[q][i] = local_socket'[q][j] => i = j
    BY <1>1 DEF QueuesDiffer
  <2>1. CASE q = r
    <3>1. \A i \in DOMAIN local_socket'[r] :
             /\ local_socket'[r][i] <= sent
             /\ wpc = "send" => local_socket'[r][i] # sent
             /\ ~ Received(r, local_socket[r][i])'
      <4> SUFFICES ASSUME NEW i \in DOMAIN local_socket'[r]
                   PROVE  /\ local_socket'[r][i] <= sent
                          /\ wpc = "send" => local_socket'[r][i] # sent
                          /\ ~ Received(r, local_socket[r][i])'
        OBVIOUS
      <4> DEFINE n == s[i + 1]
      <4>1. i + 1 \in DOMAIN s /\ local_socket'[r][i] = n /\ n # k
        BY <1>6
      <4>2. n <= sent /\ (wpc = "send" => n # sent) /\ ~ Received(r, n)
        BY <1>4, <4>1
      <4>3. \A j \in DOMAIN received'[r] : received'[r][j] # n
        BY <1>5, <4>1, <4>2 DEF Received
      <4> HIDE DEF n
      <4> QED BY <4>1, <4>2, <4>3 DEF Received
    <3> QED BY <1>5, <1>7, <2>1, <3>1
  <2>2. CASE q # r
    <3>1. received'[q] = received[q] /\ local_socket'[q] = local_socket[q]
      BY <1>2, <2>2
    <3> QED BY <3>1 DEF OnceInv, QueuesDiffer, Received
  <2> QED BY <2>1, <2>2
<1>13. UnreadIsNew'
  <2> SUFFICES ASSUME NEW q \in Reader, NEW d \in Chunk, written_flag[d] = 1,
                      read_flag[d][q] = 0, data[d].kind # "overflow"
               PROVE  ~ InSocket(q, data[d].number)' /\ ~ Received(q, data[d].number)'
    BY <1>1 DEF UnreadIsNew
  <2>1. ~ InSocket(q, data[d].number) /\ ~ Received(q, data[d].number)
    BY DEF OnceInv, UnreadIsNew
  <2>2. CASE q = r
    <3>1. data[d].number # k
      BY <1>3, <2>1, <2>2 DEF InSocket
    <3>2. ~ Received(q, data[d].number)'
      BY <1>1, <1>11, <2>1, <2>2, <3>1
    <3>3. ~ InSocket(q, data[d].number)'
      BY <1>1, <1>6, <2>1, <2>2 DEF InSocket
    <3> QED BY <3>2, <3>3
  <2>3. CASE q # r
    BY <1>1, <1>2, <2>1, <2>3 DEF InSocket, Received
  <2> QED BY <2>2, <2>3
<1> QED BY <1>8, <1>9, <1>10, <1>12, <1>13 DEF OnceInv

(***************************************************************************)
(* The other steps of the writer and of the readers do not deliver.        *)
(***************************************************************************)
LEMMA WriterOnce ==
    ASSUME OnceInv, IInv', Writer
    PROVE  OnceInv'
<1> SUFFICES ASSUME ~ Publish, ~ SendOverflow PROVE OnceInv'
  BY PublishOnce, SendOnce
<1>1. CASE \E kind \in Kinds : enqueue(kind)
  <2>1. /\ wpc' = "count" /\ message'.number = sent + 1
        /\ UNCHANGED <<memoryVars, local_socket, received, sent>>
    BY <1>1 DEF enqueue, socketVars, readerVars
  <2>2. MessageIsNext'
    BY <2>1 DEF MessageIsNext, memoryVars
  <2> QED BY <2>1, <2>2, OnceKept DEF memoryVars
<1>2. CASE CountFlag \/ WriteWait \/ notify
  <2>1. /\ UNCHANGED <<memoryVars, local_socket, received, widx, message, sent>>
        /\ wpc' # "send" /\ wpc' # "reset"
        /\ wpc' \in {"count", "fill"} => wpc = "count"
    BY <1>2 DEF CountFlag, WriteWait, notify, socketVars, readerVars
  <2>2. MessageIsNext'
    BY <2>1 DEF OnceInv, MessageIsNext, memoryVars
  <2> QED BY <2>1, <2>2, OnceKept DEF memoryVars
<1>3. CASE AcquireChunk
  <2>1. MessageIsNext'
    BY <1>3 DEF OnceInv, AcquireChunk, MessageIsNext
  <2>2. \A c \in Chunk : written_flag'[c] = 1 => written_flag[c] = 1
    BY <1>3 DEF AcquireChunk, OnceInv, IInv, TypeOK
  <2> QED BY <1>3, <2>1, <2>2, OnceKept DEF AcquireChunk, socketVars, readerVars
<1>4. CASE FillChunk \/ FillFails
  <2>1. /\ wpc = "fill" /\ \A c \in Chunk : c # widx => data'[c] = data[c]
        /\ UNCHANGED <<written_flag, read_flag, local_socket, received, widx, message, sent>>
        /\ wpc' = "idle" \/ (wpc' = "reset" /\ data' = [data EXCEPT ![widx] = message])
    BY <1>4 DEF FillChunk, FillFails, socketVars, readerVars, OnceInv, IInv, TypeOK
  <2>2. written_flag[widx] = 0
    BY <2>1 DEF OnceInv, IInv, FilledIsUnwritten
  <2>3. MessageIsNext'
    BY <2>1 DEF OnceInv, IInv, TypeOK, MessageIsNext
  <2>4. \A c \in Chunk : written_flag'[c] = 1 => written_flag[c] = 1 /\ data'[c] = data[c]
    BY <2>1, <2>2
  <2> QED BY <2>1, <2>3, <2>4, OnceKept
<1>5. CASE ResetFlag
  <2>1. /\ wpc = "reset" /\ wpc' = wpc
        /\ read_flag' = [read_flag EXCEPT ![widx] = [@ EXCEPT ![rank] = 0]]
        /\ UNCHANGED <<written_flag, data, local_socket, received, widx, message, sent>>
    BY <1>5 DEF ResetFlag, socketVars, readerVars
  <2>2. written_flag[widx] = 0
    BY <2>1 DEF OnceInv, IInv, FilledIsUnwritten
  <2>3. MessageIsNext'
    BY <2>1 DEF OnceInv, MessageIsNext
  <2>4. \A c \in Chunk : c # widx => read_flag'[c] = read_flag[c]
    BY <2>1 DEF OnceInv, IInv, TypeOK
  <2> QED BY <2>1, <2>2, <2>3, <2>4, OnceKept
<1> QED BY <1>1, <1>2, <1>3, <1>4, <1>5 DEF Writer

(***************************************************************************)
(* A payload that is taken from the socket and lost was in no other place. *)
(***************************************************************************)
LEMMA LostOnce ==
    ASSUME OnceInv, IInv', NEW r \in Reader, RecvFails(r)
    PROVE  OnceInv'
<1> DEFINE s == local_socket[r]
<1>1. /\ s # <<>> /\ local_socket' = [local_socket EXCEPT ![r] = Tail(@)]
      /\ UNCHANGED <<written_flag, read_flag, data, wpc, widx, message, sent, received>>
  BY DEF RecvFails, memoryVars, writerVars
<1>2. /\ s \in Seq(Nat) /\ local_socket'[r] = Tail(s)
      /\ \A q \in Reader : q # r => local_socket'[q] = local_socket[q]
  BY <1>1 DEF OnceInv, QueuesOK
<1>3. \A i \in DOMAIN Tail(s) : i + 1 \in DOMAIN s /\ Tail(s)[i] = s[i + 1] /\ i \in Nat
  <2>1. s # <<>> /\ s \in Seq(Nat)
    BY <1>1, <1>2
  <2> HIDE DEF s
  <2> QED BY <2>1, TailNumber
<1>4. /\ \A i \in DOMAIN s : s[i] <= sent /\ (wpc = "send" => s[i] # sent) /\ ~ Received(r, s[i])
      /\ \A i, j \in DOMAIN s : s[i] = s[j] => i = j
  BY DEF OnceInv, QueuesDiffer
<1>5. \A i, j \in DOMAIN Tail(s) : Tail(s)[i] = Tail(s)[j] => i = j
  <2> SUFFICES ASSUME NEW i \in DOMAIN Tail(s), NEW j \in DOMAIN Tail(s), Tail(s)[i] = Tail(s)[j]
               PROVE  i = j
    OBVIOUS
  <2>1. i \in Nat /\ j \in Nat /\ i + 1 \in DOMAIN s /\ j + 1 \in DOMAIN s /\ s[i + 1] = s[j + 1]
    BY <1>3
  <2>2. i + 1 = j + 1
    BY <1>4, <2>1
  <2> HIDE DEF s
  <2> QED BY <2>1, <2>2
<1>6. QueuesOK'
  <2>1. Tail(s) \in Seq(Nat)
    <3> HIDE DEF s
    <3> QED BY <1>1, <1>2 DEF s
  <2> QED BY <1>1, <2>1 DEF OnceInv, QueuesOK
<1>7. \A q : \A n : Received(q, n)' = Received(q, n)
  BY <1>1 DEF Received
<1>8. QueuesDiffer'
  <2> SUFFICES ASSUME NEW q \in Reader
               PROVE  /\ \A i \in DOMAIN local_socket'[q] :
                            /\ local_socket'[q][i] <= sent
                            /\ wpc = "send" => local_socket'[q][i] # sent
                            /\ ~ Received(q, local_socket'[q][i])
                      /\ \A i, j \in DOMAIN local_socket'[q] :
                            local_socket'[q][i] = local_socket'[q][j] => i = j
    BY <1>1, <1>7 DEF OnceInv, QueuesDiffer, Received
  <2>1. CASE q = r
    <3>1. \A i \in DOMAIN Tail(s) : /\ Tail(s)[i] <= sent /\ (wpc = "send" => Tail(s)[i] # sent)
                                    /\ ~ Received(r, Tail(s)[i])
      BY <1>3, <1>4
    <3> HIDE DEF s
    <3> QED BY <1>2, <1>5, <2>1, <3>1
  <2>2. CASE q # r
    BY <1>2, <2>2 DEF OnceInv, QueuesDiffer
  <2> QED BY <2>1, <2>2
<1>9. UnreadIsNew'
  <2>1. \A q \in Reader : \A n : InSocket(q, n)' => InSocket(q, n)
    <3> SUFFICES ASSUME NEW q \in Reader, NEW n, InSocket(q, n)'
                 PROVE  InSocket(q, n)
      OBVIOUS
    <3>1. CASE q = r
      BY <1>2, <1>3, <3>1 DEF InSocket
    <3>2. CASE q # r
      BY <1>2, <3>2 DEF InSocket
    <3> QED BY <3>1, <3>2
  <2> QED BY <1>1, <1>7, <2>1 DEF OnceInv, UnreadIsNew
<1>10. MessageIsNext' /\ ChunksDiffer'
  BY <1>1 DEF OnceInv, MessageIsNext, ChunksDiffer
<1> QED BY <1>6, <1>8, <1>9, <1>10 DEF OnceInv

(***************************************************************************)
(* What a step of a reader leaves alone when it dequeues nothing.          *)
(***************************************************************************)
LEMMA ReaderKeeps ==
    ASSUME NEW r \in Reader, ReaderStep(r), ~ MarkRead(r), ~ RecvOverflow(r),
           ~ RecvFails(r)
    PROVE  UNCHANGED <<memoryVars, writerVars, local_socket, ridx, received>>
BY DEF ReaderStep, dequeue, LoadReadFlag, TestWrittenFlag, wait, Poll, ReadFails, RecvTimeout,
       socketVars

(***************************************************************************)
(* Every step keeps the numbers apart.                                     *)
(***************************************************************************)
LEMMA NextOnce ==
    ASSUME OnceInv, [Next]_vars
    PROVE  OnceInv'
<1>1. IInv'
  BY NextInv DEF OnceInv
<1>2. CASE Writer
  BY <1>1, <1>2, WriterOnce
<1>3. CASE \E r \in Reader : MarkRead(r) \/ RecvOverflow(r) \/ RecvFails(r)
  BY <1>1, <1>3, MarkOnce, RecvOnce, LostOnce
<1>4. CASE UNCHANGED <<memoryVars, writerVars, local_socket, received>>
  <2>1. MessageIsNext'
    BY <1>4 DEF OnceInv, MessageIsNext, memoryVars, writerVars
  <2> QED BY <1>1, <1>4, <2>1, OnceKept DEF memoryVars, writerVars
<1>5. CASE \E r \in Reader : SetShuttingDown(r) \/ cancel(r)
  BY <1>4, <1>5 DEF SetShuttingDown, cancel, socketVars, readerVars
<1>6. CASE UNCHANGED vars
  BY <1>4, <1>6 DEF vars, socketVars, readerVars
<1> QED BY <1>2, <1>3, <1>4, <1>5, <1>6, ReaderKeeps DEF Next

(***************************************************************************)
(* The empty queue delivers nothing twice.                                 *)
(***************************************************************************)
LEMMA InitOnce == Init => OnceInv
<1> SUFFICES ASSUME Init PROVE OnceInv
  OBVIOUS
<1>1. IInv
  BY InitInv
<1>2. QueuesOK /\ MessageIsNext /\ ChunksDiffer /\ QueuesDiffer /\ UnreadIsNew
  BY DEF Init, QueuesOK, MessageIsNext, ChunksDiffer, QueuesDiffer, UnreadIsNew
<1> QED BY <1>1, <1>2 DEF OnceInv

(***************************************************************************)
(* No reader dequeues a message twice, whatever timed out or raised before *)
(* it: not from its chunk, not from the socket, and not once from each.    *)
(***************************************************************************)
THEOREM AlwaysDeliveredOnce == Spec => []DeliveredOnce
<1>1. OnceInv => DeliveredOnce
  BY DEF OnceInv, QueuesDiffer, DeliveredOnce
<1> QED BY InitOnce, NextOnce, <1>1, PTL DEF Spec

-----------------------------------------------------------------------------
(***************************************************************************)
(* The numbers the invariant speaks of.                                    *)
(***************************************************************************)
LEMMA AgeFacts ==
    ASSUME OnceInv
    PROVE  /\ MaxChunks \in Nat \ {0} /\ sent \in Nat /\ widx \in Chunk /\ widx \in Nat
           /\ widx < MaxChunks
           /\ \A c \in Chunk : /\ c \in Nat /\ c < MaxChunks
                               /\ Age(c) \in Nat /\ 1 <= Age(c) /\ Age(c) <= MaxChunks
           /\ \A r \in Reader : /\ received[r] \in Seq(Nat) /\ Len(received[r]) \in Nat
                                /\ local_socket[r] \in Seq(Nat)
                                /\ Marked(r) \in Nat /\ ridx[r] \in Chunk
           /\ \A c \in Chunk : data[c] \in Message /\ data[c].number \in Nat
<1>1. /\ MaxChunks \in Nat \ {0} /\ sent \in Nat /\ widx \in Chunk /\ widx \in Nat
      /\ widx < MaxChunks
  BY RingAssumption DEF OnceInv, IInv, TypeOK, Chunk
<1>2. ASSUME NEW c \in Chunk
      PROVE  /\ c \in Nat /\ c < MaxChunks
             /\ Age(c) \in Nat /\ 1 <= Age(c) /\ Age(c) <= MaxChunks
  BY <1>1 DEF Chunk, Age
<1>3. \A r \in Reader : /\ received[r] \in Seq(Nat) /\ Len(received[r]) \in Nat
                        /\ local_socket[r] \in Seq(Nat)
                        /\ Marked(r) \in Nat /\ ridx[r] \in Chunk
  BY DEF OnceInv, IInv, TypeOK, QueuesOK, Marked
<1>4. \A c \in Chunk : data[c] \in Message /\ data[c].number \in Nat
  BY DEF OnceInv, IInv, TypeOK, Message
<1> QED BY <1>1, <1>2, <1>3, <1>4

(***************************************************************************)
(* A step that keeps the places, the sockets and the chunks; the writer    *)
(* may take the oldest chunk when every reader has read it.                *)
(***************************************************************************)
LEMMA OrderKept ==
    ASSUME OrderInv, OnceInv', ResetFlagsDown',
           UNCHANGED <<local_socket, received, sent, widx, ridx>>,
           wpc' = "send" <=> wpc = "send",
           \A r \in Reader : ~ gave_up'[r] =>
              ~ gave_up[r] /\ (rpc'[r] = "recv" <=> rpc[r] = "recv"),
           \A c \in Chunk : written_flag'[c] = 1 =>
              /\ written_flag[c] = 1 /\ data'[c] = data[c]
              /\ \A r \in Reader : read_flag'[c][r] = read_flag[c][r],
           \A c \in Chunk : c # widx => written_flag'[c] = written_flag[c],
           \/ written_flag'[widx] # 0
           \/ written_flag[widx] = 0
           \/ \A r \in Reader : ~ gave_up[r] => Marked(r) > sent - MaxChunks
    PROVE  OrderInv'
<1>1. \A c \in Chunk : Age(c)' = Age(c)
  BY DEF Age
<1>2. RingInOrder'
  BY <1>1 DEF OrderInv, RingInOrder
<1>3. ASSUME NEW r \in Reader, ~ gave_up'[r]
      PROVE  ReaderInRing(r)' /\ SocketInOrder(r)' /\ ReceivedInOrder(r)'
  <2>1. ~ gave_up[r] /\ (rpc'[r] = "recv" <=> rpc[r] = "recv") /\ Marked(r)' = Marked(r)
    BY <1>3 DEF Marked
  <2>2. ReaderInRing(r) /\ SocketInOrder(r) /\ ReceivedInOrder(r)
    BY <2>1 DEF OrderInv
  <2>3. /\ Marked(r)' = sent' - Age(ridx[r])' \/ (ridx'[r] = widx' /\ Marked(r)' = sent')
        /\ written_flag'[widx'] = 0 => Marked(r)' > sent' - MaxChunks
    BY <1>1, <2>1, <2>2, AgeFacts DEF OrderInv, ReaderInRing
  <2>4. \A c \in Chunk : written_flag'[c] = 1 =>
           (read_flag'[c][r] = 1 <=> data'[c].number <= Marked(r)')
    BY <2>1, <2>2 DEF ReaderInRing
  <2>5. SocketInOrder(r)'
    BY <2>1, <2>2 DEF SocketInOrder, InSocket
  <2>6. ReceivedInOrder(r)'
    BY <2>2 DEF ReceivedInOrder
  <2> QED BY <2>3, <2>4, <2>5, <2>6 DEF ReaderInRing
<1> QED BY <1>2, <1>3 DEF OrderInv

(***************************************************************************)
(* Publish: the other chunks become one older, and no reader is a whole    *)
(* round behind.                                                           *)
(***************************************************************************)
LEMMA PublishOrder ==
    ASSUME OrderInv, OnceInv', Publish
    PROVE  OrderInv'
<1>1. /\ wpc = "reset" /\ written_flag' = [written_flag EXCEPT ![widx] = 1]
      /\ widx' = Successor(widx) /\ sent' = sent + 1
      /\ wpc' = IF message.kind = "overflow" THEN "send" ELSE "notify"
      /\ UNCHANGED <<read_flag, data, message, local_socket, received, rpc, ridx, gave_up>>
  BY DEF Publish, socketVars, readerVars
<1>2. OnceInv
  BY DEF OrderInv
<1>3. /\ data[widx] = message /\ message.number = sent + 1 /\ written_flag[widx] = 0
      /\ written_flag'[widx] = 1
      /\ \A c \in Chunk : c # widx => written_flag'[c] = written_flag[c]
      /\ \A q \in Reader : read_flag[widx][q] = 0
  <2>1. data[widx] = message /\ message.number = sent + 1 /\ written_flag[widx] = 0
    BY <1>1, <1>2 DEF OnceInv, MessageIsNext, IInv, FilledIsUnwritten
  <2>2. \A q \in Reader : read_flag[widx][q] = 0
    <3>1. rank = NReader /\ NReader \in Nat
      BY RingAssumption DEF Publish
    <3>2. \A q \in Reader : q < rank
      BY <3>1 DEF Reader
    <3> QED BY <1>1, <3>2 DEF OrderInv, ResetFlagsDown
  <2> QED BY <1>1, <1>2, <2>1, <2>2 DEF OnceInv, IInv, TypeOK
<1>4. /\ \A c \in Chunk : c = widx => Age(c)' = 1
      /\ \A c \in Chunk : c # widx => Age(c)' = Age(c) + 1
  <2> SUFFICES ASSUME NEW c \in Chunk
               PROVE  Age(c)' = IF c = widx THEN 1 ELSE Age(c) + 1
    OBVIOUS
  <2>3. /\ widx \in Nat /\ c \in Nat /\ c < MaxChunks /\ widx < MaxChunks /\ MaxChunks \in Nat \ {0}
    BY <1>2, AgeFacts
  <2>1. CASE widx + 1 = MaxChunks
    <3>1. widx' = 0
      BY <1>1, <2>1 DEF Successor
    <3> QED BY <2>1, <2>3, <3>1 DEF Age
  <2>2. CASE widx + 1 # MaxChunks
    <3>1. widx' = widx + 1
      BY <1>1, <2>2 DEF Successor
    <3> QED BY <2>2, <2>3, <3>1 DEF Age
  <2> QED BY <2>1, <2>2
<1>5. RingInOrder'
  <2>1. ASSUME NEW c \in Chunk, written_flag'[c] = 1
        PROVE  data[c].number = (sent + 1) + 1 - Age(c)'
    <3>1. CASE c = widx
      <4>1. data[c].number = sent + 1 /\ Age(c)' = 1 /\ sent \in Nat
        BY <1>2, <1>3, <1>4, <3>1, AgeFacts
      <4> QED BY <4>1
    <3>2. CASE c # widx
      <4>1. data[c].number = sent + 1 - Age(c)
        BY <1>3, <2>1, <3>2 DEF OrderInv, RingInOrder
      <4> QED BY <1>2, <1>4, <3>2, <4>1, AgeFacts
    <3> QED BY <3>1, <3>2
  <2>2. ASSUME NEW c \in Chunk, written_flag'[c] = 0, c # widx'
        PROVE  sent + 1 = widx' /\ c > widx'
    <3>1. c # widx /\ sent = widx /\ c > widx
      BY <1>3, <2>2 DEF OrderInv, RingInOrder
    <3>2. widx' = widx + 1
      BY <1>1, <1>2, <3>1, AgeFacts DEF Successor
    <3> QED BY <1>2, <2>2, <3>1, <3>2, AgeFacts
  <2> QED BY <1>1, <2>1, <2>2 DEF RingInOrder
<1>6. ResetFlagsDown'
  BY <1>1 DEF ResetFlagsDown
<1>7. ASSUME NEW r \in Reader, ~ gave_up'[r]
      PROVE  ReaderInRing(r)' /\ SocketInOrder(r)' /\ ReceivedInOrder(r)'
  <2> DEFINE n == Marked(r)
  <2>1. ReaderInRing(r) /\ SocketInOrder(r) /\ ReceivedInOrder(r) /\ n' = n
    BY <1>1, <1>7 DEF OrderInv, Marked
  <2>2. n \in Nat /\ ridx[r] \in Chunk /\ local_socket[r] \in Seq(Nat)
    BY <1>2, AgeFacts
  <2>3. /\ n <= sent /\ n > sent - MaxChunks
        /\ n = sent - Age(ridx[r]) \/ (ridx[r] = widx /\ n = sent)
    <3> HIDE DEF n
    <3> QED BY <1>2, <1>3, <2>1, <2>2, AgeFacts DEF ReaderInRing, n
  <2>4. n = (sent + 1) - Age(ridx[r])'
    <3> DEFINE c == ridx[r]
    <3>3. c' = c /\ c \in Chunk /\ sent \in Nat /\ Age(c) \in Nat
      BY <1>1, <1>2, <2>2, AgeFacts
    <3>4. \A d \in Chunk : d = c => Age(ridx[r])' = Age(d)'
      BY <1>1 DEF Age
    <3>1. CASE ridx[r] = widx
      <4>1. Age(ridx[r]) = MaxChunks
        BY <1>2, <3>1, AgeFacts DEF Age
      <4>2. n = sent
        BY <1>2, <2>2, <2>3, <4>1, AgeFacts
      <4>3. Age(ridx[r])' = 1
        BY <1>4, <3>1, <3>3, <3>4
      <4> QED BY <3>3, <4>2, <4>3
    <3>2. CASE ridx[r] # widx
      <4>1. Age(ridx[r])' = Age(ridx[r]) + 1
        BY <1>4, <3>2, <3>3, <3>4
      <4> QED BY <2>2, <2>3, <3>2, <3>3, <4>1
    <3> QED BY <3>1, <3>2
  <2>5. written_flag'[widx'] = 0 => n' > sent' - MaxChunks
    <3> SUFFICES ASSUME written_flag'[widx'] = 0 PROVE n > (sent + 1) - MaxChunks
      BY <1>1, <2>1
    <3>1. widx' \in Chunk /\ widx' # widx
      BY <1>2, <1>1, <1>3, SuccessorType, AgeFacts
    <3>2. written_flag[widx'] = 0
      BY <1>3, <3>1
    <3>3. sent = widx
      BY <3>1, <3>2 DEF OrderInv, RingInOrder
    <3>4. widx + 1 < MaxChunks
      BY <1>1, <1>2, <3>1, <3>2, <3>3, AgeFacts DEF OrderInv, RingInOrder, Successor
    <3> QED BY <1>2, <2>2, <3>3, <3>4, AgeFacts
  <2>6. ASSUME NEW c \in Chunk, written_flag'[c] = 1
        PROVE  read_flag[c][r] = 1 <=> data[c].number <= n
    <3>1. CASE c = widx
      BY <1>2, <1>3, <2>2, <2>3, <3>1, AgeFacts
    <3>2. CASE c # widx
      BY <1>3, <2>1, <2>6, <3>2 DEF ReaderInRing
    <3> QED BY <3>1, <3>2
  <2>7. ReaderInRing(r)'
    BY <1>1, <2>1, <2>4, <2>5, <2>6 DEF ReaderInRing
  <2>8. \A i \in DOMAIN local_socket[r] : local_socket[r][i] <= sent /\ local_socket[r][i] \in Nat
    BY <1>2, <2>2 DEF OnceInv, QueuesDiffer
  <2>9. ASSUME NEW c \in Chunk, written_flag'[c] = 1, data[c].number > n
        PROVE  IF data[c].kind = "overflow"
               THEN InSocket(r, data[c].number) \/ (wpc' = "send" /\ data[c].number = sent + 1)
               ELSE ~ InSocket(r, data[c].number)
    <3>1. CASE c = widx
      <4>1. data[c] = message /\ data[c].number = sent + 1
        BY <1>3, <3>1
      <4>2. ~ InSocket(r, sent + 1)
        BY <1>2, <2>8, AgeFacts DEF InSocket
      <4> QED BY <1>1, <4>1, <4>2
    <3>2. CASE c # widx
      <4>1. written_flag[c] = 1
        BY <1>3, <2>9, <3>2
      <4> QED BY <1>1, <2>1, <2>9, <4>1 DEF SocketInOrder
    <3> QED BY <3>1, <3>2
  <2>10. rpc[r] = "recv" => InSocket(r, n)
    BY <1>1, <2>1 DEF SocketInOrder
  <2>11. n < sent + 1
    BY <1>2, <2>2, <2>3, AgeFacts
  <2>12. SocketInOrder(r)'
    <3> HIDE DEF n
    <3>1. \A i \in DOMAIN local_socket[r] :
             /\ local_socket[r][i] >= n
             /\ rpc[r] # "recv" => local_socket[r][i] > n
      BY <2>1 DEF SocketInOrder, n
    <3>2. \A i, j \in DOMAIN local_socket[r] : i < j => local_socket[r][i] < local_socket[r][j]
      BY <2>1 DEF SocketInOrder
    <3>3. Marked(r)' = n
      BY <2>1 DEF n
    <3>4. \A k : InSocket(r, k)' <=> InSocket(r, k)
      BY <1>1 DEF InSocket
    <3> QED BY <1>1, <2>9, <2>10, <2>11, <3>1, <3>2, <3>3, <3>4 DEF SocketInOrder
  <2>13. ReceivedInOrder(r)'
    BY <1>1, <2>1 DEF ReceivedInOrder
  <2> QED BY <2>7, <2>12, <2>13
<1> QED BY <1>5, <1>6, <1>7 DEF OrderInv

(***************************************************************************)
(* SendOverflow: the message goes behind those in the sockets.             *)
(***************************************************************************)
LEMMA SendOrder ==
    ASSUME OrderInv, OnceInv', SendOverflow
    PROVE  OrderInv'
<1>1. /\ wpc = "send" /\ wpc' = "notify"
      /\ local_socket' = [r \in Reader |-> Append(local_socket[r], message.number)]
      /\ UNCHANGED <<written_flag, read_flag, data, message, received, sent, widx, rank,
                     rpc, ridx, gave_up>>
  BY DEF SendOverflow, memoryVars, readerVars
<1>2. OnceInv
  BY DEF OrderInv
<1>3. sent \in Nat /\ message.number = sent
  BY <1>1, <1>2 DEF OnceInv, IInv, TypeOK, MessageIsNext
<1>4. RingInOrder' /\ ResetFlagsDown'
  BY <1>1 DEF OrderInv, RingInOrder, ResetFlagsDown, Age
<1>5. ASSUME NEW r \in Reader, ~ gave_up'[r]
      PROVE  ReaderInRing(r)' /\ SocketInOrder(r)' /\ ReceivedInOrder(r)'
  <2> DEFINE n == Marked(r)
             s == local_socket[r]
  <2>1. ReaderInRing(r) /\ SocketInOrder(r) /\ ReceivedInOrder(r) /\ Marked(r)' = n
    BY <1>1, <1>5 DEF OrderInv, Marked
  <2>2. n \in Nat /\ s \in Seq(Nat) /\ local_socket'[r] = Append(s, sent)
    BY <1>1, <1>2, <1>3, AgeFacts
  <2>3. ReaderInRing(r)' /\ ReceivedInOrder(r)'
    BY <1>1, <2>1 DEF ReaderInRing, ReceivedInOrder, Age, Marked
  <2>4. /\ \A i \in DOMAIN s : s[i] \in Nat /\ s[i] < sent
        /\ \A i, j \in DOMAIN s : i < j => s[i] < s[j]
        /\ \A i \in DOMAIN s : s[i] >= n /\ (rpc[r] # "recv" => s[i] > n)
        /\ n <= sent /\ (rpc[r] # "recv" => n < sent)
    <3>1. \A i \in DOMAIN s : s[i] \in Nat /\ s[i] <= sent /\ s[i] # sent
      BY <1>1, <1>2, <2>2 DEF OnceInv, QueuesDiffer
    <3>2. /\ \A i, j \in DOMAIN s : i < j => s[i] < s[j]
          /\ \A i \in DOMAIN s : s[i] >= n /\ (rpc[r] # "recv" => s[i] > n)
          /\ (rpc[r] # "recv" => n < sent)
      BY <1>1, <2>1 DEF SocketInOrder
    <3>3. n <= sent
      BY <1>2, <1>3, <2>1, <2>2, AgeFacts DEF ReaderInRing
    <3> HIDE DEF n, s
    <3> QED BY <1>3, <3>1, <3>2, <3>3
  <2>5. /\ \A i, j \in DOMAIN local_socket'[r] : i < j => local_socket'[r][i] < local_socket'[r][j]
        /\ \A i \in DOMAIN local_socket'[r] :
              local_socket'[r][i] >= n /\ (rpc[r] # "recv" => local_socket'[r][i] > n)
        /\ \A i \in DOMAIN s : \E j \in DOMAIN local_socket'[r] : local_socket'[r][j] = s[i]
        /\ \E j \in DOMAIN local_socket'[r] : local_socket'[r][j] = sent
        /\ \A j \in DOMAIN local_socket'[r] :
              local_socket'[r][j] = sent \/ \E i \in DOMAIN s : local_socket'[r][j] = s[i]
    <3> HIDE DEF n, s
    <3>1. /\ Len(s) \in Nat /\ DOMAIN s = 1 .. Len(s)
          /\ Append(s, sent)[Len(s) + 1] = sent /\ Len(s) + 1 \in DOMAIN Append(s, sent)
          /\ \A i \in DOMAIN s : i \in DOMAIN Append(s, sent) /\ Append(s, sent)[i] = s[i]
          /\ \A i \in DOMAIN Append(s, sent) : i \in DOMAIN s \/ i = Len(s) + 1
      BY <1>3, <2>2, AppendNumber
    <3>2. \A i, j \in DOMAIN Append(s, sent) : i < j => i \in DOMAIN s
      BY <3>1
    <3>3. \A i, j \in DOMAIN Append(s, sent) : i < j => Append(s, sent)[i] < Append(s, sent)[j]
      BY <2>4, <3>1, <3>2
    <3>4. \A i \in DOMAIN Append(s, sent) :
             Append(s, sent)[i] >= n /\ (rpc[r] # "recv" => Append(s, sent)[i] > n)
      BY <1>3, <2>2, <2>4, <3>1
    <3> QED BY <2>2, <3>1, <3>3, <3>4
  <2>6. \A k : InSocket(r, k)' <=> InSocket(r, k) \/ k = sent
    <3> HIDE DEF n
    <3> QED BY <2>5 DEF InSocket
  <2>7. ASSUME NEW c \in Chunk, written_flag[c] = 1, data[c].number > n
        PROVE  IF data[c].kind = "overflow"
               THEN InSocket(r, data[c].number) \/ data[c].number = sent
               ELSE ~ (InSocket(r, data[c].number) \/ data[c].number = sent)
    <3>1. data[c].number = sent => data[c].kind = "overflow"
      BY <1>1, <1>2, <2>7 DEF OnceInv, ChunksDiffer
    <3> QED BY <1>1, <2>1, <2>7, <3>1 DEF SocketInOrder
  <2>8. rpc[r] = "recv" => InSocket(r, n) \/ n = sent
    BY <1>1, <2>1 DEF SocketInOrder
  <2>9. SocketInOrder(r)'
    <3> HIDE DEF n, s
    <3> QED BY <1>1, <2>1, <2>5, <2>6, <2>7, <2>8 DEF SocketInOrder
  <2> QED BY <2>3, <2>9
<1> QED BY <1>4, <1>5 DEF OrderInv

(***************************************************************************)
(* MarkRead: the chunk a reader reads holds the message after the last it  *)
(* has marked.                                                             *)
(***************************************************************************)
LEMMA MarkOrder ==
    ASSUME OrderInv, OnceInv', NEW r \in Reader, MarkRead(r)
    PROVE  OrderInv'
<1> DEFINE c == ridx[r]
           k == data[ridx[r]].number
           n == Marked(r)
<1>1. /\ rpc[r] = "read" /\ c \in Chunk /\ written_flag[c] = 1 /\ read_flag[c][r] = 0
      /\ read_flag' = [read_flag EXCEPT ![c] = [@ EXCEPT ![r] = 1]]
      /\ ridx' = [ridx EXCEPT ![r] = Successor(@)]
      /\ UNCHANGED <<written_flag, data, local_socket, wpc, widx, rank, message, sent, gave_up>>
  BY DEF MarkRead, OrderInv, OnceInv, IInv, TypeOK, ReadIsWritten, socketVars, writerVars
<1>2. OnceInv
  BY DEF OrderInv
<1>3. /\ read_flag \in [Chunk -> [Reader -> {0, 1}]] /\ ridx \in [Reader -> Chunk]
      /\ rpc \in [Reader -> {"idle", "load", "test", "wait", "poll", "read", "recv", "stopped"}]
      /\ received \in [Reader -> Seq(Nat)]
  BY <1>2 DEF OnceInv, IInv, TypeOK, QueuesOK
<1>4. /\ read_flag'[c][r] = 1
      /\ \A d \in Chunk, q \in Reader : ~(d = c /\ q = r) => read_flag'[d][q] = read_flag[d][q]
      /\ ridx'[r] = Successor(c) /\ \A q \in Reader : q # r => ridx'[q] = ridx[q]
  BY <1>1, <1>3
<1>5. /\ \A q \in Reader : q # r => rpc'[q] = rpc[q] /\ received'[q] = received[q]
      /\ \/ /\ data[c].kind = "overflow" /\ rpc'[r] = "recv" /\ received'[r] = received[r]
         \/ /\ data[c].kind # "overflow" /\ rpc'[r] = "idle"
            /\ received'[r] = Append(received[r], k)
  BY <1>3 DEF MarkRead, GoTo
<1>6. RingInOrder'
  BY <1>1 DEF OrderInv, RingInOrder, Age
<1>7. ResetFlagsDown'
  <2>1. wpc = "reset" => widx # c
    BY <1>1, <1>2 DEF OnceInv, IInv, FilledIsUnwritten
  <2>2. wpc = "reset" => \A i \in Reader : read_flag'[widx][i] = read_flag[widx][i]
    BY <1>2, <1>4, <2>1, AgeFacts
  <2> QED BY <1>1, <2>2 DEF OrderInv, ResetFlagsDown
<1>8. ASSUME NEW q \in Reader, q # r, ~ gave_up[q]
      PROVE  ReaderInRing(q)' /\ SocketInOrder(q)' /\ ReceivedInOrder(q)'
  <2>1. ReaderInRing(q) /\ SocketInOrder(q) /\ ReceivedInOrder(q)
    BY <1>8 DEF OrderInv
  <2>2. /\ Marked(q)' = Marked(q) /\ Age(ridx[q])' = Age(ridx[q])
        /\ ridx'[q] = ridx[q] /\ rpc'[q] = rpc[q] /\ received'[q] = received[q]
        /\ \A d \in Chunk : read_flag'[d][q] = read_flag[d][q]
    <3>1. /\ ridx'[q] = ridx[q] /\ rpc'[q] = rpc[q] /\ received'[q] = received[q]
          /\ \A d \in Chunk : read_flag'[d][q] = read_flag[d][q]
      BY <1>4, <1>5, <1>8
    <3> QED BY <1>1, <3>1 DEF Marked, Age
  <2>3. ReaderInRing(q)'
    BY <1>1, <2>1, <2>2 DEF ReaderInRing
  <2>4. SocketInOrder(q)'
    BY <1>1, <2>1, <2>2 DEF SocketInOrder, InSocket
  <2>5. ReceivedInOrder(q)'
    BY <2>1, <2>2 DEF ReceivedInOrder
  <2> QED BY <2>3, <2>4, <2>5
<1>9. ASSUME ~ gave_up[r]
      PROVE  ReaderInRing(r)' /\ SocketInOrder(r)' /\ ReceivedInOrder(r)'
  <2>1. ReaderInRing(r) /\ SocketInOrder(r) /\ ReceivedInOrder(r)
    BY <1>9 DEF OrderInv
  <2>2. /\ n \in Nat /\ k \in Nat /\ sent \in Nat /\ Age(c) \in Nat /\ 1 <= Age(c)
        /\ Age(c) <= MaxChunks /\ MaxChunks \in Nat \ {0}
        /\ received[r] \in Seq(Nat) /\ Len(received[r]) \in Nat
    BY <1>1, <1>2, AgeFacts
  <2>3. k = n + 1 /\ n = sent - Age(c)
    <3>1. k = sent + 1 - Age(c)
      BY <1>1 DEF OrderInv, RingInOrder
    <3>2. ~ (k <= n)
      BY <1>1, <2>1 DEF ReaderInRing
    <3>3. n = sent - Age(c) \/ n = sent
      BY <2>1 DEF ReaderInRing
    <3> HIDE DEF n, c, k
    <3> QED BY <2>2, <3>1, <3>2, <3>3
  <2>4. n = Len(received[r])
    BY <1>1, <2>2 DEF Marked
  <2>5. Marked(r)' = n + 1
    <3>1. CASE rpc'[r] = "recv" /\ received'[r] = received[r]
      BY <2>4, <3>1 DEF Marked
    <3>2. CASE rpc'[r] = "idle" /\ received'[r] = Append(received[r], k)
      <4>1. Len(received'[r]) = Len(received[r]) + 1
        BY <2>2, <3>2, AppendNumber
      <4>2. Marked(r)' = Len(received'[r]) + 0
        BY <3>2 DEF Marked
      <4> HIDE DEF n
      <4> QED BY <2>2, <2>4, <4>1, <4>2
    <3> QED BY <1>5, <3>1, <3>2
  <2>6. \/ n + 1 = sent - Age(ridx[r])'
        \/ ridx'[r] = widx /\ n + 1 = sent
    <3>1. /\ c \in Nat /\ widx \in Nat /\ c < MaxChunks /\ widx < MaxChunks
          /\ ridx'[r] = IF c + 1 = MaxChunks THEN 0 ELSE c + 1
      BY <1>1, <1>2, <1>4, AgeFacts DEF Successor
    <3>2. Age(c) = IF c < widx THEN widx - c ELSE (widx - c) + MaxChunks
      BY DEF Age
    <3>3. Age(ridx[r])' = IF ridx'[r] < widx THEN widx - ridx'[r]
                          ELSE (widx - ridx'[r]) + MaxChunks
      BY <1>1 DEF Age
    <3> HIDE DEF c, n, k
    <3> QED BY <2>2, <2>3, <3>1, <3>2, <3>3
  <2>7. written_flag[widx] = 0 => n + 1 > sent - MaxChunks
    <3>1. written_flag[widx] = 0 => n > sent - MaxChunks
      BY <2>1 DEF ReaderInRing
    <3> HIDE DEF n
    <3> QED BY <2>2, <3>1
  <2>8. ASSUME NEW d \in Chunk, written_flag[d] = 1
        PROVE  read_flag'[d][r] = 1 <=> data[d].number <= n + 1
    <3>1. CASE d = c
      BY <1>4, <2>2, <2>3, <3>1
    <3>2. CASE d # c
      <4>1. data[d].number # k /\ data[d].number \in Nat
        BY <1>1, <1>2, <2>8, <3>2, AgeFacts DEF OnceInv, ChunksDiffer
      <4>2. read_flag'[d][r] = 1 <=> data[d].number <= n
        BY <1>4, <2>1, <2>8, <3>2 DEF ReaderInRing
      <4> HIDE DEF n, k
      <4> QED BY <2>2, <2>3, <4>1, <4>2
    <3> QED BY <3>1, <3>2
  <2>9. ReaderInRing(r)'
    <3> HIDE DEF n
    <3> QED BY <1>1, <2>5, <2>6, <2>7, <2>8 DEF ReaderInRing
  <2>10. ReceivedInOrder(r)'
    <3>1. CASE received'[r] = received[r]
      BY <2>1, <3>1 DEF ReceivedInOrder
    <3>2. CASE received'[r] = Append(received[r], k)
      <4>1. \A i \in DOMAIN received[r] : received[r][i] = i
        BY <2>1 DEF ReceivedInOrder
      <4>2. \A i \in DOMAIN received'[r] : received'[r][i] = i
        <5> HIDE DEF k, n
        <5> QED BY <2>2, <2>3, <2>4, <3>2, <4>1, AppendNumber
      <4> QED BY <4>2 DEF ReceivedInOrder
    <3> QED BY <1>5, <3>1, <3>2
  <2>11. SocketInOrder(r)'
    <3> DEFINE s == local_socket[r]
    <3>1. s \in Seq(Nat) /\ \A i \in DOMAIN s : s[i] \in Nat
      BY <1>2, AgeFacts
    <3>2. /\ \A i, j \in DOMAIN s : i < j => s[i] < s[j]
          /\ \A i \in DOMAIN s : s[i] > n
      BY <1>1, <2>1 DEF SocketInOrder
    <3>3. /\ data[c].kind = "overflow" => InSocket(r, n + 1) \/ (wpc = "send" /\ n + 1 = sent)
          /\ data[c].kind # "overflow" => ~ InSocket(r, n + 1) /\ (wpc = "send" => n + 1 # sent)
      <4>1. k > n
        <5> HIDE DEF n, k
        <5> QED BY <2>2, <2>3
      <4>2. data[c].kind # "overflow" => ~ (wpc = "send" /\ k = sent)
        BY <1>1, <1>2 DEF OnceInv, ChunksDiffer
      <4> QED BY <1>1, <2>1, <2>3, <4>1, <4>2 DEF SocketInOrder
    <3>4. wpc = "send" => n < sent
      BY <1>1, <2>1 DEF SocketInOrder
    <3>5. \A i \in DOMAIN s : /\ s[i] >= n + 1
                              /\ data[c].kind # "overflow" => s[i] > n + 1
      <4>1. data[c].kind # "overflow" => \A i \in DOMAIN s : s[i] # n + 1
        BY <3>3 DEF InSocket
      <4> HIDE DEF n, c, s
      <4> QED BY <2>2, <3>1, <3>2, <4>1
    <3>6. ASSUME NEW d \in Chunk, written_flag[d] = 1, data[d].number > n + 1
          PROVE  IF data[d].kind = "overflow"
                 THEN InSocket(r, data[d].number) \/ (wpc = "send" /\ data[d].number = sent)
                 ELSE ~ InSocket(r, data[d].number)
      <4>1. data[d].number > n
        <5>1. data[d].number \in Nat
          BY <1>2, AgeFacts
        <5> HIDE DEF n
        <5> QED BY <2>2, <3>6, <5>1
      <4> QED BY <2>1, <3>6, <4>1 DEF SocketInOrder
    <3>7. data[c].kind # "overflow" /\ wpc = "send" => n + 1 < sent
      <4> HIDE DEF n, c
      <4> QED BY <2>2, <3>3, <3>4
    <3>8. \A x : InSocket(r, x)' <=> InSocket(r, x)
      BY <1>1 DEF InSocket
    <3>9. rpc'[r] = "recv" <=> data[c].kind = "overflow"
      BY <1>5
    <3> HIDE DEF n, c
    <3> QED BY <1>1, <2>5, <3>2, <3>3, <3>5, <3>6, <3>7, <3>8, <3>9 DEF SocketInOrder
  <2> QED BY <2>9, <2>10, <2>11
<1> QED BY <1>1, <1>6, <1>7, <1>8, <1>9 DEF OrderInv

(***************************************************************************)
(* RecvOverflow: the first message in the socket is the one whose chunk    *)
(* the reader has just marked.                                             *)
(***************************************************************************)
LEMMA RecvOrder ==
    ASSUME OrderInv, OnceInv', NEW r \in Reader, RecvOverflow(r)
    PROVE  OrderInv'
<1> DEFINE s == local_socket[r]
           k == Head(local_socket[r])
           n == Marked(r)
<1>1. /\ rpc[r] = "recv" /\ s # <<>> /\ local_socket' = [local_socket EXCEPT ![r] = Tail(@)]
      /\ received' = [received EXCEPT ![r] = Append(@, k)]
      /\ rpc' = [rpc EXCEPT ![r] = "idle"]
      /\ UNCHANGED <<written_flag, read_flag, data, wpc, widx, rank, message, sent, ridx, gave_up>>
  BY DEF RecvOverflow, GoTo, memoryVars, writerVars
<1>2. OnceInv
  BY DEF OrderInv
<1>3. /\ rpc \in [Reader -> {"idle", "load", "test", "wait", "poll", "read", "recv", "stopped"}]
      /\ received \in [Reader -> Seq(Nat)] /\ local_socket \in [Reader -> Seq(Nat)]
  BY <1>2 DEF OnceInv, IInv, TypeOK, QueuesOK
<1>4. /\ \A q \in Reader : q # r => /\ rpc'[q] = rpc[q] /\ received'[q] = received[q]
                                    /\ local_socket'[q] = local_socket[q]
      /\ rpc'[r] = "idle" /\ received'[r] = Append(received[r], k) /\ local_socket'[r] = Tail(s)
  BY <1>1, <1>3
<1>5. RingInOrder' /\ ResetFlagsDown'
  BY <1>1 DEF OrderInv, RingInOrder, ResetFlagsDown, Age
<1>6. ASSUME NEW q \in Reader, q # r, ~ gave_up[q]
      PROVE  ReaderInRing(q)' /\ SocketInOrder(q)' /\ ReceivedInOrder(q)'
  <2>1. ReaderInRing(q) /\ SocketInOrder(q) /\ ReceivedInOrder(q)
    BY <1>6 DEF OrderInv
  <2>2. /\ rpc'[q] = rpc[q] /\ received'[q] = received[q] /\ local_socket'[q] = local_socket[q]
    BY <1>4, <1>6
  <2>3. Marked(q)' = Marked(q) /\ Age(ridx[q])' = Age(ridx[q])
    BY <1>1, <2>2 DEF Marked, Age
  <2>4. ReaderInRing(q)'
    BY <1>1, <2>1, <2>3 DEF ReaderInRing
  <2>5. SocketInOrder(q)'
    BY <1>1, <2>1, <2>2, <2>3 DEF SocketInOrder, InSocket
  <2>6. ReceivedInOrder(q)'
    BY <2>1, <2>2 DEF ReceivedInOrder
  <2> QED BY <2>4, <2>5, <2>6
<1>7. ASSUME ~ gave_up[r]
      PROVE  ReaderInRing(r)' /\ SocketInOrder(r)' /\ ReceivedInOrder(r)'
  <2>1. ReaderInRing(r) /\ SocketInOrder(r) /\ ReceivedInOrder(r)
    BY <1>7 DEF OrderInv
  <2>2. /\ n \in Nat /\ sent \in Nat /\ s \in Seq(Nat)
        /\ received[r] \in Seq(Nat) /\ Len(received[r]) \in Nat
    BY <1>2, AgeFacts
  <2>3. n = Len(received[r]) + 1
    BY <1>1 DEF Marked
  <2>4. /\ k \in Nat /\ k = s[1] /\ 1 \in DOMAIN s
        /\ \A i \in DOMAIN Tail(s) : i + 1 \in DOMAIN s /\ Tail(s)[i] = s[i + 1]
                                     /\ 1 < i + 1 /\ i \in Nat /\ s[i + 1] \in Nat
        /\ \A i \in DOMAIN s : i \in Nat /\ 1 <= i
    <3>1. /\ k \in Nat /\ k = s[1] /\ 1 \in DOMAIN s /\ DOMAIN s = 1 .. Len(s) /\ Len(s) \in Nat
          /\ DOMAIN Tail(s) = 1 .. (Len(s) - 1)
          /\ \A i \in DOMAIN Tail(s) : i + 1 \in DOMAIN s /\ Tail(s)[i] = s[i + 1] /\ 1 < i + 1
      <4> HIDE DEF s
      <4> QED BY <1>1, <2>2, TailNumber DEF s
    <3> HIDE DEF s, k
    <3> QED BY <2>2, <3>1
  <2>5. /\ \A i, j \in DOMAIN s : i < j => s[i] < s[j]
        /\ \A i \in DOMAIN s : s[i] >= n /\ s[i] \in Nat
        /\ (\E i \in DOMAIN s : s[i] = n) \/ (wpc = "send" /\ n = sent)
    BY <1>1, <2>1, <2>2 DEF SocketInOrder, InSocket
  <2>6. wpc = "send" => k < sent
    <3>1. k <= sent /\ (wpc = "send" => k # sent)
      BY <1>2, <2>4 DEF OnceInv, QueuesDiffer
    <3> HIDE DEF s, k
    <3> QED BY <2>2, <2>4, <3>1
  <2>7. k = n
    <3>1. k >= n
      BY <2>4, <2>5
    <3>2. \A i \in DOMAIN s : s[i] >= k
      <4> HIDE DEF s, k, n
      <4>1. \A i \in DOMAIN s : i = 1 \/ 1 < i
        BY <2>4
      <4> QED BY <2>4, <2>5, <4>1
    <3> HIDE DEF s, k, n
    <3> QED BY <2>2, <2>4, <2>5, <2>6, <3>1, <3>2
  <2>8. Marked(r)' = n
    <3>1. Len(received'[r]) = Len(received[r]) + 1
      <4> HIDE DEF k
      <4> QED BY <1>4, <2>2, <2>4, AppendNumber
    <3>2. Marked(r)' = Len(received'[r]) + 0
      BY <1>4 DEF Marked
    <3> HIDE DEF n
    <3> QED BY <2>2, <2>3, <3>1, <3>2
  <2>9. ReaderInRing(r)'
    <3>1. Age(ridx[r])' = Age(ridx[r])
      BY <1>1 DEF Age
    <3> QED BY <1>1, <2>1, <2>8, <3>1 DEF ReaderInRing
  <2>10. ReceivedInOrder(r)'
    <3>1. \A i \in DOMAIN received[r] : received[r][i] = i
      BY <2>1 DEF ReceivedInOrder
    <3>2. \A i \in DOMAIN received'[r] : received'[r][i] = i
      <4> HIDE DEF k, n
      <4> QED BY <1>4, <2>2, <2>3, <2>4, <2>7, <3>1, AppendNumber
    <3> QED BY <3>2 DEF ReceivedInOrder
  <2>11. /\ \A i, j \in DOMAIN local_socket'[r] :
               i < j => local_socket'[r][i] < local_socket'[r][j]
         /\ \A i \in DOMAIN local_socket'[r] : local_socket'[r][i] > n /\ local_socket'[r][i] >= n
    <3>1. \A i \in DOMAIN Tail(s) : Tail(s)[i] > n /\ Tail(s)[i] >= n
      <4> HIDE DEF s, k, n
      <4> QED BY <2>2, <2>4, <2>5, <2>7
    <3>2. \A i, j \in DOMAIN Tail(s) : i < j => Tail(s)[i] < Tail(s)[j]
      <4> HIDE DEF s, k, n
      <4>1. \A i, j \in DOMAIN Tail(s) : i < j => i + 1 < j + 1
        BY <2>4
      <4> QED BY <2>4, <2>5, <4>1
    <3> QED BY <1>4, <3>1, <3>2
  <2>12. ASSUME NEW x \in Nat, x > n
         PROVE  InSocket(r, x)' <=> InSocket(r, x)
    <3>1. \A i \in DOMAIN s : i = 1 \/ \E j \in DOMAIN Tail(s) : Tail(s)[j] = s[i]
      <4> HIDE DEF s
      <4> QED BY <1>1, <2>2, TailNumber DEF s
    <3>2. x # s[1]
      <4> HIDE DEF s, k, n
      <4> QED BY <2>2, <2>4, <2>7, <2>12
    <3> HIDE DEF k, n
    <3> QED BY <1>4, <2>4, <3>1, <3>2 DEF InSocket
  <2>13. ASSUME NEW c \in Chunk, written_flag[c] = 1, data[c].number > n
         PROVE  IF data[c].kind = "overflow"
                THEN InSocket(r, data[c].number)' \/ (wpc = "send" /\ data[c].number = sent)
                ELSE ~ InSocket(r, data[c].number)'
    <3> DEFINE x == data[c].number
    <3>1. /\ x \in Nat /\ x' = x
      BY <1>1, <1>2, AgeFacts
    <3>2. IF data[c].kind = "overflow"
          THEN InSocket(r, x) \/ (wpc = "send" /\ x = sent) ELSE ~ InSocket(r, x)
      BY <2>1, <2>13 DEF SocketInOrder
    <3>3. InSocket(r, x)' <=> InSocket(r, x)
      <4>1. \A y \in Nat : y > n => (InSocket(r, y)' <=> InSocket(r, y))
        BY <2>12
      <4>2. \A y : y = x => (InSocket(r, x)' <=> InSocket(r, y)')
        BY <3>1 DEF InSocket
      <4> HIDE DEF x, n
      <4> QED BY <2>13, <3>1, <4>1, <4>2 DEF x
    <3> QED BY <3>2, <3>3
  <2>14. wpc = "send" => n < sent
    <3> HIDE DEF k, n
    <3> QED BY <2>6, <2>7
  <2>15. SocketInOrder(r)'
    <3> HIDE DEF n, k
    <3> QED BY <1>1, <1>4, <2>8, <2>11, <2>13, <2>14 DEF SocketInOrder
  <2> QED BY <2>9, <2>10, <2>15
<1> QED BY <1>1, <1>5, <1>6, <1>7 DEF OrderInv

(***************************************************************************)
(* The other steps of the writer: acquire_write takes a chunk that is not  *)
(* written only after every reader has read it.                            *)
(***************************************************************************)
LEMMA AcquireOrder ==
    ASSUME OrderInv, OnceInv', AcquireChunk
    PROVE  OrderInv'
<1>1. /\ wpc = "count" /\ rank = NReader /\ CanWrite /\ wpc' = "fill"
      /\ written_flag' = [written_flag EXCEPT ![widx] = 0]
      /\ UNCHANGED <<read_flag, data, local_socket, received, sent, widx, ridx, rpc, gave_up>>
  BY DEF AcquireChunk, socketVars, readerVars
<1>2. OnceInv /\ IInv
  BY DEF OrderInv, OnceInv
<1>3. ASSUME written_flag[widx] # 0, NEW r \in Reader, ~ gave_up[r]
      PROVE  Marked(r) > sent - MaxChunks
  <2>1. written_flag[widx] = 1 /\ widx \in Chunk
    BY <1>2, <1>3 DEF IInv, TypeOK
  <2>2. read_flag[widx][r] = 1
    <3>1. read_count = rank /\ r < rank
      BY <1>1, <1>3, RingAssumption DEF CanWrite, Reader
    <3> QED BY <1>1, <1>2, <3>1 DEF IInv, CountedFlagsStayUp
  <2>3. data[widx].number = sent + 1 - Age(widx) /\ Age(widx) = MaxChunks
    <3>1. Age(widx) = MaxChunks
      BY <1>2, AgeFacts DEF Age
    <3> QED BY <2>1, <3>1 DEF OrderInv, RingInOrder
  <2>4. data[widx].number <= Marked(r)
    BY <1>3, <2>1, <2>2 DEF OrderInv, ReaderInRing
  <2> QED BY <1>2, <2>3, <2>4, AgeFacts
<1>4. /\ \A c \in Chunk : written_flag'[c] = 1 => written_flag[c] = 1
      /\ \A c \in Chunk : c # widx => written_flag'[c] = written_flag[c]
  BY <1>1, <1>2 DEF IInv, TypeOK
<1>5. ResetFlagsDown'
  BY <1>1 DEF ResetFlagsDown
<1> QED BY <1>1, <1>3, <1>4, <1>5, OrderKept

(***************************************************************************)
(* None of the other steps of the writer moves it or sends a message.      *)
(***************************************************************************)
LEMMA WriterOrder ==
    ASSUME OrderInv, OnceInv', Writer
    PROVE  OrderInv'
<1> SUFFICES ASSUME ~ Publish, ~ SendOverflow, ~ AcquireChunk PROVE OrderInv'
  BY PublishOrder, SendOrder, AcquireOrder
<1>1. OnceInv /\ IInv
  BY DEF OrderInv, OnceInv
<1>2. CASE (\E kind \in Kinds : enqueue(kind)) \/ CountFlag \/ WriteWait \/ notify
  <2>1. /\ UNCHANGED <<written_flag, read_flag, data, local_socket, received, sent, widx,
                       ridx, rpc, gave_up>>
        /\ wpc # "send" /\ wpc' # "send" /\ wpc' # "reset"
    BY <1>2 DEF enqueue, CountFlag, WriteWait, notify, memoryVars, socketVars, readerVars
  <2>2. ResetFlagsDown'
    BY <2>1 DEF ResetFlagsDown
  <2> QED BY <2>1, <2>2, OrderKept
<1>3. CASE FillChunk \/ FillFails
  <2>1. /\ wpc = "fill" /\ \A c \in Chunk : c # widx => data'[c] = data[c]
        /\ UNCHANGED <<written_flag, read_flag, local_socket, received, sent, widx,
                       ridx, rpc, gave_up>>
        /\ wpc' = "idle" \/ (wpc' = "reset" /\ rank' = 0)
    <3>1. data \in [Chunk -> Message]
      BY <1>1 DEF IInv, TypeOK
    <3>2. CASE FillChunk
      BY <3>1, <3>2 DEF FillChunk, socketVars, readerVars
    <3>3. CASE FillFails
      BY <3>1, <3>3 DEF FillFails, socketVars, readerVars
    <3> QED BY <1>3, <3>2, <3>3
  <2>2. written_flag[widx] = 0
    BY <1>1, <2>1 DEF IInv, FilledIsUnwritten
  <2>3. ResetFlagsDown'
    BY <2>1 DEF ResetFlagsDown, Reader
  <2> QED BY <2>1, <2>2, <2>3, OrderKept
<1>4. CASE ResetFlag
  <2>1. /\ wpc = "reset" /\ wpc' = wpc /\ rank \in Reader /\ rank' = rank + 1 /\ rank \in Nat
        /\ read_flag' = [read_flag EXCEPT ![widx] = [@ EXCEPT ![rank] = 0]]
        /\ UNCHANGED <<written_flag, data, local_socket, received, sent, widx, ridx, rpc, gave_up>>
    BY <1>1, <1>4, RingAssumption DEF ResetFlag, socketVars, readerVars, IInv, TypeOK, Reader
  <2>2. written_flag[widx] = 0
    BY <1>1, <2>1 DEF IInv, FilledIsUnwritten
  <2>3. /\ \A c \in Chunk : c # widx => read_flag'[c] = read_flag[c]
        /\ read_flag'[widx][rank] = 0
        /\ \A i \in Reader : i # rank => read_flag'[widx][i] = read_flag[widx][i]
    BY <1>1, <2>1 DEF IInv, TypeOK
  <2>4. ResetFlagsDown'
    <3>1. \A i \in Reader : i < rank + 1 => i = rank \/ i < rank
      BY <2>1 DEF Reader
    <3> QED BY <2>1, <2>3, <3>1 DEF OrderInv, ResetFlagsDown
  <2> QED BY <2>1, <2>2, <2>3, <2>4, OrderKept
<1> QED BY <1>2, <1>3, <1>4 DEF Writer

(***************************************************************************)
(* RecvFails: the reader has given up, and the others see nothing of it.   *)
(***************************************************************************)
LEMMA LostOrder ==
    ASSUME OrderInv, OnceInv', NEW r \in Reader, RecvFails(r)
    PROVE  OrderInv'
<1>1. /\ local_socket' = [local_socket EXCEPT ![r] = Tail(@)]
      /\ gave_up' = [gave_up EXCEPT ![r] = TRUE] /\ rpc' = [rpc EXCEPT ![r] = "idle"]
      /\ UNCHANGED <<written_flag, read_flag, data, wpc, widx, rank, message, sent, ridx, received>>
  BY DEF RecvFails, GoTo, memoryVars, writerVars
<1>2. /\ rpc \in [Reader -> {"idle", "load", "test", "wait", "poll", "read", "recv", "stopped"}]
      /\ local_socket \in [Reader -> Seq(Nat)] /\ gave_up \in [Reader -> BOOLEAN]
  BY DEF OrderInv, OnceInv, IInv, TypeOK, QueuesOK
<1>3. RingInOrder' /\ ResetFlagsDown'
  BY <1>1 DEF OrderInv, RingInOrder, ResetFlagsDown, Age
<1>4. ASSUME NEW q \in Reader, ~ gave_up'[q]
      PROVE  ReaderInRing(q)' /\ SocketInOrder(q)' /\ ReceivedInOrder(q)'
  <2>1. /\ q # r /\ ~ gave_up[q]
        /\ rpc'[q] = rpc[q] /\ local_socket'[q] = local_socket[q] /\ received' = received
    BY <1>1, <1>2, <1>4
  <2>2. ReaderInRing(q) /\ SocketInOrder(q) /\ ReceivedInOrder(q)
    BY <2>1 DEF OrderInv
  <2>3. Marked(q)' = Marked(q) /\ Age(ridx[q])' = Age(ridx[q])
    BY <1>1, <2>1 DEF Marked, Age
  <2>4. ReaderInRing(q)'
    BY <1>1, <2>2, <2>3 DEF ReaderInRing
  <2>5. SocketInOrder(q)'
    BY <1>1, <2>1, <2>2, <2>3 DEF SocketInOrder, InSocket
  <2>6. ReceivedInOrder(q)'
    BY <2>1, <2>2 DEF ReceivedInOrder
  <2> QED BY <2>4, <2>5, <2>6
<1> QED BY <1>3, <1>4 DEF OrderInv

(***************************************************************************)
(* The other steps of a reader: it leaves recv for another place only when *)
(* it gives up.                                                            *)
(***************************************************************************)
LEMMA ReaderOrder ==
    ASSUME OrderInv, OnceInv', NEW r \in Reader, ReaderStep(r), ~ MarkRead(r), ~ RecvOverflow(r),
           ~ RecvFails(r)
    PROVE  OrderInv'
<1>1. UNCHANGED <<written_flag, read_flag, data, wpc, widx, rank, sent, local_socket, ridx, received>>
  BY ReaderKeeps DEF memoryVars, writerVars
<1>2. /\ rpc \in [Reader -> {"idle", "load", "test", "wait", "poll", "read", "recv", "stopped"}]
      /\ gave_up \in [Reader -> BOOLEAN]
  BY DEF OrderInv, OnceInv, IInv, TypeOK
<1>3. ASSUME NEW q \in Reader, ~ gave_up'[q]
      PROVE  ~ gave_up[q] /\ (rpc'[q] = "recv" <=> rpc[q] = "recv")
  <2>1. CASE RecvTimeout(r)
    <3>1. gave_up' = [gave_up EXCEPT ![r] = TRUE] /\ rpc' = [rpc EXCEPT ![r] = "idle"]
      BY <2>1 DEF RecvTimeout, GoTo
    <3> QED BY <1>2, <1>3, <3>1
  <2>2. CASE ~ RecvTimeout(r)
    <3>1. /\ gave_up' = gave_up /\ rpc[r] # "recv"
          /\ rpc'[r] # "recv" /\ \A p \in Reader : p # r => rpc'[p] = rpc[p]
      BY <1>2, <2>2 DEF ReaderStep, dequeue, LoadReadFlag, TestWrittenFlag, wait, Poll, ReadFails,
                  Awake, GoTo
    <3>2. CASE q = r
      BY <1>3, <3>1, <3>2
    <3>3. CASE q # r
      BY <1>3, <3>1, <3>3
    <3> QED BY <3>2, <3>3
  <2> QED BY <2>1, <2>2
<1>4. ResetFlagsDown'
  BY <1>1 DEF OrderInv, ResetFlagsDown
<1> QED BY <1>1, <1>3, <1>4, OrderKept

(***************************************************************************)
(* Every step keeps the order.                                             *)
(***************************************************************************)
LEMMA NextOrder ==
    ASSUME OrderInv, [Next]_vars
    PROVE  OrderInv'
<1>1. OnceInv'
  BY NextOnce DEF OrderInv
<1>2. CASE Writer
  BY <1>1, <1>2, WriterOrder
<1>3. CASE \E r \in Reader : ReaderStep(r)
  BY <1>1, <1>3, MarkOrder, RecvOrder, LostOrder, ReaderOrder
<1>4. CASE \/ \E r \in Reader : SetShuttingDown(r) \/ cancel(r)
           \/ UNCHANGED vars
  <2>1. UNCHANGED <<written_flag, read_flag, data, wpc, widx, rank, sent, local_socket,
                    rpc, ridx, received, gave_up>>
    BY <1>4 DEF SetShuttingDown, cancel, vars, memoryVars, socketVars, writerVars, readerVars
  <2>2. ResetFlagsDown'
    BY <2>1 DEF OrderInv, ResetFlagsDown
  <2> QED BY <1>1, <2>1, <2>2, OrderKept
<1> QED BY <1>2, <1>3, <1>4 DEF Next

(***************************************************************************)
(* In the empty queue everybody is at the first chunk.                     *)
(***************************************************************************)
LEMMA InitOrder == Init => OrderInv
<1> SUFFICES ASSUME Init PROVE OrderInv
  OBVIOUS
<1>1. OnceInv
  BY InitOnce
<1>2. RingInOrder /\ ResetFlagsDown
  BY DEF Init, RingInOrder, ResetFlagsDown, Chunk
<1>3. ASSUME NEW r \in Reader
      PROVE  ReaderInRing(r) /\ SocketInOrder(r) /\ ReceivedInOrder(r)
  <2>1. Marked(r) = 0 /\ ridx[r] = 0 /\ widx = 0 /\ sent = 0
    BY DEF Init, Marked
  <2> QED BY <2>1, RingAssumption DEF Init, ReaderInRing, SocketInOrder, ReceivedInOrder, InSocket
<1> QED BY <1>1, <1>2, <1>3 DEF OrderInv

(***************************************************************************)
(* Every reader dequeues the messages in the order in which they were      *)
(* enqueued and misses none, whether they came in a chunk or through the   *)
(* socket, as long as it has not given up on one in between.               *)
(***************************************************************************)
THEOREM AlwaysDeliveredInOrder == Spec => []DeliveredInOrder
<1>1. OrderInv => DeliveredInOrder
  BY DEF OrderInv, ReceivedInOrder, DeliveredInOrder
<1> QED BY InitOrder, NextOrder, <1>1, PTL DEF Spec
=============================================================================
