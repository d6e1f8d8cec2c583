------------------------------ MODULE Messages ------------------------------
(***************************************************************************)
(* Message objects of the ZeroMQ and the nanomsg transport and the buffers *)
(* they refer to: FairMQMessageZMQ, FairMQMessageNN and the wrapping that  *)
(* FairMQChannel does when a message of one transport is given to a socket *)
(* of the other.                                                           *)
(*                                                                         *)
(* A heap is a function from buffer numbers to buffers. A buffer has its   *)
(* content, its length, the number of references to it (zmq_msg_t counts   *)
(* them, a nanomsg buffer has one), and the buffer that its free function  *)
(* gives up in turn. An operation on a message is a function from a heap   *)
(* and a message to a heap and a message.                                  *)
(***************************************************************************)
EXTENDS Integers, Sequences, FiniteSets, SequencesExt, FiniteSetsExt

CONSTANT MaxBuffers     \* buffers that may exist at a time

Buffers == 1..MaxBuffers
NoBuffer == 0

Unused == [val |-> 0, len |-> 0, ref |-> 0, keeps |-> NoBuffer, by |-> "none"]

EmptyHeap == [b \in Buffers |-> Unused]

\* A message object: fMsg, fViewMsg, fUsedSize and fUsedSizeModified of the one
\* class; fMessage (buf), fSize (used), fReceiving and fRegionPtr of the other.
\* "sent" marks a fMessage that still points to the buffer nn_send took over.
Message(t) ==
    [type |-> t, buf |-> NoBuffer, view |-> FALSE, used |-> 0, modified |-> FALSE,
     receiving |-> FALSE, region |-> FALSE, sent |-> FALSE]

Result(h, m) == [heap |-> h, msg |-> m]

-----------------------------------------------------------------------------
(* Buffers.                                                                *)

NewBuffer(h) == CHOOSE b \in Buffers : h[b].ref = 0 /\ \A c \in 1..(b - 1) : h[c].ref # 0

\* A new buffer; "by" is the library that counts its references.
Allocate(h, by, v, n, keeps) ==
    [h EXCEPT ![NewBuffer(h)] = [val |-> v, len |-> n, ref |-> 1, keeps |-> keeps, by |-> by]]

Acquire(h, b) == IF b = NoBuffer THEN h ELSE [h EXCEPT ![b].ref = @ + 1]

\* The last reference calls the free function, which gives up a reference in turn:
\* given[n] is the buffer that the n-th call gives up a reference to.
Release(h, b) ==
    LET given[n \in 0..MaxBuffers] ==
            IF n = 0 THEN b
            ELSE IF given[n - 1] # NoBuffer /\ h[given[n - 1]].ref = 1 THEN h[given[n - 1]].keeps
            ELSE NoBuffer
        all == {given[n] : n \in 0..MaxBuffers}
    IN  [c \in Buffers |->
            IF c \notin all THEN h[c]
            ELSE IF h[c].ref = 1 THEN Unused
            ELSE [h[c] EXCEPT !.ref = @ - 1]]

Length(h, b) == IF b = NoBuffer THEN 0 ELSE h[b].len
Content(h, b) == IF b = NoBuffer THEN 0 ELSE h[b].val

-----------------------------------------------------------------------------
(* FairMQMessageZMQ.                                                       *)

ZmqGetSize(h, m) == IF m.modified THEN m.used ELSE Length(h, m.buf)

ZmqCloseMessage(h, m) == Result(Release(h, m.buf), Message("zeromq"))

\* The constructors with a size, with a buffer and its free function, and with
\* a part of a region, which is copied.
ZmqMessage(h, v, n) ==
    Result(Allocate(h, "zeromq", v, n, NoBuffer),
           [Message("zeromq") EXCEPT !.buf = NewBuffer(h), !.used = n])

ZmqMessageData(h, v, n, keeps) ==
    Result(Allocate(h, "zeromq", v, n, keeps), [Message("zeromq") EXCEPT !.buf = NewBuffer(h)])

ZmqRebuild(h, m, v, n) == ZmqMessageData(ZmqCloseMessage(h, m).heap, v, n, NoBuffer)

ZmqSetUsedSize(h, m, n) ==
    IF n <= Length(h, m.buf) THEN [m EXCEPT !.used = n, !.modified = TRUE] ELSE m

\* The view has the size in use and keeps the original until it is closed.
ApplyUsedSize(h, m) ==
    IF m.modified /\ ~m.view
    THEN Result(Allocate(h, "zeromq", Content(h, m.buf), m.used, m.buf),
                [m EXCEPT !.buf = NewBuffer(h), !.view = TRUE])
    ELSE Result(h, m)

\* Mutation: the shared buffer is not counted.
ZmqCopyUncounted(h, m, from) ==
    Result(Release(h, m.buf), [m EXCEPT !.buf = from.buf, !.modified = from.modified, !.used = from.used])

\* The copy shares the buffer, and takes over the size in use.
ZmqCopy(h, m, from) ==
    Result(Acquire(Release(h, m.buf), from.buf),
           IF from.modified
           THEN [m EXCEPT !.buf = from.buf, !.modified = TRUE, !.used = from.used]
           ELSE [m EXCEPT !.buf = from.buf])

-----------------------------------------------------------------------------
(* FairMQMessageNN.                                                        *)

NnMessage(h, v, n) ==
    Result(Allocate(h, "nanomsg", v, n, NoBuffer),
           [Message("nanomsg") EXCEPT !.buf = NewBuffer(h), !.used = n])

\* nn_allocmsg(0): an empty message has a buffer, too.
NnMessageEmpty(h) == NnMessage(h, 0, 0)

\* The message points to the part of the region itself.
NnMessageRegion(h, n) ==
    Result(h, [Message("nanomsg") EXCEPT !.used = n, !.region = TRUE])

NnCloseMessage(h, m) == Result(Release(h, m.buf), Message("nanomsg"))

NnRebuild(h, m, v, n) == NnMessage(NnCloseMessage(h, m).heap, v, n)

NnSetUsedSize(h, m, n) ==
    IF n <= m.used
    THEN Result([h EXCEPT ![m.buf].len = n], [m EXCEPT !.used = n])
    ELSE Result(h, m)

NnCopy(h, m, from) ==
    LET r == NnMessage(Release(h, m.buf), Content(h, from.buf), from.used)
    IN  Result(r.heap, [m EXCEPT !.buf = r.msg.buf, !.used = from.used])

\* The destructor closes a received message only: nn_send took the buffer of one
\* that was sent over. The buffer of one that was neither is lost; nobody can refer
\* to it again, so that the heap need not tell it from one that was freed.
NnDestroy(h, m) == IF m.sent THEN h ELSE NnCloseMessage(h, m).heap

-----------------------------------------------------------------------------
(* FairMQMessage, whatever the transport.                                  *)

GetSize(h, m) == IF m.type = "zeromq" THEN ZmqGetSize(h, m) ELSE m.used

NewMessage(h, t) == IF t = "zeromq" THEN Result(h, Message(t)) ELSE NnMessageEmpty(h)

\* NewMessage(size), NewMessage(data, size, free function), NewSimpleMessage:
\* the nanomsg message copies the data and calls the free function at once.
NewMessageOf(h, t, v, n) ==
    IF t = "zeromq" THEN ZmqMessageData(h, v, n, NoBuffer) ELSE NnMessage(h, v, n)

NewRegionMessage(h, t, n) ==
    IF t = "zeromq" THEN ZmqMessage(h, 0, n) ELSE NnMessageRegion(h, n)

Rebuild(h, m, v, n) ==
    IF m.type = "zeromq" THEN ZmqRebuild(h, m, v, n) ELSE NnRebuild(h, m, v, n)

SetUsedSize(h, m, n) ==
    IF m.type = "zeromq" THEN Result(h, ZmqSetUsedSize(h, m, n)) ELSE NnSetUsedSize(h, m, n)

Copy(h, m, from) == IF m.type = "zeromq" THEN ZmqCopy(h, m, from) ELSE NnCopy(h, m, from)

Destroy(h, m) ==
    IF m.type = "zeromq" THEN ZmqCloseMessage(h, m).heap ELSE NnDestroy(h, m)

DestroyAll(h, ms) == FoldLeft(Destroy, h, ms)

-----------------------------------------------------------------------------
(* FairMQChannel.                                                          *)

\* Mutation: the wrapper takes the whole buffer.
WrapWholeBuffer(h, m, t) ==
    IF m.type = t THEN Result(h, m)
    ELSE IF t = "zeromq"
    THEN ZmqMessageData(h, Content(h, m.buf), m.used, m.buf)
    ELSE LET r == NnMessage(h, Content(h, m.buf), Length(h, m.buf))
         IN  Result(Destroy(r.heap, m), r.msg)

\* The wrapper for a ZeroMQ socket keeps the nanomsg message until its data is
\* no longer needed; the one for a nanomsg socket copies and deletes it.
CheckSendCompatibility(h, m, t) ==
    IF m.type = t THEN Result(h, m)
    ELSE IF t = "zeromq"
    THEN ZmqMessageData(h, Content(h, m.buf), m.used, m.buf)
    ELSE LET r == NnMessage(h, Content(h, m.buf), ZmqGetSize(h, m))
         IN  Result(Destroy(r.heap, m), r.msg)

\* A message of another transport is replaced by a new one.
CheckReceiveCompatibility(h, m, t) ==
    IF m.type = t THEN Result(h, m) ELSE NewMessage(Destroy(h, m), t)
=============================================================================
