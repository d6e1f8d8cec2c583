---------------------------- MODULE ShmTransfer -----------------------------
(***************************************************************************)
(* Messages of the shared memory transport (FairMQMessageSHM), the sockets *)
(* that pass their headers on (FairMQSocketSHM) and the unmanaged region   *)
(* whose blocks are acknowledged to the process that created it (Region,   *)
(* Manager).  The body of a message is a chunk of the segment or a block   *)
(* of the region; only its header <<fRegionId, fHandle>> is sent.          *)
(***************************************************************************)
EXTENDS Integers, Sequences, FiniteSets

CONSTANTS
    Processes,
    RegionOwner,        \* the process that creates the region
    Messages,           \* places for message objects
    Home,               \* the process of each place
    Handles,            \* chunks the segment has room for
    Blocks,             \* blocks of the region; it may have others
    MaxWire,            \* bound: messages on the way to a process
    Reuse,              \* are message objects used again after a transfer?
    NoMessage

ASSUME TransferAssumption ==
    /\ RegionOwner \in Processes
    /\ Home \in [Messages -> Processes]
    /\ Handles \subseteq Nat \ {0}
    /\ Blocks \subseteq Nat
    /\ MaxWire \in Nat
    /\ Reuse \in BOOLEAN
    /\ NoMessage \notin [fRegionId : {0, 1}, fHandle : Nat \cup {-1}, fQueued : BOOLEAN,
                      fMessage : {"invalid", "empty", "header", "unsized"}]

VARIABLES
    allocated,      \* the chunks in use
    msg,            \* the message object in each place
    wire,           \* the messages on the way to each process, as sequences of headers
    region,         \* the name of the region: "none", "exists", "removed"
    fRegions,       \* the processes that have the region open
    blocks,         \* the blocks the application may fill
    acks,           \* the acknowledgement queue
    fInterrupted,   \* the processes whose transfers are interrupted
    fLocalPtr,      \* the messages that know the address of their block
    fRegionPtr      \* what each message keeps of Manager::GetRemoteRegion

vars == <<allocated, msg, wire, region, fRegions, blocks, acks, fInterrupted, fLocalPtr, fRegionPtr>>
regionVars == <<region, fRegions, blocks, acks>>
pointers == <<fLocalPtr, fRegionPtr>>

\* fRegionPtr: nullptr, a pointer to an entry of the map fRegions of the process, or to
\* one that was erased.
RegionPtrs == {"null", "entry", "dangling"}

\* fMessage: "invalid" before zmq_msg_init, "empty", a header of the right size,
\* or a header written into a message of size 0.
FMessages == {"invalid", "empty", "header", "unsized"}

NewMessage(regionId, handle, meta) ==
    [fRegionId |-> regionId, fHandle |-> handle, fMessage |-> meta, fQueued |-> FALSE]

Header(m) == <<msg[m].fRegionId, msg[m].fHandle>>

Init ==
    /\ allocated = {}
    /\ msg = [m \in Messages |-> NoMessage]
    /\ wire = [p \in Processes |-> <<>>]
    /\ region = "none"
    /\ fRegions = {}
    /\ blocks = {}
    /\ acks = <<>>
    /\ fInterrupted = {}
    /\ fLocalPtr = {}
    /\ fRegionPtr = [m \in Messages |-> "null"]

-----------------------------------------------------------------------------
(* Creation.                                                               *)

Free(m) == msg[m] = NoMessage
Exists(m) == msg[m] # NoMessage

\* A message that has had no body yet.
Fresh(m) == Exists(m) /\ msg[m].fHandle = -1 /\ ~msg[m].fQueued

Construct(m) ==
    /\ Free(m)
    /\ msg' = [msg EXCEPT ![m] = NewMessage(0, -1, "empty")]
    /\ UNCHANGED <<allocated, wire, regionVars, fInterrupted, pointers>>

\* InitializeChunk of a message without a handle: waits for room in the segment, or
\* for an interruption.
InitializeChunk(m, old) ==
    \/ \E h \in Handles \ allocated :
          /\ allocated' = allocated \cup {h}
          /\ msg' = [msg EXCEPT ![m] = [old EXCEPT !.fHandle = h, !.fMessage = "header"]]
    \/ /\ allocated = Handles
       /\ Home[m] \in fInterrupted
       /\ msg' = [msg EXCEPT ![m] = old]
       /\ UNCHANGED allocated

ConstructSize(m) ==
    /\ Free(m)
    /\ InitializeChunk(m, NewMessage(0, -1, "invalid"))
    /\ UNCHANGED <<wire, regionVars, fInterrupted, pointers>>

ConstructFromRegion(m) ==
    /\ Free(m)
    /\ Home[m] = RegionOwner
    /\ \E b \in blocks :
          /\ blocks' = blocks \ {b}
          /\ msg' = [msg EXCEPT ![m] = NewMessage(1, b, "header")]
    /\ fLocalPtr' = fLocalPtr \cup {m}
    /\ UNCHANGED <<allocated, wire, region, fRegions, acks, fInterrupted, fRegionPtr>>

\* The handle of the source is only compared with 0.
Copy(m) ==
    /\ Exists(m) /\ msg[m].fHandle < 0
    /\ \E n \in Messages \ {m} : Exists(n) /\ Home[n] = Home[m] /\ msg[n].fHandle # 0
    /\ InitializeChunk(m, msg[m])
    /\ UNCHANGED <<wire, regionVars, fInterrupted, pointers>>

-----------------------------------------------------------------------------
(* Transfer.  Timeouts, interruptions and errors return without effect.    *)

\* Messages become fQueued.  Without Reuse nobody looks at their pointers again.
Queued(ms) ==
    IF Reuse THEN UNCHANGED pointers
    ELSE /\ fLocalPtr' = fLocalPtr \ ms
         /\ fRegionPtr' = [m \in Messages |-> IF m \in ms THEN "null" ELSE fRegionPtr[m]]

Sendable(m) == Exists(m) /\ msg[m].fMessage # "invalid" /\ (Reuse \/ ~msg[m].fQueued)

\* Variant: the message does not give its body up.
SendKeeping(m) ==
    /\ Sendable(m)
    /\ Home[m] \notin fInterrupted
    /\ \E p \in Processes \ {Home[m]} :
          /\ Len(wire[p]) < MaxWire
          /\ wire' = [wire EXCEPT ![p] =
                         Append(@, IF msg[m].fMessage = "header" THEN <<Header(m)>> ELSE <<>>)]
          /\ msg' = [msg EXCEPT ![m].fMessage = "empty"]
    /\ UNCHANGED <<allocated, regionVars, fInterrupted, pointers>>

\* SendImpl of a message; libzmq takes the content of fMessage.  A message of size
\* 0 is sent as such.
Send(m) ==
    /\ Sendable(m)
    /\ Home[m] \notin fInterrupted
    /\ \E p \in Processes \ {Home[m]} :
          /\ Len(wire[p]) < MaxWire
          /\ \/ /\ msg[m].fMessage = "header"
                /\ wire' = [wire EXCEPT ![p] = Append(@, <<Header(m)>>)]
                /\ msg' = [msg EXCEPT ![m].fMessage = "empty", ![m].fQueued = TRUE]
                /\ Queued({m})
             \/ /\ msg[m].fMessage # "header"
                /\ wire' = [wire EXCEPT ![p] = Append(@, <<>>)]
                /\ msg' = [msg EXCEPT ![m].fMessage = "empty"]
                /\ UNCHANGED pointers
    /\ UNCHANGED <<allocated, regionVars, fInterrupted>>

\* SendImpl of two parts: a message with the headers of both, which keep theirs.
\* A part without a header would be read beyond its size; it is not sent.
SendParts(m, n) ==
    /\ m # n /\ Home[m] = Home[n]
    /\ \A k \in {m, n} : Sendable(k) /\ msg[k].fMessage \in {"header", "unsized"}
    /\ Home[m] \notin fInterrupted
    /\ \E p \in Processes \ {Home[m]} :
          /\ Len(wire[p]) < MaxWire
          /\ wire' = [wire EXCEPT ![p] = Append(@, <<Header(m), Header(n)>>)]
    /\ msg' = [k \in Messages |-> IF k \in {m, n} THEN [msg[k] EXCEPT !.fQueued = TRUE] ELSE msg[k]]
    /\ Queued({m, n})
    /\ UNCHANGED <<allocated, regionVars, fInterrupted>>

\* ReceiveImpl of a message, which is empty or has one header (asserted).
\* Without Reuse it replaces no body: the old handle would be overwritten.
Receive(m) ==
    LET p == Home[m] IN
    /\ Exists(m) /\ msg[m].fMessage # "invalid" /\ (Reuse \/ Fresh(m))
    /\ wire[p] # <<>>
    /\ wire' = [wire EXCEPT ![p] = Tail(@)]
    /\ \/ /\ Head(wire[p]) = <<>>
          /\ msg' = [msg EXCEPT ![m].fMessage = "empty"]
       \/ /\ Len(Head(wire[p])) = 1
          /\ msg' = [msg EXCEPT ![m].fMessage = "header",
                                ![m].fRegionId = Head(wire[p])[1][1],
                                ![m].fHandle = Head(wire[p])[1][2]]
    /\ UNCHANGED <<allocated, regionVars, fInterrupted, pointers>>

\* ReceiveImpl of parts makes new messages and writes the headers into messages
\* that zmq_msg_init has made empty.
ReceiveParts(p, place) ==
    /\ p \notin fInterrupted
    /\ wire[p] # <<>>
    /\ wire' = [wire EXCEPT ![p] = Tail(@)]
    /\ \A i, j \in DOMAIN place : i # j => place[i] # place[j]
    /\ \A i \in DOMAIN place : Free(place[i]) /\ Home[place[i]] = p
    /\ Len(place) = Len(Head(wire[p]))
    /\ msg' = [m \in Messages |->
                  IF \E i \in DOMAIN place : place[i] = m
                  THEN LET header == Head(wire[p])[CHOOSE i \in DOMAIN place : place[i] = m]
                       IN  NewMessage(header[1], header[2], "unsized")
                  ELSE msg[m]]
    /\ UNCHANGED <<allocated, regionVars, fInterrupted, pointers>>

-----------------------------------------------------------------------------
(* The end of a message.                                                   *)

Holds(m) == msg[m].fHandle >= 0 /\ ~msg[m].fQueued

\* GetRemoteRegion finds the region in fRegions or opens it.
CanOpen(p) == p \in fRegions \/ region = "exists"
Opened(p) == IF CanOpen(p) THEN fRegions \cup {p} ELSE fRegions
GetRemoteRegion(p) == IF CanOpen(p) THEN "entry" ELSE "null"

\* GetData of a message of a region that does not know the address of its body.
GetData(m) ==
    /\ Exists(m) /\ msg[m].fRegionId # 0
    /\ m \notin fLocalPtr /\ (Reuse \/ ~msg[m].fQueued)
    /\ fRegions' = Opened(Home[m])
    /\ fRegionPtr' = [fRegionPtr EXCEPT ![m] = GetRemoteRegion(Home[m])]
    /\ fLocalPtr' = IF CanOpen(Home[m]) THEN fLocalPtr \cup {m} ELSE fLocalPtr
    /\ UNCHANGED <<allocated, msg, wire, region, blocks, acks, fInterrupted>>

\* The region pointer that CloseMessage uses: the one it finds, dangling or not.
RegionPtr(m) == IF fRegionPtr[m] = "null" THEN GetRemoteRegion(Home[m]) ELSE fRegionPtr[m]

\* Variant: a full acknowledgement queue is not waited for.
SendAckOnce(m) ==
    \/ RegionPtr(m) # "null" /\ acks' \in {acks, Append(acks, msg[m].fHandle)}
    \/ RegionPtr(m) = "null" /\ UNCHANGED acks

\* The acknowledgement is retried while the queue is full, of other blocks too, until
\* an interruption.  Through a pointer to an entry that was erased it may be sent, as the
\* next entry is often put in the same place, or not.
SendAck(m) ==
    \/ RegionPtr(m) # "null" /\ acks' = Append(acks, msg[m].fHandle)
    \/ RegionPtr(m) = "entry" /\ Home[m] \in fInterrupted /\ UNCHANGED acks
    \/ RegionPtr(m) \in {"null", "dangling"} /\ UNCHANGED acks

Deallocate(m) ==
    /\ Holds(m) /\ msg[m].fRegionId = 0
    /\ allocated' = allocated \ {msg[m].fHandle}
    /\ UNCHANGED regionVars

Acknowledge(m) ==
    /\ Holds(m) /\ msg[m].fRegionId # 0
    /\ SendAck(m)
    /\ fRegions' = IF fRegionPtr[m] = "null" THEN Opened(Home[m]) ELSE fRegions
    /\ UNCHANGED <<allocated, region, blocks>>

CloseMessage(m) ==
    /\ Exists(m)
    /\ \/ Deallocate(m)
       \/ Acknowledge(m)
       \/ ~Holds(m) /\ UNCHANGED <<allocated, regionVars>>

\* What CloseMessage leaves in fHandle and in fRegionPtr.
Closed(m) == IF Holds(m) /\ msg[m].fRegionId = 0 THEN 0 ELSE msg[m].fHandle
ClosedPtr(m) == IF Holds(m) /\ msg[m].fRegionId # 0 THEN RegionPtr(m) ELSE fRegionPtr[m]

Destroy(m) ==
    /\ CloseMessage(m)
    /\ msg' = [msg EXCEPT ![m] = NoMessage]
    /\ fLocalPtr' = fLocalPtr \ {m}
    /\ fRegionPtr' = [fRegionPtr EXCEPT ![m] = "null"]
    /\ UNCHANGED <<wire, fInterrupted>>

Rebuild(m) ==
    /\ Exists(m) /\ (Reuse \/ Fresh(m))
    /\ CloseMessage(m)
    /\ msg' = [msg EXCEPT ![m].fQueued = FALSE, ![m].fHandle = Closed(m), ![m].fMessage = "empty"]
    /\ fRegionPtr' = [fRegionPtr EXCEPT ![m] = ClosedPtr(m)]
    /\ UNCHANGED <<wire, fInterrupted, fLocalPtr>>

\* A chunk is allocated only for a message that had no body: CloseMessage leaves 0
\* or the handle that was sent, and InitializeChunk keeps it.
RebuildSize(m) ==
    /\ Exists(m) /\ (Reuse \/ Fresh(m))
    /\ IF msg[m].fHandle < 0
       THEN InitializeChunk(m, [msg[m] EXCEPT !.fMessage = "invalid"]) /\ UNCHANGED <<regionVars, pointers>>
       ELSE /\ CloseMessage(m)
            /\ msg' = [msg EXCEPT ![m].fQueued = FALSE, ![m].fHandle = Closed(m),
                                  ![m].fMessage = "header"]
            /\ fRegionPtr' = [fRegionPtr EXCEPT ![m] = ClosedPtr(m)]
            /\ UNCHANGED fLocalPtr
    /\ UNCHANGED <<wire, fInterrupted>>

-----------------------------------------------------------------------------
(* The region.                                                             *)

CreateRegion ==
    /\ region = "none"
    /\ region' = "exists"
    /\ fRegions' = {RegionOwner}
    /\ blocks' = Blocks
    /\ UNCHANGED <<allocated, msg, wire, acks, fInterrupted, pointers>>

ReceiveAcks ==
    /\ region = "exists"
    /\ acks # <<>>
    /\ acks' = Tail(acks)
    /\ blocks' = blocks \cup {Head(acks)}
    /\ UNCHANGED <<allocated, msg, wire, region, fRegions, fInterrupted, pointers>>

\* A process erases its entry of the region: the pointers to it dangle.
WithoutRegion(p) ==
    [m \in Messages |-> IF Home[m] = p /\ fRegionPtr[m] = "entry" THEN "dangling" ELSE fRegionPtr[m]]

DestroyRegion ==
    /\ region = "exists"
    /\ region' = "removed"
    /\ fRegions' = fRegions \ {RegionOwner}
    /\ blocks' = {}
    /\ fRegionPtr' = WithoutRegion(RegionOwner)
    /\ UNCHANGED <<allocated, msg, wire, acks, fInterrupted, fLocalPtr>>

Interrupt(p) ==
    /\ fInterrupted' = fInterrupted \cup {p}
    /\ UNCHANGED <<allocated, msg, wire, regionVars, pointers>>

\* Resume closes the regions of other processes.
Resume(p) ==
    /\ fInterrupted' = fInterrupted \ {p}
    /\ fRegions' = IF p = RegionOwner THEN fRegions ELSE fRegions \ {p}
    /\ fRegionPtr' = IF p = RegionOwner THEN fRegionPtr ELSE WithoutRegion(p)
    /\ UNCHANGED <<allocated, msg, wire, region, blocks, acks, fLocalPtr>>

-----------------------------------------------------------------------------
MessageStep(m) ==
    \/ Construct(m) \/ ConstructSize(m) \/ ConstructFromRegion(m) \/ Copy(m)
    \/ Send(m) \/ Receive(m) \/ GetData(m) \/ Destroy(m) \/ Rebuild(m) \/ RebuildSize(m)

Places == {<<>>} \cup {<<m>> : m \in Messages} \cup (Messages \X Messages)

Next ==
    \/ \E m \in Messages : MessageStep(m)
    \/ \E m, n \in Messages : SendParts(m, n)
    \/ \E p \in Processes, place \in Places : ReceiveParts(p, place)
    \/ CreateRegion \/ ReceiveAcks \/ DestroyRegion
    \/ \E p \in Processes : Interrupt(p) \/ Resume(p)

Spec == Init /\ [][Next]_vars

-----------------------------------------------------------------------------
(* Properties.                                                             *)

Holders(header) == {m \in Messages : Exists(m) /\ Holds(m) /\ Header(m) = header}

OnWire(header) ==
    {t \in Processes \X (1 .. MaxWire) \X (1 .. 2) :
        /\ t[2] \in DOMAIN wire[t[1]]
        /\ t[3] \in DOMAIN wire[t[1]][t[2]]
        /\ wire[t[1]][t[2]][t[3]] = header}

Owners(header) == Holders(header) \cup OnWire(header)

\* A chunk in use belongs to one message that will deallocate it (fHandle >= 0 and
\* not fQueued, the condition of CloseMessage), or to one header on its way; a chunk
\* that is not in use to none.  So no chunk is deallocated twice, used after that, or
\* leaked, whichever way (SendImpl, ReceiveImpl, single or multipart) it was passed on.
OneOwner ==
    \A h \in Handles :
        IF h \in allocated
        THEN \E o \in Owners(<<0, h>>) : Owners(<<0, h>>) = {o}
        ELSE Owners(<<0, h>>) = {}

BlockOwners(b) ==
    Cardinality(Owners(<<1, b>>)) + Cardinality({i \in DOMAIN acks : acks[i] = b}) + (IF b \in blocks THEN 1 ELSE 0)

\* A block of the region is in one hand: the callback of ReceiveAcks never gives it
\* back to the application while a message with it is on its way, in use or not yet
\* acknowledged.
BlockOneOwner == \A b \in Blocks : BlockOwners(b) <= 1

\* While the region exists and nothing is interrupted, a block is never lost: the
\* retries of CloseMessage included, and Manager::Resume dropping the open regions under
\* a message that has not been looked at (GetData).  A message that has keeps a pointer
\* which Resume leaves dangling; what CloseMessage does with that one is not claimed.
BlocksKept ==
    [][region = "exists" /\ region' = "exists" /\ fInterrupted = {} =>
          \A b \in Blocks :
              \/ BlockOwners(b)' = BlockOwners(b)
              \/ \E m \in Holders(<<1, b>>) : fRegionPtr[m] = "dangling"]_vars

\* For each chunk: free, on its way, or the process of the message that holds it.
owner == [h \in Handles |->
    IF h \notin allocated THEN "free"
    ELSE IF Holders(<<0, h>>) = {} THEN "wire"
    ELSE Home[CHOOSE m \in Holders(<<0, h>>) : TRUE]]

Ownership == INSTANCE ChunkOwnership

\* The messages and sockets implement the passing on of chunks from owner to owner:
\* a process frees a chunk, or reads it, only between getting and giving it away.
OwnershipSpec == Ownership!Spec
=============================================================================
