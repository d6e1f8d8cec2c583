------------------------- MODULE ShmTransferProofs --------------------------
(***************************************************************************)
(* The bodies of messages, for any number of processes, messages, chunks   *)
(* and blocks, when message objects are used for one body: every chunk of  *)
(* the segment has one owner, the chunks pass from owner to owner as       *)
(* ChunkOwnership says, a block of the region is in one hand and is not    *)
(* lost.                                                                   *)
(*                                                                         *)
(* A body is named by its header x: <<0, h>> is chunk h, <<1, b>> block b. *)
(***************************************************************************)
EXTENDS ShmTransfer, FiniteSetTheorems, TLAPS

\* A message object that has body x to dispose of; a message that is one; a place on
\* the wire with its header.
OwnsBody(r, x) == r # NoMessage /\ r.fHandle = x[2] /\ r.fRegionId = x[1] /\ ~r.fQueued

HoldsBody(m, x) == OwnsBody(msg[m], x)

Carries(p, i, j, x) ==
    /\ i \in 1 .. Len(wire[p]) /\ j \in 1 .. Len(wire[p][i])
    /\ wire[p][i][j] = x

MessageTypes == [fRegionId : {0, 1}, fHandle : Nat \cup {-1}, fMessage : FMessages, fQueued : BOOLEAN]
Headers == {0, 1} \X Nat

WireTypes ==
    /\ wire \in [Processes -> Seq(Seq(Headers))]
    /\ \A p \in Processes : Len(wire[p]) <= MaxWire /\ \A i \in 1 .. Len(wire[p]) : Len(wire[p][i]) <= 2

TransferTypes ==
    /\ allocated \in SUBSET Handles
    /\ blocks \in SUBSET Nat
    /\ acks \in Seq(Nat)
    /\ msg \in [Messages -> MessageTypes \cup {NoMessage}]
    /\ WireTypes

\* A message without a body has never had one; one with a header to send has a body.
BodyOK(r) ==
    r # NoMessage =>
        /\ r.fHandle = -1 => r.fRegionId = 0 /\ ~r.fQueued
        /\ r.fMessage \in {"header", "unsized"} => r.fHandle >= 0

BodyInv == \A m \in Messages : BodyOK(msg[m])

Owned(x) ==
    \/ \E m \in Messages : HoldsBody(m, x)
    \/ \E p \in Processes, i, j \in Nat : Carries(p, i, j, x)

\* Nobody owns a body together with another.
Alone(x) ==
    /\ \A m, n \in Messages : HoldsBody(m, x) /\ HoldsBody(n, x) => m = n
    /\ \A m \in Messages, p \in Processes, i, j \in Nat : ~(HoldsBody(m, x) /\ Carries(p, i, j, x))
    /\ \A p, q \in Processes, i, j, k, l \in Nat :
          Carries(p, i, j, x) /\ Carries(q, k, l, x) => p = q /\ i = k /\ j = l

\* A chunk is owned when it is in use.
ChunkInv(h) == Owned(<<0, h>>) <=> h \in allocated

Acked(b) == \E i \in 1 .. Len(acks) : acks[i] = b

\* A block is with the application, in a message, or in the acknowledgement queue, once;
\* before there is a region it is nowhere.
BlockInv(b) ==
    /\ \A i, k \in 1 .. Len(acks) : acks[i] = b /\ acks[k] = b => i = k
    /\ ~(Owned(<<1, b>>) /\ Acked(b))
    /\ b \in blocks => ~Owned(<<1, b>>) /\ ~Acked(b)
    /\ region = "none" => ~Owned(<<1, b>>) /\ ~Acked(b) /\ b \notin blocks

TransferIInv ==
    /\ TransferTypes
    /\ BodyInv
    /\ \A x \in Headers : Alone(x)
    /\ \A h \in Handles : ChunkInv(h)
    /\ \A b \in Nat : BlockInv(b)

-----------------------------------------------------------------------------
(* The wire.                                                               *)

\* A message that is sent comes last.
LEMMA AppendWire ==
    ASSUME WireTypes, NEW p \in Processes, NEW e \in Seq(Headers), Len(e) <= 2,
           Len(wire[p]) < MaxWire, wire' = [wire EXCEPT ![p] = Append(@, e)]
    PROVE  /\ WireTypes'
           /\ \A x \in Headers : \A q \in Processes, i, j \in Nat :
                 Carries(q, i, j, x)' <=>
                    \/ Carries(q, i, j, x)
                    \/ q = p /\ i = Len(wire[p]) + 1 /\ j \in 1 .. Len(e) /\ e[j] = x
<1>1. wire[p] \in Seq(Seq(Headers)) /\ wire'[p] = Append(wire[p], e)
      /\ \A q \in Processes \ {p} : wire'[q] = wire[q]
  BY DEF WireTypes
<1>2. /\ wire'[p] \in Seq(Seq(Headers)) /\ Len(wire'[p]) = Len(wire[p]) + 1 /\ Len(wire[p]) \in Nat
      /\ \A i \in 1 .. Len(wire[p]) : wire'[p][i] = wire[p][i]
      /\ wire'[p][Len(wire[p]) + 1] = e
  BY <1>1
<1>3. WireTypes'
  <2>1. wire' \in [Processes -> Seq(Seq(Headers))]
    BY <1>1, <1>2 DEF WireTypes
  <2>2. ASSUME NEW q \in Processes
        PROVE  Len(wire'[q]) <= MaxWire /\ \A i \in 1 .. Len(wire'[q]) : Len(wire'[q][i]) <= 2
    <3>1. CASE q = p
      <4>1. Len(wire'[p]) <= MaxWire
        BY <1>2, TransferAssumption
      <4>2. ASSUME NEW i \in 1 .. Len(wire'[p]) PROVE Len(wire'[p][i]) <= 2
        <5>1. i \in 1 .. Len(wire[p]) \/ i = Len(wire[p]) + 1
          BY <1>2
        <5>2. QED
          BY <5>1, <1>2 DEF WireTypes
      <4>3. QED
        BY <3>1, <4>1, <4>2
    <3>2. CASE q # p
      BY <3>2, <1>1 DEF WireTypes
    <3>3. QED
      BY <3>1, <3>2
  <2>3. QED
    BY <2>1, <2>2 DEF WireTypes, Headers
<1>4. ASSUME NEW x \in Headers, NEW q \in Processes, NEW i \in Nat, NEW j \in Nat
      PROVE  Carries(q, i, j, x)' <=>
                \/ Carries(q, i, j, x)
                \/ q = p /\ i = Len(wire[p]) + 1 /\ j \in 1 .. Len(e) /\ e[j] = x
  <2>1. CASE q # p
    BY <2>1, <1>1 DEF Carries
  <2>2. CASE q = p /\ i \in 1 .. Len(wire[p])
    BY <2>2, <1>2 DEF Carries
  <2>3. CASE q = p /\ i = Len(wire[p]) + 1
    BY <2>3, <1>2 DEF Carries
  <2>4. CASE q = p /\ i \notin 1 .. Len(wire[p]) + 1
    BY <2>4, <1>2 DEF Carries
  <2>5. QED
    BY <2>1, <2>2, <2>3, <2>4, <1>2
<1>5. QED
  BY <1>3, <1>4

\* A message that is received was the first; the others move up.
LEMMA TailWire ==
    ASSUME WireTypes, NEW p \in Processes, wire[p] # <<>>, wire' = [wire EXCEPT ![p] = Tail(@)]
    PROVE  /\ WireTypes'
           /\ Head(wire[p]) \in Seq(Headers) /\ Len(Head(wire[p])) <= 2
           /\ \A x \in Headers : \A j \in Nat :
                 Carries(p, 1, j, x) <=> j \in 1 .. Len(Head(wire[p])) /\ Head(wire[p])[j] = x
           /\ \A x \in Headers : \A q \in Processes, i, j \in Nat :
                 Carries(q, i, j, x)' <=>
                    IF q = p THEN i > 0 /\ Carries(q, i + 1, j, x) ELSE Carries(q, i, j, x)
<1>1. wire[p] \in Seq(Seq(Headers)) /\ wire'[p] = Tail(wire[p])
      /\ \A q \in Processes \ {p} : wire'[q] = wire[q]
  BY DEF WireTypes
<1>2. /\ wire'[p] \in Seq(Seq(Headers)) /\ Len(wire'[p]) = Len(wire[p]) - 1 /\ Len(wire[p]) \in Nat \ {0}
      /\ \A i \in 1 .. Len(wire[p]) - 1 : wire'[p][i] = wire[p][i + 1]
      /\ Head(wire[p]) = wire[p][1] /\ wire[p][1] \in Seq(Headers)
  <2>1. Len(wire[p]) \in Nat \ {0} /\ Tail(wire[p]) \in Seq(Seq(Headers))
    BY <1>1
  <2>2. Len(Tail(wire[p])) = Len(wire[p]) - 1
    BY <1>1
  <2>3. \A i \in 1 .. Len(wire[p]) - 1 : Tail(wire[p])[i] = wire[p][i + 1]
    BY <1>1
  <2>4. Head(wire[p]) = wire[p][1] /\ wire[p][1] \in Seq(Headers)
    BY <1>1, <2>1
  <2>5. QED
    BY <1>1, <2>1, <2>2, <2>3, <2>4
<1>3. WireTypes'
  <2>1. wire' \in [Processes -> Seq(Seq(Headers))]
    BY <1>1, <1>2 DEF WireTypes
  <2>2. ASSUME NEW q \in Processes
        PROVE  Len(wire'[q]) <= MaxWire /\ \A i \in 1 .. Len(wire'[q]) : Len(wire'[q][i]) <= 2
    <3>1. CASE q = p
      <4>1. Len(wire'[p]) <= MaxWire
        BY <1>2, TransferAssumption DEF WireTypes
      <4>2. ASSUME NEW i \in 1 .. Len(wire'[p]) PROVE Len(wire'[p][i]) <= 2
        <5>1. i \in 1 .. Len(wire[p]) - 1 /\ i + 1 \in 1 .. Len(wire[p])
          BY <1>2
        <5>2. QED
          BY <5>1, <1>2 DEF WireTypes
      <4>3. QED
        BY <3>1, <4>1, <4>2
    <3>2. CASE q # p
      BY <3>2, <1>1 DEF WireTypes
    <3>3. QED
      BY <3>1, <3>2
  <2>3. QED
    BY <2>1, <2>2 DEF WireTypes, Headers
<1>4. Len(wire[p][1]) <= 2
  <2>1. 1 \in 1 .. Len(wire[p])
    BY <1>2
  <2>2. QED
    BY <2>1 DEF WireTypes
<1>5. ASSUME NEW x \in Headers, NEW j \in Nat
      PROVE  Carries(p, 1, j, x) <=> j \in 1 .. Len(wire[p][1]) /\ wire[p][1][j] = x
  BY <1>2 DEF Carries
<1>6. ASSUME NEW x \in Headers, NEW q \in Processes, NEW i \in Nat, NEW j \in Nat
      PROVE  Carries(q, i, j, x)' <=>
                IF q = p THEN i > 0 /\ Carries(q, i + 1, j, x) ELSE Carries(q, i, j, x)
  <2>1. CASE q # p
    BY <2>1, <1>1 DEF Carries
  <2>2. CASE q = p /\ i \in 1 .. Len(wire[p]) - 1
    BY <2>2, <1>2 DEF Carries
  <2>3. CASE q = p /\ i \notin 1 .. Len(wire[p]) - 1
    BY <2>3, <1>2 DEF Carries
  <2>4. QED
    BY <2>1, <2>2, <2>3
<1>7. QED
  BY <1>2, <1>3, <1>4, <1>5, <1>6

-----------------------------------------------------------------------------
(* What happens to one body in a step.                                     *)

SameHolders(x) == \A m \in Messages : HoldsBody(m, x)' <=> HoldsBody(m, x)
SameWire(x) == \A p \in Processes, i, j \in Nat : Carries(p, i, j, x)' <=> Carries(p, i, j, x)

\* The messages to p move up by one.
Shifted(p, x) ==
    \A q \in Processes, i, j \in Nat :
        Carries(q, i, j, x)' <=> IF q = p THEN i > 0 /\ Carries(q, i + 1, j, x) ELSE Carries(q, i, j, x)

\* The body keeps an owner, or has none as before; it does not go from one message to
\* another directly.
Keeps(x) ==
    /\ Alone(x)'
    /\ Owned(x)' <=> Owned(x)
    /\ \A m, n \in Messages : HoldsBody(m, x) /\ HoldsBody(n, x)' => m = n

\* Message m gets body y, which had no owner, and message m disposes of body y.
Takes(m, y) == /\ \A x \in Headers \ {y} : Keeps(x)
               /\ ~Owned(y) /\ HoldsBody(m, y)' /\ Alone(y)'

Drops(m, y) == /\ \A x \in Headers \ {y} : Keeps(x)
               /\ HoldsBody(m, y) /\ ~Owned(y)' /\ Alone(y)'

\* Nothing happens to the body.
LEMMA Untouched ==
    ASSUME NEW x \in Headers, Alone(x), SameHolders(x), SameWire(x)
    PROVE  Keeps(x)
BY DEF Keeps, Alone, Owned, SameHolders, SameWire

\* Message m gets it.
LEMMA Taken ==
    ASSUME NEW x \in Headers, NEW m \in Messages, ~Owned(x), SameWire(x),
           \A k \in Messages : HoldsBody(k, x)' <=> HoldsBody(k, x) \/ k = m
    PROVE  HoldsBody(m, x)' /\ Alone(x)'
BY DEF Alone, Owned, SameWire

\* Message m disposes of it.
LEMMA Dropped ==
    ASSUME NEW x \in Headers, NEW m \in Messages, Alone(x), SameWire(x), HoldsBody(m, x),
           \A k \in Messages : HoldsBody(k, x)' <=> HoldsBody(k, x) /\ k # m
    PROVE  ~Owned(x)' /\ Alone(x)'
BY DEF Alone, Owned, SameWire

\* Message m passes it on.
LEMMA Sent ==
    ASSUME NEW x \in Headers, NEW m \in Messages, Alone(x),
           NEW p \in Processes, NEW i \in Nat, NEW j \in Nat, HoldsBody(m, x),
           \A k \in Messages : HoldsBody(k, x)' => HoldsBody(k, x) /\ k # m,
           \A q \in Processes, a, b \in Nat :
               Carries(q, a, b, x)' <=> Carries(q, a, b, x) \/ (q = p /\ a = i /\ b = j)
    PROVE  Keeps(x)
<1>1. (\A k \in Messages : ~HoldsBody(k, x)') /\ \A q \in Processes, a, b \in Nat : ~Carries(q, a, b, x)
  BY DEF Alone
<1>2. Owned(x) /\ Owned(x)'
  BY DEF Owned
<1>3. QED
  BY <1>1, <1>2 DEF Keeps, Alone

\* Others are received before it.
LEMMA MovesUp ==
    ASSUME NEW x \in Headers, NEW p \in Processes, Alone(x), SameHolders(x), Shifted(p, x),
           \A j \in Nat : ~Carries(p, 1, j, x),
           \A j \in Nat : ~Carries(p, 0, j, x)
    PROVE  Keeps(x)
<1>1. \A q \in Processes, i, j \in Nat : Carries(q, i, j, x)' =>
          \/ q = p /\ Carries(q, i + 1, j, x) /\ i + 1 \in Nat
          \/ q # p /\ Carries(q, i, j, x)
  BY DEF Shifted
<1>2. \A q, r \in Processes, i, j, k, l \in Nat :
          Carries(q, i, j, x)' /\ Carries(r, k, l, x)' => q = r /\ i = k /\ j = l
  BY <1>1 DEF Alone
<1>3. \A m \in Messages, q \in Processes, i, j \in Nat : ~(HoldsBody(m, x)' /\ Carries(q, i, j, x)')
  BY <1>1 DEF Alone, SameHolders
<1>4. ASSUME NEW q \in Processes, NEW i \in Nat, NEW j \in Nat, Carries(q, i, j, x)
      PROVE  \E r \in Processes, k, l \in Nat : Carries(r, k, l, x)'
  <2>1. CASE q # p
    BY <2>1, <1>4 DEF Shifted
  <2>2. CASE q = p
    <3>1. i > 1
      BY <2>2, <1>4
    <3>2. i - 1 \in Nat /\ i - 1 > 0 /\ (i - 1) + 1 = i
      BY <3>1
    <3>3. Carries(p, i - 1, j, x)'
      BY <3>2, <2>2, <1>4 DEF Shifted
    <3>4. QED
      BY <3>2, <3>3
  <2>3. QED
    BY <2>1, <2>2
<1>5. Owned(x)' <=> Owned(x)
  BY <1>1, <1>4 DEF Owned, SameHolders
<1>6. QED
  BY <1>2, <1>3, <1>5 DEF Keeps, Alone, SameHolders

\* Message m receives it.
LEMMA Received ==
    ASSUME NEW x \in Headers, NEW p \in Processes, NEW m \in Messages, NEW j \in Nat,
           Alone(x), Shifted(p, x), Carries(p, 1, j, x),
           \A k \in Messages : HoldsBody(k, x)' <=> HoldsBody(k, x) \/ k = m
    PROVE  Keeps(x)
<1>1. \A q \in Processes, a, b \in Nat : Carries(q, a, b, x) => q = p /\ a = 1 /\ b = j
  BY DEF Alone
<1>2. \A q \in Processes, a, b \in Nat : ~Carries(q, a, b, x)'
  BY <1>1 DEF Shifted
<1>3. \A k \in Messages : ~HoldsBody(k, x)
  BY DEF Alone
<1>4. Owned(x) /\ Owned(x)'
  BY DEF Owned
<1>5. QED
  BY <1>2, <1>3, <1>4 DEF Keeps, Alone

-----------------------------------------------------------------------------
(* The steps.  Each has one of six shapes.                                 *)

BodyTypes == TransferTypes /\ BodyInv

KeepsAll == \A x \in Headers : Keeps(x)

\* Bodies are passed on, or nothing happens to them.
PassesOn == KeepsAll /\ UNCHANGED <<allocated, region, blocks, acks>>

\* A message gets a chunk, or a block, that nobody has.
Allocates ==
    \E m \in Messages, h \in Handles \ allocated :
        Takes(m, <<0, h>>) /\ allocated' = allocated \cup {h} /\ UNCHANGED <<region, blocks, acks>>

Fills ==
    \E m \in Messages, b \in blocks :
        Takes(m, <<1, b>>) /\ blocks' = blocks \ {b} /\ UNCHANGED <<allocated, region, acks>>

\* A message disposes of its chunk, or of its block, which is acknowledged unless the
\* process is interrupted, cannot open the region any more or has lost its pointer to it.
Deallocates ==
    \E m \in Messages, h \in Nat :
        Drops(m, <<0, h>>) /\ allocated' = allocated \ {h} /\ UNCHANGED <<region, blocks, acks>>

Acknowledges ==
    \E m \in Messages, b \in Nat :
        /\ Drops(m, <<1, b>>)
        /\ \/ acks' = Append(acks, b)
           \/ acks' = acks /\ (region # "exists" \/ fInterrupted # {} \/ fRegionPtr[m] = "dangling")
        /\ UNCHANGED <<allocated, region, blocks>>

\* The region is created, gets an acknowledgement, or is destroyed.
RegionStep == KeepsAll /\ UNCHANGED allocated /\ (CreateRegion \/ ReceiveAcks \/ DestroyRegion)

Shape == PassesOn \/ Allocates \/ Fills \/ Deallocates \/ Acknowledges \/ RegionStep

MessageObjects == MessageTypes \cup {NoMessage}

LEMMA NoMessageOutside == NoMessage \notin MessageTypes
BY TransferAssumption DEF MessageTypes, FMessages

\* The two halves of a header.
LEMMA HeaderParts == \A x \in Headers : x[1] \in {0, 1} /\ x[2] \in Nat /\ x = <<x[1], x[2]>>
BY DEF Headers

\* Chunks are of region 0, blocks of region 1.
LEMMA HeaderOf ==
    /\ \A n \in Nat : <<0, n>> \in Headers /\ <<1, n>> \in Headers
    /\ \A h \in Handles : <<0, h>> \in Headers
BY TransferAssumption DEF Headers

\* A step that replaces one message object.
LEMMA OneMessage ==
    ASSUME TransferTypes, BodyInv, NEW m \in Messages, NEW r \in MessageObjects, BodyOK(r),
           msg' = [msg EXCEPT ![m] = r]
    PROVE  /\ msg' \in [Messages -> MessageObjects] /\ BodyInv'
           /\ \A x \in Headers, k \in Messages :
                 HoldsBody(k, x)' <=> IF k = m THEN OwnsBody(r, x) ELSE HoldsBody(k, x)
<1>1. msg' \in [Messages -> MessageObjects]
  BY DEF TransferTypes, MessageObjects
<1>2. msg'[m] = r /\ \A k \in Messages \ {m} : msg'[k] = msg[k]
  BY DEF TransferTypes
<1>3. BodyInv'
  BY <1>2 DEF BodyInv, BodyOK
<1>4. QED
  BY <1>1, <1>2, <1>3 DEF HoldsBody, OwnsBody

\* A step that leaves the wire alone.
LEMMA QuietWire ==
    ASSUME UNCHANGED wire
    PROVE  /\ WireTypes => WireTypes'
           /\ \A x \in Headers : SameWire(x)
BY DEF WireTypes, SameWire, Carries

\* A step that leaves the wire and the holders alone.
LEMMA KeepsBodies ==
    ASSUME TransferIInv, UNCHANGED wire, \A x \in Headers : SameHolders(x)
    PROVE  KeepsAll /\ WireTypes'
BY QuietWire, Untouched DEF TransferIInv, TransferTypes, KeepsAll

\* Construct makes a message without a body.
LEMMA ConstructShape ==
    ASSUME TransferIInv, NEW m \in Messages, Construct(m)
    PROVE  BodyTypes' /\ PassesOn
<1> DEFINE r == NewMessage(0, -1, "empty")
<1>1. r \in MessageObjects /\ BodyOK(r) /\ msg' = [msg EXCEPT ![m] = r] /\ msg[m] = NoMessage
  BY DEF Construct, Free, NewMessage, MessageObjects, MessageTypes, FMessages, BodyOK
<1>2. \A x \in Headers : ~OwnsBody(r, x) /\ ~HoldsBody(m, x)
  BY <1>1, HeaderParts DEF OwnsBody, HoldsBody, NewMessage
<1> HIDE DEF r
<1>3. msg' \in [Messages -> MessageObjects] /\ BodyInv' /\ \A x \in Headers : SameHolders(x)
  BY <1>1, <1>2, OneMessage DEF TransferIInv, SameHolders
<1>4. KeepsAll /\ WireTypes'
  BY <1>3, KeepsBodies DEF Construct
<1>5. QED
  BY <1>3, <1>4 DEF Construct, regionVars, TransferIInv, TransferTypes, BodyTypes, PassesOn, MessageObjects

\* InitializeChunk: a message without a body gets a chunk that nobody has, or none.
LEMMA InitializeChunkShape ==
    ASSUME TransferIInv, NEW m \in Messages, NEW old \in MessageTypes, BodyOK(old), old.fHandle = -1,
           \A x \in Headers : ~HoldsBody(m, x),
           InitializeChunk(m, old), UNCHANGED <<wire, regionVars>>
    PROVE  BodyTypes' /\ (PassesOn \/ Allocates)
<1>1. CASE \E h \in Handles \ allocated :
              /\ allocated' = allocated \cup {h}
              /\ msg' = [msg EXCEPT ![m] = [old EXCEPT !.fHandle = h, !.fMessage = "header"]]
  <2> PICK g \in Handles \ allocated :
              /\ allocated' = allocated \cup {g}
              /\ msg' = [msg EXCEPT ![m] = [old EXCEPT !.fHandle = g, !.fMessage = "header"]]
    BY <1>1
  <2> DEFINE r == [old EXCEPT !.fHandle = g, !.fMessage = "header"]
             y == <<0, g>>
  <2>1. old.fRegionId = 0 /\ ~old.fQueued
    BY NoMessageOutside DEF BodyOK, MessageTypes
  <2>2. r \in MessageTypes /\ r.fHandle = g /\ r.fRegionId = 0 /\ ~r.fQueued /\ g \in Nat
    BY <2>1, TransferAssumption DEF MessageTypes, FMessages
  <2>3. r \in MessageObjects /\ r # NoMessage /\ BodyOK(r)
    BY <2>2, NoMessageOutside DEF MessageObjects, BodyOK
  <2>4. y \in Headers /\ \A x \in Headers : OwnsBody(r, x) <=> x = y
    BY <2>2, <2>3, HeaderParts, HeaderOf DEF OwnsBody
  <2>5. msg' = [msg EXCEPT ![m] = r]
    OBVIOUS
  <2>6. ~Owned(y)
    BY DEF TransferIInv, ChunkInv
  <2> HIDE DEF r, y
  <2>7. /\ msg' \in [Messages -> MessageObjects] /\ BodyInv'
        /\ \A x \in Headers, k \in Messages :
              HoldsBody(k, x)' <=> IF k = m THEN x = y ELSE HoldsBody(k, x)
    BY <2>3, <2>4, <2>5, OneMessage DEF TransferIInv
  <2>8. HoldsBody(m, y)' /\ Alone(y)'
    BY <2>4, <2>6, <2>7, QuietWire, Taken
  <2>9. ASSUME NEW x \in Headers \ {y} PROVE Keeps(x)
    <3>1. SameHolders(x) /\ SameWire(x)
      BY <2>7, QuietWire DEF SameHolders
    <3>2. QED
      BY <3>1, Untouched DEF TransferIInv
  <2>10. Takes(m, y)
    BY <2>6, <2>8, <2>9 DEF Takes
  <2>11. TransferTypes'
    BY <2>7, QuietWire DEF TransferIInv, TransferTypes, MessageObjects, regionVars
  <2>12. Allocates
    BY <2>10 DEF Allocates, y, regionVars
  <2>13. QED
    BY <2>7, <2>11, <2>12 DEF BodyTypes
<1>2. CASE msg' = [msg EXCEPT ![m] = old] /\ UNCHANGED allocated
  <2>1. old \in MessageObjects /\ \A x \in Headers : ~OwnsBody(old, x)
    BY HeaderParts DEF MessageObjects, OwnsBody
  <2>2. msg' \in [Messages -> MessageObjects] /\ BodyInv' /\ \A x \in Headers : SameHolders(x)
    BY <1>2, <2>1, OneMessage DEF TransferIInv, SameHolders
  <2>3. KeepsAll /\ WireTypes'
    BY <2>2, KeepsBodies
  <2>4. QED
    BY <1>2, <2>2, <2>3 DEF regionVars, TransferIInv, TransferTypes, BodyTypes, PassesOn, MessageObjects
<1>3. QED
  BY <1>1, <1>2 DEF InitializeChunk

LEMMA ConstructSizeShape ==
    ASSUME TransferIInv, NEW m \in Messages, ConstructSize(m)
    PROVE  BodyTypes' /\ (PassesOn \/ Allocates)
<1> DEFINE old == NewMessage(0, -1, "invalid")
<1>1. old \in MessageTypes /\ BodyOK(old) /\ old.fHandle = -1
  BY DEF NewMessage, MessageTypes, FMessages, BodyOK
<1>2. InitializeChunk(m, old) /\ UNCHANGED <<wire, regionVars>> /\ msg[m] = NoMessage
  BY DEF ConstructSize, Free
<1> HIDE DEF old
<1>3. QED
  BY <1>1, <1>2, InitializeChunkShape DEF HoldsBody, OwnsBody

LEMMA ConstructFromRegionShape ==
    ASSUME TransferIInv, NEW m \in Messages, ConstructFromRegion(m)
    PROVE  BodyTypes' /\ Fills
<1> PICK b \in blocks : blocks' = blocks \ {b} /\ msg' = [msg EXCEPT ![m] = NewMessage(1, b, "header")]
  BY DEF ConstructFromRegion
<1> DEFINE r == NewMessage(1, b, "header")
           y == <<1, b>>
<1>1. b \in Nat /\ y \in Headers /\ ~Owned(y)
  BY HeaderOf DEF TransferIInv, TransferTypes, BlockInv
<1>2. r \in MessageTypes /\ r.fHandle = b /\ r.fRegionId = 1 /\ ~r.fQueued
  BY <1>1 DEF NewMessage, MessageTypes, FMessages
<1>3. r \in MessageObjects /\ BodyOK(r) /\ \A x \in Headers : OwnsBody(r, x) <=> x = y
  BY <1>1, <1>2, NoMessageOutside, HeaderParts DEF MessageObjects, BodyOK, OwnsBody
<1>4. msg' = [msg EXCEPT ![m] = r] /\ \A x \in Headers : ~HoldsBody(m, x)
  BY DEF ConstructFromRegion, Free, HoldsBody, OwnsBody
<1> HIDE DEF r, y
<1>5. /\ msg' \in [Messages -> MessageObjects] /\ BodyInv'
      /\ \A x \in Headers, k \in Messages :
            HoldsBody(k, x)' <=> IF k = m THEN x = y ELSE HoldsBody(k, x)
  BY <1>3, <1>4, OneMessage DEF TransferIInv
<1>6. UNCHANGED <<allocated, wire, region, acks>> /\ WireTypes' /\ \A x \in Headers : SameWire(x)
  BY QuietWire DEF ConstructFromRegion, TransferIInv, TransferTypes
<1>7. HoldsBody(m, y)' /\ Alone(y)'
  BY <1>1, <1>4, <1>5, <1>6, Taken
<1>8. ASSUME NEW x \in Headers \ {y} PROVE Keeps(x)
  <2>1. SameHolders(x)
    BY <1>4, <1>5 DEF SameHolders
  <2>2. QED
    BY <2>1, <1>6, Untouched DEF TransferIInv
<1>9. Takes(m, y)
  BY <1>1, <1>7, <1>8 DEF Takes
<1>10. Fills
  BY <1>6, <1>9 DEF Fills, y
<1>11. QED
  BY <1>5, <1>6, <1>10 DEF BodyTypes, TransferIInv, TransferTypes, MessageObjects

LEMMA CopyShape ==
    ASSUME TransferIInv, NEW m \in Messages, Copy(m)
    PROVE  BodyTypes' /\ (PassesOn \/ Allocates)
<1>1. msg[m] \in MessageTypes /\ BodyOK(msg[m]) /\ msg[m].fHandle < 0
  BY DEF Copy, Exists, TransferIInv, TransferTypes, BodyInv
<1>2. msg[m].fHandle = -1
  BY <1>1 DEF MessageTypes
<1>3. \A x \in Headers : ~HoldsBody(m, x)
  BY <1>2, HeaderParts DEF HoldsBody, OwnsBody
<1>4. QED
  BY <1>1, <1>2, <1>3, InitializeChunkShape DEF Copy

\* SendImpl of one message without a header: it keeps what it has.
LEMMA SendEmptyShape ==
    ASSUME TransferIInv, NEW m \in Messages, Exists(m), NEW p \in Processes, Len(wire[p]) < MaxWire,
           wire' = [wire EXCEPT ![p] = Append(@, <<>>)],
           msg' = [msg EXCEPT ![m].fMessage = "empty"],
           UNCHANGED <<allocated, regionVars>>
    PROVE  BodyTypes' /\ PassesOn
<1> DEFINE r == [msg[m] EXCEPT !.fMessage = "empty"]
<1>1. msg[m] \in MessageTypes /\ BodyOK(msg[m]) /\ msg[m] # NoMessage
  BY DEF Exists, TransferIInv, TransferTypes, BodyInv
<1>2. r \in MessageTypes /\ r.fHandle = msg[m].fHandle /\ r.fRegionId = msg[m].fRegionId
      /\ r.fQueued = msg[m].fQueued /\ r.fMessage = "empty"
  BY <1>1 DEF MessageTypes, FMessages
<1>3. r \in MessageObjects /\ BodyOK(r) /\ \A x \in Headers : OwnsBody(r, x) <=> HoldsBody(m, x)
  BY <1>1, <1>2, NoMessageOutside DEF MessageObjects, BodyOK, OwnsBody, HoldsBody
<1>4. msg' = [msg EXCEPT ![m] = r]
  BY DEF TransferIInv, TransferTypes
<1> HIDE DEF r
<1>5. msg' \in [Messages -> MessageObjects] /\ BodyInv' /\ \A x \in Headers : SameHolders(x)
  BY <1>3, <1>4, OneMessage DEF TransferIInv, SameHolders
<1> DEFINE e == <<>>
<1>6. e \in Seq(Headers) /\ Len(e) <= 2 /\ (\A j \in Nat : j \notin 1 .. Len(e))
      /\ wire' = [wire EXCEPT ![p] = Append(@, e)]
  OBVIOUS
<1> HIDE DEF e
<1>7. WireTypes' /\ \A x \in Headers : SameWire(x)
  <2>1. WireTypes
    BY DEF TransferIInv, TransferTypes
  <2>2. /\ WireTypes'
        /\ \A x \in Headers : \A q \in Processes, i, j \in Nat :
              Carries(q, i, j, x)' <=>
                 \/ Carries(q, i, j, x)
                 \/ q = p /\ i = Len(wire[p]) + 1 /\ j \in 1 .. Len(e) /\ e[j] = x
    BY <1>6, <2>1, AppendWire
  <2>3. QED
    BY <1>6, <2>2 DEF SameWire
<1>8. KeepsAll
  BY <1>5, <1>7, Untouched DEF TransferIInv, KeepsAll
<1>9. QED
  BY <1>5, <1>7, <1>8 DEF TransferIInv, TransferTypes, regionVars, MessageObjects, BodyTypes, PassesOn

\* SendImpl of one message with a header: the body is on its way.
LEMMA SendHeaderShape ==
    ASSUME TransferIInv, NEW m \in Messages, Exists(m), ~msg[m].fQueued, msg[m].fMessage = "header",
           NEW p \in Processes, Len(wire[p]) < MaxWire,
           wire' = [wire EXCEPT ![p] = Append(@, <<Header(m)>>)],
           msg' = [msg EXCEPT ![m].fMessage = "empty", ![m].fQueued = TRUE],
           UNCHANGED <<allocated, regionVars>>
    PROVE  BodyTypes' /\ PassesOn
<1> DEFINE r == [msg[m] EXCEPT !.fMessage = "empty", !.fQueued = TRUE]
           e == <<Header(m)>>
<1>1. msg[m] \in MessageTypes /\ BodyOK(msg[m]) /\ msg[m] # NoMessage /\ WireTypes
  BY DEF Exists, TransferIInv, TransferTypes, BodyInv
<1>2. msg[m].fHandle \in Nat /\ msg[m].fRegionId \in {0, 1}
  BY <1>1 DEF BodyOK, MessageTypes
<1>3. r \in MessageTypes /\ r.fHandle = msg[m].fHandle /\ r.fQueued /\ r.fMessage = "empty"
  BY <1>1 DEF MessageTypes, FMessages
<1>4. r \in MessageObjects /\ BodyOK(r) /\ \A x \in Headers : ~OwnsBody(r, x)
  BY <1>2, <1>3 DEF MessageObjects, BodyOK, OwnsBody
<1>5. msg' = [msg EXCEPT ![m] = r]
  BY DEF TransferIInv, TransferTypes
<1>6. e \in Seq(Headers) /\ Len(e) = 1 /\ e[1] = <<msg[m].fRegionId, msg[m].fHandle>>
  BY <1>2 DEF Headers, Header
<1>7. \A x \in Headers : e[1] = x <=> HoldsBody(m, x)
  BY <1>1, <1>2, <1>6, HeaderParts DEF HoldsBody, OwnsBody
<1> HIDE DEF r, e
<1>8. /\ msg' \in [Messages -> MessageObjects] /\ BodyInv'
      /\ \A x \in Headers, k \in Messages : HoldsBody(k, x)' <=> k # m /\ HoldsBody(k, x)
  BY <1>4, <1>5, OneMessage DEF TransferIInv
<1>9. wire' = [wire EXCEPT ![p] = Append(@, e)]
  BY DEF e
<1>10. /\ WireTypes'
       /\ \A x \in Headers : \A q \in Processes, i, j \in Nat :
             Carries(q, i, j, x)' <=>
                Carries(q, i, j, x) \/ (q = p /\ i = Len(wire[p]) + 1 /\ j = 1 /\ HoldsBody(m, x))
  <2>1. (\A j \in Nat : j \in 1 .. Len(e) <=> j = 1) /\ Len(e) <= 2
    BY <1>6
  <2>2. /\ WireTypes'
        /\ \A x \in Headers : \A q \in Processes, i, j \in Nat :
              Carries(q, i, j, x)' <=>
                 \/ Carries(q, i, j, x)
                 \/ q = p /\ i = Len(wire[p]) + 1 /\ j \in 1 .. Len(e) /\ e[j] = x
    BY <1>1, <1>6, <1>9, <2>1, AppendWire
  <2>3. QED
    BY <1>7, <2>1, <2>2
<1>11. ASSUME NEW x \in Headers PROVE Keeps(x)
  <2>1. CASE HoldsBody(m, x)
    <3>1. Len(wire[p]) + 1 \in Nat
      BY <1>1 DEF WireTypes
    <3>2. \A q \in Processes, a, b \in Nat :
             Carries(q, a, b, x)' <=> Carries(q, a, b, x) \/ (q = p /\ a = Len(wire[p]) + 1 /\ b = 1)
      BY <2>1, <1>10
    <3>3. Alone(x) /\ \A k \in Messages : HoldsBody(k, x)' => HoldsBody(k, x) /\ k # m
      BY <1>8 DEF TransferIInv
    <3>4. QED
      BY <2>1, <3>1, <3>2, <3>3, Sent
  <2>2. CASE ~HoldsBody(m, x)
    <3>1. SameHolders(x) /\ SameWire(x)
      BY <2>2, <1>8, <1>10 DEF SameHolders, SameWire
    <3>2. QED
      BY <3>1, Untouched DEF TransferIInv
  <2>3. QED
    BY <2>1, <2>2
<1>12. QED
  BY <1>8, <1>10, <1>11
  DEF TransferIInv, TransferTypes, regionVars, MessageObjects, BodyTypes, PassesOn, KeepsAll

LEMMA SendShape ==
    ASSUME TransferIInv, ~Reuse, NEW m \in Messages, Send(m)
    PROVE  BodyTypes' /\ PassesOn
<1>1. Exists(m) /\ ~msg[m].fQueued /\ UNCHANGED <<allocated, regionVars>>
  BY DEF Send, Sendable
<1>2. PICK p \in Processes \ {Home[m]} :
          /\ Len(wire[p]) < MaxWire
          /\ \/ /\ msg[m].fMessage = "header"
                /\ wire' = [wire EXCEPT ![p] = Append(@, <<Header(m)>>)]
                /\ msg' = [msg EXCEPT ![m].fMessage = "empty", ![m].fQueued = TRUE]
             \/ /\ msg[m].fMessage # "header"
                /\ wire' = [wire EXCEPT ![p] = Append(@, <<>>)]
                /\ msg' = [msg EXCEPT ![m].fMessage = "empty"]
  BY DEF Send
<1>3. CASE msg[m].fMessage = "header"
  BY <1>1, <1>2, <1>3, SendHeaderShape
<1>4. CASE msg[m].fMessage # "header"
  BY <1>1, <1>2, <1>4, SendEmptyShape
<1>5. QED
  BY <1>3, <1>4

\* SendImpl of two parts: the bodies of both are on their way.
LEMMA SendPartsShape ==
    ASSUME TransferIInv, ~Reuse, NEW m \in Messages, NEW n \in Messages, SendParts(m, n)
    PROVE  BodyTypes' /\ PassesOn
<1> DEFINE e == <<Header(m), Header(n)>>
<1>1. PICK p \in Processes : Len(wire[p]) < MaxWire /\ wire' = [wire EXCEPT ![p] = Append(@, e)]
  BY DEF SendParts
<1>2. \A k \in {m, n} : /\ msg[k] \in MessageTypes /\ msg[k] # NoMessage /\ BodyOK(msg[k]) /\ ~msg[k].fQueued
                        /\ msg[k].fMessage \in {"header", "unsized"}
  BY DEF SendParts, Sendable, Exists, TransferIInv, TransferTypes, BodyInv
<1>3. \A k \in {m, n} : msg[k].fHandle \in Nat /\ msg[k].fRegionId \in {0, 1}
  BY <1>2 DEF BodyOK, MessageTypes
<1>4. \A k \in {m, n} : Header(k) \in Headers /\ \A x \in Headers : Header(k) = x <=> HoldsBody(k, x)
  BY <1>2, <1>3, HeaderParts DEF Header, Headers, HoldsBody, OwnsBody
<1>5. /\ e \in Seq(Headers) /\ Len(e) <= 2 /\ e[1] = Header(m) /\ e[2] = Header(n)
      /\ \A j \in Nat : j \in 1 .. Len(e) <=> j = 1 \/ j = 2
  BY <1>4
<1> HIDE DEF e
<1>6. WireTypes
  BY DEF TransferIInv, TransferTypes
<1>7. /\ WireTypes'
      /\ \A x \in Headers : \A q \in Processes, i, j \in Nat :
            Carries(q, i, j, x)' <=>
               \/ Carries(q, i, j, x)
               \/ q = p /\ i = Len(wire[p]) + 1 /\ j \in 1 .. Len(e) /\ e[j] = x
  BY <1>1, <1>5, <1>6, AppendWire
<1>8. /\ msg' \in [Messages -> MessageObjects]
      /\ \A k \in Messages \ {m, n} : msg'[k] = msg[k]
      /\ \A k \in {m, n} : msg'[k] = [msg[k] EXCEPT !.fQueued = TRUE]
  <2>1. \A k \in {m, n} : [msg[k] EXCEPT !.fQueued = TRUE] \in MessageObjects
    BY <1>2 DEF MessageTypes, MessageObjects
  <2>2. \A k \in Messages : msg[k] \in MessageObjects
    BY DEF TransferIInv, TransferTypes, MessageObjects
  <2>3. msg' = [k \in Messages |-> IF k \in {m, n} THEN [msg[k] EXCEPT !.fQueued = TRUE] ELSE msg[k]]
    BY DEF SendParts
  <2>4. QED
    BY <2>1, <2>2, <2>3
<1>9. \A k \in {m, n} : msg'[k].fQueued /\ msg'[k].fHandle = msg[k].fHandle /\ msg'[k].fHandle \in Nat
  BY <1>2, <1>3, <1>8 DEF MessageTypes
<1>10. BodyInv'
  <2>1. \A k \in {m, n} : BodyOK(msg'[k])
    BY <1>9 DEF BodyOK
  <2>2. \A k \in Messages \ {m, n} : BodyOK(msg'[k])
    BY <1>8 DEF TransferIInv, BodyInv
  <2>3. QED
    BY <2>1, <2>2 DEF BodyInv, BodyOK
<1>11. \A x \in Headers, k \in Messages : HoldsBody(k, x)' <=> k \notin {m, n} /\ HoldsBody(k, x)
  BY <1>8, <1>9 DEF HoldsBody, OwnsBody
<1>12. ASSUME NEW x \in Headers PROVE Keeps(x)
  <2>1. Alone(x) /\ m # n /\ Len(wire[p]) + 1 \in Nat
    BY <1>6 DEF TransferIInv, SendParts, WireTypes
  <2>2. ~(HoldsBody(m, x) /\ HoldsBody(n, x))
    BY <2>1 DEF Alone
  <2>3. \A q \in Processes, i, j \in Nat :
            Carries(q, i, j, x)' <=>
               \/ Carries(q, i, j, x)
               \/ q = p /\ i = Len(wire[p]) + 1 /\ \/ j = 1 /\ HoldsBody(m, x)
                                                   \/ j = 2 /\ HoldsBody(n, x)
    BY <1>4, <1>5, <1>7
  <2>4. PICK last \in Nat : last = Len(wire[p]) + 1
    BY <2>1
  <2>5. CASE HoldsBody(m, x)
    <3>1. \A q \in Processes, a, b \in Nat :
             Carries(q, a, b, x)' <=> Carries(q, a, b, x) \/ (q = p /\ a = last /\ b = 1)
      BY <2>2, <2>3, <2>4, <2>5
    <3>2. \A k \in Messages : HoldsBody(k, x)' => HoldsBody(k, x) /\ k # m
      BY <1>11
    <3>3. Alone(x) /\ 1 \in Nat
      BY <2>1
    <3>4. QED
      BY <2>5, <3>1, <3>2, <3>3, Sent
  <2>6. CASE HoldsBody(n, x)
    <3> PICK second \in Nat : second = 2
      OBVIOUS
    <3>1. \A q \in Processes, a, b \in Nat :
             Carries(q, a, b, x)' <=> Carries(q, a, b, x) \/ (q = p /\ a = last /\ b = second)
      BY <2>2, <2>3, <2>4, <2>6
    <3>2. \A k \in Messages : HoldsBody(k, x)' => HoldsBody(k, x) /\ k # n
      BY <1>11
    <3>3. Alone(x)
      BY <2>1
    <3>4. QED
      BY <2>6, <3>1, <3>2, <3>3, Sent
  <2>7. CASE ~HoldsBody(m, x) /\ ~HoldsBody(n, x)
    <3>1. SameHolders(x) /\ SameWire(x)
      BY <2>3, <2>7, <1>11 DEF SameHolders, SameWire
    <3>2. QED
      BY <2>1, <3>1, Untouched
  <2>8. QED
    BY <2>5, <2>6, <2>7
<1>13. QED
  BY <1>7, <1>8, <1>10, <1>12
  DEF SendParts, TransferIInv, TransferTypes, regionVars, MessageObjects, BodyTypes, PassesOn, KeepsAll

\* ReceiveImpl of a message: one that has had no body gets what the header names.
LEMMA ReceiveShape ==
    ASSUME TransferIInv, ~Reuse, NEW m \in Messages, Receive(m)
    PROVE  BodyTypes' /\ PassesOn
<1> DEFINE p == Home[m]
           e == Head(wire[p])
<1>1. p \in Processes /\ wire[p] # <<>> /\ wire' = [wire EXCEPT ![p] = Tail(@)] /\ WireTypes
  BY TransferAssumption DEF Receive, TransferIInv, TransferTypes
<1>2. msg[m] \in MessageTypes /\ msg[m] # NoMessage /\ msg[m].fHandle = -1 /\ ~msg[m].fQueued
      /\ msg[m].fRegionId = 0
  BY DEF Receive, Fresh, Exists, TransferIInv, TransferTypes, BodyInv, BodyOK
<1>3. \A x \in Headers : ~HoldsBody(m, x)
  BY <1>2, HeaderParts DEF HoldsBody, OwnsBody
<1>4. UNCHANGED <<allocated, regionVars>>
  BY DEF Receive
<1>5. \/ e = <<>> /\ msg' = [msg EXCEPT ![m].fMessage = "empty"]
      \/ Len(e) = 1 /\ msg' = [msg EXCEPT ![m].fMessage = "header", ![m].fRegionId = e[1][1],
                                          ![m].fHandle = e[1][2]]
  BY DEF Receive
<1> HIDE DEF p
<1>6. /\ WireTypes' /\ e \in Seq(Headers)
      /\ \A x \in Headers : \A j \in Nat : Carries(p, 1, j, x) <=> j \in 1 .. Len(e) /\ e[j] = x
      /\ \A x \in Headers : Shifted(p, x)
  BY <1>1, TailWire DEF Shifted
<1>7. \A x \in Headers, j \in Nat : ~Carries(p, 0, j, x)
  BY DEF Carries
<1> HIDE DEF e
<1>8. CASE e = <<>> /\ msg' = [msg EXCEPT ![m].fMessage = "empty"]
  <2> DEFINE r == [msg[m] EXCEPT !.fMessage = "empty"]
  <2>1. r \in MessageTypes /\ r.fHandle = -1 /\ r.fRegionId = 0 /\ ~r.fQueued /\ r.fMessage = "empty"
    BY <1>2 DEF MessageTypes, FMessages
  <2>2. r \in MessageObjects /\ BodyOK(r) /\ \A x \in Headers : ~OwnsBody(r, x)
    BY <2>1, HeaderParts DEF MessageObjects, BodyOK, OwnsBody
  <2>3. msg' = [msg EXCEPT ![m] = r]
    BY <1>8 DEF TransferIInv, TransferTypes
  <2> HIDE DEF r
  <2>4. msg' \in [Messages -> MessageObjects] /\ BodyInv' /\ \A x \in Headers : SameHolders(x)
    BY <1>3, <2>2, <2>3, OneMessage DEF TransferIInv, SameHolders
  <2>5. \A x \in Headers, j \in Nat : ~Carries(p, 1, j, x)
    BY <1>6, <1>8
  <2>6. ASSUME NEW x \in Headers PROVE Keeps(x)
    <3>1. Alone(x) /\ Shifted(p, x)
      BY <1>6 DEF TransferIInv
    <3>2. SameHolders(x) /\ (\A j \in Nat : ~Carries(p, 1, j, x)) /\ (\A j \in Nat : ~Carries(p, 0, j, x))
      BY <1>7, <2>4, <2>5
    <3>3. QED
      BY <1>1, <3>1, <3>2, MovesUp
  <2>7. QED
    BY <1>4, <1>6, <2>4, <2>6 DEF TransferIInv, TransferTypes, regionVars, MessageObjects, BodyTypes,
         PassesOn, KeepsAll
<1>9. CASE Len(e) = 1 /\ msg' = [msg EXCEPT ![m].fMessage = "header", ![m].fRegionId = e[1][1],
                                            ![m].fHandle = e[1][2]]
  <2> DEFINE r == [msg[m] EXCEPT !.fMessage = "header", !.fRegionId = e[1][1], !.fHandle = e[1][2]]
  <2>1. e[1] \in Headers
    BY <1>6, <1>9
  <2>2. e[1][1] \in {0, 1} /\ e[1][2] \in Nat /\ e[1] = <<e[1][1], e[1][2]>>
    BY <2>1 DEF Headers
  <2>3. r \in MessageTypes /\ r.fHandle = e[1][2] /\ r.fRegionId = e[1][1] /\ ~r.fQueued
    BY <1>2, <2>2 DEF MessageTypes, FMessages
  <2>4. r \in MessageObjects /\ BodyOK(r)
    BY <2>2, <2>3 DEF MessageObjects, BodyOK
  <2>5. \A x \in Headers : OwnsBody(r, x) <=> e[1] = x
    BY <2>2, <2>3, HeaderParts, NoMessageOutside DEF OwnsBody
  <2>6. msg' = [msg EXCEPT ![m] = r]
    BY <1>9 DEF TransferIInv, TransferTypes
  <2> HIDE DEF r
  <2>7. /\ msg' \in [Messages -> MessageObjects] /\ BodyInv'
        /\ \A x \in Headers, k \in Messages :
              HoldsBody(k, x)' <=> IF k = m THEN e[1] = x ELSE HoldsBody(k, x)
    BY <2>4, <2>5, <2>6, OneMessage DEF TransferIInv
  <2>8. \A x \in Headers, j \in Nat : Carries(p, 1, j, x) <=> j = 1 /\ e[1] = x
    BY <1>6, <1>9
  <2>9. ASSUME NEW x \in Headers PROVE Keeps(x)
    <3>1. Alone(x) /\ Shifted(p, x)
      BY <1>6 DEF TransferIInv
    <3>2. CASE e[1] = x
      <4>1. Carries(p, 1, 1, x) /\ \A k \in Messages : HoldsBody(k, x)' <=> HoldsBody(k, x) \/ k = m
        BY <2>7, <2>8, <3>2
      <4>2. QED
        BY <1>1, <3>1, <4>1, Received
    <3>3. CASE e[1] # x
      <4>1. SameHolders(x) /\ \A j \in Nat : ~Carries(p, 1, j, x)
        BY <1>3, <2>7, <2>8, <3>3 DEF SameHolders
      <4>2. QED
        BY <1>1, <1>7, <3>1, <4>1, MovesUp
    <3>4. QED
      BY <3>2, <3>3
  <2>10. QED
    BY <1>4, <1>6, <2>7, <2>9 DEF TransferIInv, TransferTypes, regionVars, MessageObjects, BodyTypes,
         PassesOn, KeepsAll
<1>10. QED
  BY <1>5, <1>8, <1>9

\* ReceiveImpl of parts: each header goes to a new message.
LEMMA ReceivePartsShape ==
    ASSUME TransferIInv, NEW p \in Processes, NEW place \in Places, ReceiveParts(p, place)
    PROVE  BodyTypes' /\ PassesOn
<1> DEFINE e == Head(wire[p])
<1>1. wire[p] # <<>> /\ wire' = [wire EXCEPT ![p] = Tail(@)] /\ WireTypes
  BY DEF ReceiveParts, TransferIInv, TransferTypes
<1>2. place \in Seq(Messages) /\ DOMAIN place = 1 .. Len(e)
  <2>1. place \in Seq(Messages)
    <3>1. CASE place = <<>>
      BY <3>1
    <3>2. CASE \E m \in Messages : place = <<m>>
      BY <3>2
    <3>3. CASE \E m, n \in Messages : place = <<m, n>>
      BY <3>3
    <3>4. QED
      BY <3>1, <3>2, <3>3 DEF Places
  <2>2. Len(place) = Len(e)
    BY DEF ReceiveParts
  <2>3. QED
    BY <2>1, <2>2
<1>3. /\ \A i, j \in 1 .. Len(e) : place[i] = place[j] => i = j
      /\ \A i \in 1 .. Len(e) : place[i] \in Messages /\ msg[place[i]] = NoMessage
  <2>1. /\ \A i, j \in DOMAIN place : place[i] = place[j] => i = j
        /\ \A i \in DOMAIN place : place[i] \in Messages /\ Free(place[i])
    BY SMTT(20), <1>2 DEF ReceiveParts
  <2>2. QED
    BY Zenon, <1>2, <2>1 DEF Free
<1>4. msg' = [m \in Messages |->
                 IF \E i \in DOMAIN place : place[i] = m
                 THEN LET header == e[CHOOSE i \in DOMAIN place : place[i] = m]
                      IN  NewMessage(header[1], header[2], "unsized")
                 ELSE msg[m]]
  BY DEF ReceiveParts
<1>5. /\ WireTypes' /\ e \in Seq(Headers)
      /\ \A x \in Headers : \A j \in Nat : Carries(p, 1, j, x) <=> j \in 1 .. Len(e) /\ e[j] = x
      /\ \A x \in Headers : Shifted(p, x)
  BY <1>1, TailWire DEF Shifted
<1>6. \A x \in Headers, j \in Nat : ~Carries(p, 0, j, x)
  BY DEF Carries
<1> HIDE DEF e
<1>7. ASSUME NEW i \in 1 .. Len(e)
      PROVE  msg'[place[i]] = NewMessage(e[i][1], e[i][2], "unsized")
  <2>1. (CHOOSE j \in DOMAIN place : place[j] = place[i]) = i
    BY <1>2, <1>3
  <2>2. QED
    BY <1>2, <1>3, <1>4, <2>1
<1>8. \A k \in Messages : (\A i \in 1 .. Len(e) : place[i] # k) => msg'[k] = msg[k]
  BY <1>2, <1>4
<1>9. ASSUME NEW i \in 1 .. Len(e)
      PROVE  /\ msg'[place[i]] \in MessageTypes /\ BodyOK(msg'[place[i]])
             /\ \A x \in Headers : HoldsBody(place[i], x)' <=> e[i] = x
  <2> DEFINE r == NewMessage(e[i][1], e[i][2], "unsized")
  <2>1. e[i] \in Headers
    BY <1>5
  <2>2. e[i][1] \in {0, 1} /\ e[i][2] \in Nat /\ e[i] = <<e[i][1], e[i][2]>>
    BY <2>1 DEF Headers
  <2>3. r \in MessageTypes /\ r.fHandle = e[i][2] /\ r.fRegionId = e[i][1] /\ ~r.fQueued
    BY <2>2 DEF NewMessage, MessageTypes, FMessages
  <2>4. BodyOK(r)
    BY <2>2, <2>3 DEF BodyOK
  <2>5. \A x \in Headers : OwnsBody(r, x) <=> e[i] = x
    BY <2>2, <2>3, HeaderParts, NoMessageOutside DEF OwnsBody
  <2>6. msg'[place[i]] = r
    BY <1>7
  <2> HIDE DEF r
  <2>7. QED
    BY <2>3, <2>4, <2>5, <2>6 DEF HoldsBody
<1>10. msg' \in [Messages -> MessageObjects]
  <2>1. \A k \in Messages : msg'[k] \in MessageObjects
    BY <1>8, <1>9 DEF MessageObjects, TransferIInv, TransferTypes
  <2>2. QED
    BY <1>4, <2>1
<1>11. BodyInv'
  BY <1>8, <1>9 DEF BodyInv, TransferIInv
<1>12. \A x \in Headers, k \in Messages : (\A i \in 1 .. Len(e) : place[i] # k) => (HoldsBody(k, x)' <=> HoldsBody(k, x))
  BY <1>8 DEF HoldsBody
<1>13. \A x \in Headers : \A i \in 1 .. Len(e) : ~HoldsBody(place[i], x)
  BY <1>3 DEF HoldsBody, OwnsBody
<1>14. ASSUME NEW x \in Headers PROVE Keeps(x)
  <2>1. Alone(x) /\ Shifted(p, x)
    BY <1>5 DEF TransferIInv
  <2>2. CASE \E j \in 1 .. Len(e) : e[j] = x
    <3>1. PICK j \in 1 .. Len(e) : e[j] = x
      BY <2>2
    <3>2. j \in Nat /\ Carries(p, 1, j, x) /\ place[j] \in Messages
      BY <1>3, <1>5, <3>1
    <3>3. \A i \in 1 .. Len(e) : e[i] = x => i = j
      <4>1. \A i \in 1 .. Len(e) : e[i] = x => i \in Nat /\ Carries(p, 1, i, x)
        BY <1>5
      <4>2. QED
        BY <2>1, <3>2, <4>1 DEF Alone
    <3>4. \A k \in Messages : HoldsBody(k, x)' <=> HoldsBody(k, x) \/ k = place[j]
      BY <1>3, <1>9, <1>12, <1>13, <3>1, <3>3
    <3>5. QED
      BY <2>1, <3>2, <3>4, Received
  <2>3. CASE \A j \in 1 .. Len(e) : e[j] # x
    <3>1. SameHolders(x)
      BY <1>9, <1>12, <1>13, <2>3 DEF SameHolders
    <3>2. (\A j \in Nat : ~Carries(p, 1, j, x)) /\ (\A j \in Nat : ~Carries(p, 0, j, x))
      BY <1>5, <1>6, <2>3
    <3>3. QED
      BY <2>1, <3>1, <3>2, MovesUp
  <2>4. QED
    BY <2>2, <2>3
<1>15. QED
  BY <1>5, <1>10, <1>11, <1>14 DEF ReceiveParts, TransferIInv, TransferTypes, regionVars, MessageObjects, BodyTypes,
         PassesOn, KeepsAll

\* ~FairMQMessageSHM: the body, if the message has one, is disposed of.
LEMMA DestroyShape ==
    ASSUME TransferIInv, NEW m \in Messages, Destroy(m)
    PROVE  BodyTypes' /\ (PassesOn \/ Deallocates \/ Acknowledges)
<1>0. PICK y, b : b = msg[m].fHandle /\ y = <<msg[m].fRegionId, b>>
  OBVIOUS
<1>1. msg[m] \in MessageTypes /\ msg[m] # NoMessage /\ Exists(m)
  BY DEF Destroy, CloseMessage, Exists, TransferIInv, TransferTypes
<1>2. /\ msg' \in [Messages -> MessageObjects] /\ BodyInv'
      /\ \A x \in Headers, k \in Messages : HoldsBody(k, x)' <=> HoldsBody(k, x) /\ k # m
  <2>1. NoMessage \in MessageObjects /\ BodyOK(NoMessage) /\ \A x \in Headers : ~OwnsBody(NoMessage, x)
    BY DEF MessageObjects, BodyOK, OwnsBody
  <2>2. msg' = [msg EXCEPT ![m] = NoMessage]
    BY DEF Destroy
  <2>3. QED
    BY <2>1, <2>2, OneMessage DEF TransferIInv
<1>3. UNCHANGED wire /\ WireTypes' /\ \A x \in Headers : SameWire(x) /\ Alone(x)
  BY QuietWire DEF Destroy, TransferIInv, TransferTypes
<1>4. ASSUME Holds(m)
      PROVE  y \in Headers /\ b \in Nat /\ Drops(m, y)
  <2>1. b \in Nat /\ msg[m].fRegionId \in {0, 1} /\ ~msg[m].fQueued
    BY <1>0, <1>1, <1>4 DEF Holds, MessageTypes
  <2>2. y \in Headers /\ y[1] = msg[m].fRegionId /\ y[2] = msg[m].fHandle
    BY <1>0, <2>1 DEF Headers
  <2>3. \A x \in Headers : HoldsBody(m, x) <=> x[1] = y[1] /\ x[2] = y[2]
    BY <1>0, <1>1, <2>1, <2>2 DEF HoldsBody, OwnsBody
  <2>4. \A x \in Headers : HoldsBody(m, x) <=> x = y
    BY <2>2, <2>3, HeaderParts
  <2>5. ~Owned(y)' /\ Alone(y)' /\ HoldsBody(m, y)
    BY <1>2, <1>3, <2>2, <2>4, Dropped
  <2>6. ASSUME NEW x \in Headers \ {y} PROVE Keeps(x)
    <3>1. SameHolders(x) /\ SameWire(x) /\ Alone(x)
      BY <1>2, <1>3, <2>4 DEF SameHolders
    <3>2. QED
      BY <3>1, Untouched
  <2>7. QED
    BY <2>1, <2>2, <2>5, <2>6 DEF Drops
<1>5. CASE Deallocate(m)
  <2>1. Holds(m) /\ y = <<0, b>> /\ allocated' = allocated \ {b} /\ UNCHANGED regionVars
    BY <1>0, <1>5 DEF Deallocate
  <2>2. b \in Nat /\ Drops(m, <<0, b>>)
    BY <1>4, <2>1
  <2>3. Deallocates
    BY <2>1, <2>2 DEF Deallocates, regionVars
  <2>4. QED
    BY <1>2, <1>3, <2>1, <2>3 DEF TransferIInv, TransferTypes, regionVars, MessageObjects, BodyTypes
<1>6. CASE Acknowledge(m)
  <2>1. Holds(m) /\ y = <<1, b>> /\ SendAck(m) /\ UNCHANGED <<allocated, region, blocks>>
    BY <1>0, <1>1, <1>6 DEF Acknowledge, MessageTypes
  <2>2. b \in Nat /\ Drops(m, <<1, b>>)
    BY <1>4, <2>1
  <2>3. \/ acks' = Append(acks, b)
        \/ acks' = acks /\ (region # "exists" \/ fInterrupted # {} \/ fRegionPtr[m] = "dangling")
    BY <1>0, <2>1 DEF SendAck, RegionPtr, GetRemoteRegion, CanOpen
  <2>4. Acknowledges
    BY <2>1, <2>2, <2>3 DEF Acknowledges
  <2>5. acks' \in Seq(Nat)
    <3>1. acks \in Seq(Nat) /\ b \in Nat
      BY <2>2 DEF TransferIInv, TransferTypes
    <3>2. Append(acks, b) \in Seq(Nat)
      BY <3>1
    <3>3. QED
      BY <2>3, <3>1, <3>2
  <2>6. QED
    BY <1>2, <1>3, <2>1, <2>4, <2>5 DEF TransferIInv, TransferTypes, MessageObjects, BodyTypes
<1>7. CASE ~Holds(m) /\ UNCHANGED <<allocated, regionVars>>
  <2>1. \A x \in Headers : SameHolders(x)
    BY <1>1, <1>2, <1>7, HeaderParts DEF SameHolders, Holds, HoldsBody, OwnsBody
  <2>2. KeepsAll
    BY <1>3, <2>1, KeepsBodies
  <2>3. QED
    BY <1>2, <1>3, <1>7, <2>2
    DEF TransferIInv, TransferTypes, regionVars, MessageObjects, BodyTypes, PassesOn
<1>8. QED
  BY <1>5, <1>6, <1>7 DEF Destroy, CloseMessage

\* Rebuild of a message that has had no body closes nothing.
LEMMA RebuildShape ==
    ASSUME TransferIInv, ~Reuse, NEW m \in Messages, Rebuild(m)
    PROVE  BodyTypes' /\ PassesOn
<1> DEFINE r == [msg[m] EXCEPT !.fMessage = "empty"]
<1>1. /\ msg[m] \in MessageTypes /\ msg[m] # NoMessage
      /\ msg[m].fHandle = -1 /\ ~msg[m].fQueued /\ msg[m].fRegionId = 0
  BY DEF Rebuild, Fresh, Exists, TransferIInv, TransferTypes, BodyInv, BodyOK
<1>2. ~Holds(m) /\ Closed(m) = -1
  BY <1>1 DEF Holds, Closed
<1>3. UNCHANGED <<allocated, regionVars, wire>>
  BY <1>2 DEF Rebuild, CloseMessage, Deallocate, Acknowledge
<1>4. r \in MessageTypes /\ r.fHandle = -1 /\ r.fRegionId = 0 /\ ~r.fQueued /\ r.fMessage = "empty"
  BY <1>1 DEF MessageTypes, FMessages
<1>5. r \in MessageObjects /\ BodyOK(r) /\ \A x \in Headers : ~OwnsBody(r, x) /\ ~HoldsBody(m, x)
  BY <1>1, <1>4, HeaderParts DEF MessageObjects, BodyOK, OwnsBody, HoldsBody
<1>6. msg' = [msg EXCEPT ![m] = r]
  <2>1. msg' = [msg EXCEPT ![m].fQueued = FALSE, ![m].fHandle = -1, ![m].fMessage = "empty"]
    BY <1>2 DEF Rebuild
  <2>2. [msg[m] EXCEPT !.fQueued = FALSE, !.fHandle = -1, !.fMessage = "empty"] = r
    BY <1>1 DEF MessageTypes
  <2>3. msg' = [msg EXCEPT ![m] = [msg[m] EXCEPT !.fQueued = FALSE, !.fHandle = -1, !.fMessage = "empty"]]
    BY <2>1 DEF TransferIInv, TransferTypes
  <2>4. QED
    BY <2>2, <2>3
<1> HIDE DEF r
<1>7. msg' \in [Messages -> MessageObjects] /\ BodyInv' /\ \A x \in Headers : SameHolders(x)
  BY <1>5, <1>6, OneMessage DEF TransferIInv, SameHolders
<1>8. KeepsAll /\ WireTypes'
  BY <1>3, <1>7, KeepsBodies
<1>9. QED
  BY <1>3, <1>7, <1>8
  DEF regionVars, TransferIInv, TransferTypes, BodyTypes, PassesOn, MessageObjects

LEMMA RebuildSizeShape ==
    ASSUME TransferIInv, ~Reuse, NEW m \in Messages, RebuildSize(m)
    PROVE  BodyTypes' /\ (PassesOn \/ Allocates)
<1> DEFINE old == [msg[m] EXCEPT !.fMessage = "invalid"]
<1>1. /\ msg[m] \in MessageTypes /\ msg[m] # NoMessage
      /\ msg[m].fHandle = -1 /\ ~msg[m].fQueued /\ msg[m].fRegionId = 0
  BY DEF RebuildSize, Fresh, Exists, TransferIInv, TransferTypes, BodyInv, BodyOK
<1>2. old \in MessageTypes /\ old.fHandle = -1 /\ old.fRegionId = 0 /\ ~old.fQueued /\ old.fMessage = "invalid"
  BY <1>1 DEF MessageTypes, FMessages
<1>3. BodyOK(old) /\ \A x \in Headers : ~HoldsBody(m, x)
  BY <1>1, <1>2, HeaderParts DEF BodyOK, HoldsBody, OwnsBody
<1>4. InitializeChunk(m, old) /\ UNCHANGED <<wire, regionVars>>
  BY <1>1 DEF RebuildSize
<1> HIDE DEF old
<1>5. QED
  BY <1>2, <1>3, <1>4, InitializeChunkShape

\* The region, interruptions and stuttering leave the messages alone.
LEMMA OtherStepsShape ==
    ASSUME TransferIInv, UNCHANGED <<allocated, msg, wire>>, blocks' \in SUBSET Nat, acks' \in Seq(Nat)
    PROVE  BodyTypes' /\ KeepsAll
<1>1. msg' \in [Messages -> MessageObjects] /\ BodyInv' /\ \A x \in Headers : SameHolders(x)
  BY DEF TransferIInv, TransferTypes, MessageObjects, BodyInv, SameHolders, HoldsBody
<1>2. KeepsAll /\ WireTypes'
  BY <1>1, KeepsBodies
<1>3. QED
  BY <1>1, <1>2 DEF TransferIInv, TransferTypes, BodyTypes, MessageObjects

LEMMA StepShape ==
    ASSUME ~Reuse, TransferIInv, [Next]_vars
    PROVE  BodyTypes' /\ Shape
<1>1. ASSUME NEW m \in Messages, MessageStep(m) PROVE BodyTypes' /\ Shape
  <2>1. CASE GetData(m)
    <3>1. UNCHANGED <<allocated, msg, wire, region, blocks, acks>>
      BY <2>1 DEF GetData
    <3>2. BodyTypes' /\ KeepsAll
      BY <3>1, OtherStepsShape DEF TransferIInv, TransferTypes
    <3>3. QED
      BY <3>1, <3>2 DEF Shape, PassesOn
  <2>2. CASE ~GetData(m)
    BY <1>1, <2>2, ConstructShape, ConstructSizeShape, ConstructFromRegionShape, CopyShape, SendShape,
       ReceiveShape, DestroyShape, RebuildShape, RebuildSizeShape DEF MessageStep, Shape
  <2>3. QED
    BY <2>1, <2>2
<1>2. ASSUME NEW m \in Messages, NEW n \in Messages, SendParts(m, n) PROVE BodyTypes' /\ Shape
  BY <1>2, SendPartsShape DEF Shape
<1>3. ASSUME NEW p \in Processes, NEW place \in Places, ReceiveParts(p, place) PROVE BodyTypes' /\ Shape
  BY <1>3, ReceivePartsShape DEF Shape
<1>4. CASE CreateRegion
  <2>1. BodyTypes' /\ KeepsAll
    BY <1>4, OtherStepsShape, TransferAssumption DEF CreateRegion, TransferIInv, TransferTypes
  <2>2. QED
    BY <1>4, <2>1 DEF Shape, RegionStep, CreateRegion
<1>5. CASE ReceiveAcks
  <2>1. acks # <<>> /\ acks' = Tail(acks) /\ blocks' = blocks \cup {Head(acks)}
        /\ acks \in Seq(Nat) /\ blocks \in SUBSET Nat /\ UNCHANGED <<allocated, msg, wire>>
    BY <1>5 DEF ReceiveAcks, TransferIInv, TransferTypes
  <2>2. Tail(acks) \in Seq(Nat) /\ Head(acks) \in Nat
    BY <2>1
  <2>3. acks' \in Seq(Nat) /\ blocks' \in SUBSET Nat
    BY <2>1, <2>2
  <2>4. BodyTypes' /\ KeepsAll
    BY <2>1, <2>3, OtherStepsShape
  <2>5. QED
    BY <1>5, <2>1, <2>4 DEF Shape, RegionStep
<1>6. CASE DestroyRegion
  <2>1. BodyTypes' /\ KeepsAll
    BY <1>6, OtherStepsShape DEF DestroyRegion, TransferIInv, TransferTypes
  <2>2. QED
    BY <1>6, <2>1 DEF Shape, RegionStep, DestroyRegion
<1>7. ASSUME NEW p \in Processes, Interrupt(p) \/ Resume(p) PROVE BodyTypes' /\ Shape
  <2>1. UNCHANGED <<allocated, msg, wire, region, blocks, acks>>
    BY <1>7 DEF Interrupt, Resume, regionVars
  <2>2. BodyTypes' /\ KeepsAll
    BY <2>1, OtherStepsShape DEF TransferIInv, TransferTypes
  <2>3. QED
    BY <2>1, <2>2 DEF Shape, PassesOn
<1>8. CASE UNCHANGED vars
  <2>1. UNCHANGED <<allocated, msg, wire, region, blocks, acks>>
    BY <1>8 DEF vars
  <2>2. BodyTypes' /\ KeepsAll
    BY <2>1, OtherStepsShape DEF TransferIInv, TransferTypes
  <2>3. QED
    BY <2>1, <2>2 DEF Shape, PassesOn
<1>9. QED
  BY <1>1, <1>2, <1>3, <1>4, <1>5, <1>6, <1>7, <1>8 DEF Next

-----------------------------------------------------------------------------
(* The steps preserve the invariant.                                       *)

LEMMA HeadersApart ==
    /\ \A g, h : <<0, g>> = <<0, h>> <=> g = h
    /\ \A g, h : <<1, g>> = <<1, h>> <=> g = h
    /\ \A g, h : <<0, g>> # <<1, h>>
OBVIOUS

LEMMA AloneStep ==
    ASSUME Shape, NEW x \in Headers
    PROVE  Alone(x)'
<1>1. CASE PassesOn \/ RegionStep
  BY <1>1 DEF PassesOn, RegionStep, KeepsAll, Keeps
<1>2. CASE Allocates
  BY <1>2 DEF Allocates, Takes, Keeps
<1>3. CASE Fills
  BY <1>3 DEF Fills, Takes, Keeps
<1>4. CASE Deallocates
  BY <1>4 DEF Deallocates, Drops, Keeps
<1>5. CASE Acknowledges
  BY <1>5 DEF Acknowledges, Drops, Keeps
<1>6. QED
  BY <1>1, <1>2, <1>3, <1>4, <1>5 DEF Shape

\* A chunk gets an owner when it is allocated and loses it when it is deallocated.
LEMMA ChunkStep ==
    ASSUME Shape, NEW h \in Handles, ChunkInv(h)
    PROVE  ChunkInv(h)'
<1> DEFINE x == <<0, h>>
<1>1. x \in Headers
  BY HeaderOf
<1>2. ASSUME Keeps(x), h \in allocated' <=> h \in allocated PROVE ChunkInv(h)'
  BY <1>2 DEF Keeps, ChunkInv
<1>3. CASE PassesOn \/ RegionStep
  BY <1>1, <1>2, <1>3 DEF PassesOn, RegionStep, KeepsAll
<1>4. CASE Allocates
  <2>1. PICK m \in Messages, g \in Handles \ allocated : Takes(m, <<0, g>>) /\ allocated' = allocated \cup {g}
    BY <1>4 DEF Allocates
  <2>2. CASE g = h
    <3>1. Owned(<<0, g>>)' /\ g \in allocated'
      BY <2>1 DEF Takes, Owned
    <3>2. QED
      BY <2>2, <3>1 DEF ChunkInv
  <2>3. CASE g # h
    BY <1>1, <1>2, <2>1, <2>3, HeadersApart DEF Takes
  <2>4. QED
    BY <2>2, <2>3
<1>5. CASE Fills
  BY <1>1, <1>2, <1>5, HeadersApart DEF Fills, Takes
<1>6. CASE Deallocates
  <2>1. PICK m \in Messages, g \in Nat : Drops(m, <<0, g>>) /\ allocated' = allocated \ {g}
    BY <1>6 DEF Deallocates
  <2>2. CASE g = h
    <3>1. ~Owned(<<0, g>>)' /\ g \notin allocated'
      BY <2>1 DEF Drops
    <3>2. QED
      BY <2>2, <3>1 DEF ChunkInv
  <2>3. CASE g # h
    BY <1>1, <1>2, <2>1, <2>3, HeadersApart DEF Drops
  <2>4. QED
    BY <2>2, <2>3
<1>7. CASE Acknowledges
  BY <1>1, <1>2, <1>7, HeadersApart DEF Acknowledges, Drops
<1>8. QED
  BY <1>3, <1>4, <1>5, <1>6, <1>7 DEF Shape

\* No block is acknowledged twice.
AckedOnce(b) == \A i, k \in 1 .. Len(acks) : acks[i] = b /\ acks[k] = b => i = k

\* An acknowledgement comes last.
LEMMA AckSent ==
    ASSUME acks \in Seq(Nat), NEW c \in Nat, acks' = Append(acks, c), NEW b \in Nat
    PROVE  /\ Acked(b)' <=> Acked(b) \/ b = c
           /\ AckedOnce(b) /\ (b = c => ~Acked(b)) => AckedOnce(b)'
<1>1. Len(acks) \in Nat /\ Len(acks') = Len(acks) + 1 /\ acks'[Len(acks) + 1] = c
      /\ \A i \in 1 .. Len(acks) : acks'[i] = acks[i]
  OBVIOUS
<1>2. \A i \in 1 .. Len(acks') : i \in 1 .. Len(acks) \/ i = Len(acks) + 1
  BY <1>1
<1>3. \A i \in 1 .. Len(acks) : i \in 1 .. Len(acks')
  BY <1>1
<1>4. Len(acks) + 1 \in 1 .. Len(acks')
  BY <1>1
<1>5. Acked(b)' <=> Acked(b) \/ b = c
  BY <1>1, <1>2, <1>3, <1>4 DEF Acked
<1>6. ASSUME AckedOnce(b), b = c => ~Acked(b), NEW i \in 1 .. Len(acks'), NEW k \in 1 .. Len(acks'),
             acks'[i] = b, acks'[k] = b
      PROVE  i = k
  BY <1>1, <1>2, <1>6 DEF Acked, AckedOnce
<1>7. QED
  BY <1>5, <1>6 DEF AckedOnce

\* The region gets the first acknowledgement.
LEMMA AckReceived ==
    ASSUME acks \in Seq(Nat), acks # <<>>, acks' = Tail(acks), NEW b \in Nat
    PROVE  /\ Acked(b) <=> Acked(b)' \/ b = Head(acks)
           /\ AckedOnce(b) => AckedOnce(b)'
           /\ AckedOnce(b) /\ b = Head(acks) => ~Acked(b)'
<1>1. Len(acks) \in Nat \ {0} /\ Head(acks) = acks[1] /\ Len(acks') = Len(acks) - 1
  OBVIOUS
<1>2. \A i \in 1 .. Len(acks) - 1 : acks'[i] = acks[i + 1]
  OBVIOUS
<1>3. ASSUME NEW i \in 1 .. Len(acks')
      PROVE  i + 1 \in 1 .. Len(acks) /\ acks'[i] = acks[i + 1] /\ i + 1 # 1
  BY <1>1, <1>2
<1>4. ASSUME NEW i \in 1 .. Len(acks), i # 1
      PROVE  i - 1 \in 1 .. Len(acks') /\ acks'[i - 1] = acks[i]
  <2>1. i - 1 \in 1 .. Len(acks) - 1 /\ (i - 1) + 1 = i
    BY <1>1, <1>4
  <2>2. QED
    BY <1>1, <1>2, <2>1
<1>5. 1 \in 1 .. Len(acks)
  BY <1>1
<1>6. Acked(b) <=> Acked(b)' \/ b = Head(acks)
  BY <1>1, <1>3, <1>4, <1>5 DEF Acked
<1>7. ASSUME AckedOnce(b), NEW i \in 1 .. Len(acks'), NEW k \in 1 .. Len(acks'), acks'[i] = b, acks'[k] = b
      PROVE  i = k
  <2>1. i + 1 \in 1 .. Len(acks) /\ k + 1 \in 1 .. Len(acks) /\ acks[i + 1] = b /\ acks[k + 1] = b
    BY <1>3, <1>7
  <2>2. i + 1 = k + 1
    BY <1>7, <2>1 DEF AckedOnce
  <2>3. QED
    BY <2>2
<1>8. ASSUME AckedOnce(b), b = Head(acks) PROVE ~Acked(b)'
  BY <1>1, <1>3, <1>5, <1>8 DEF Acked, AckedOnce
<1>9. QED
  BY <1>6, <1>7, <1>8 DEF AckedOnce

\* What becomes of a block: where it is, and whether it is anywhere.
Somewhere(b) == Owned(<<1, b>>) \/ Acked(b) \/ b \in blocks

\* No message that holds block b has lost its pointer to the region.
Tracked(b) == \A m \in Messages : HoldsBody(m, <<1, b>>) => fRegionPtr[m] # "dangling"

\* A step with one of the shapes leaves a tracked block in one place, and somewhere.
LEMMA BlockStep ==
    ASSUME TransferTypes, Shape, NEW b \in Nat, BlockInv(b)
    PROVE  /\ BlockInv(b)'
           /\ region = "exists" /\ region' = "exists" /\ fInterrupted = {} /\ Tracked(b)
                => (Somewhere(b)' <=> Somewhere(b))
<1> DEFINE x == <<1, b>>
<1>1. x \in Headers /\ acks \in Seq(Nat) /\ AckedOnce(b)
  BY HeaderOf DEF TransferTypes, BlockInv, AckedOnce
<1>2. UNCHANGED acks => (Acked(b)' <=> Acked(b)) /\ (AckedOnce(b)' <=> AckedOnce(b))
  BY DEF Acked, AckedOnce
<1>3. ASSUME Owned(x)' <=> Owned(x), UNCHANGED <<region, blocks, acks>>
      PROVE  BlockInv(b)' /\ (Somewhere(b)' <=> Somewhere(b))
  BY <1>1, <1>2, <1>3 DEF BlockInv, Somewhere, AckedOnce
<1>4. CASE PassesOn
  BY <1>1, <1>3, <1>4 DEF PassesOn, KeepsAll, Keeps
<1>5. CASE Allocates
  BY <1>1, <1>3, <1>5, HeadersApart DEF Allocates, Takes, Keeps
<1>6. CASE Deallocates
  BY <1>1, <1>3, <1>6, HeadersApart DEF Deallocates, Drops, Keeps
<1>7. CASE Fills
  <2>1. PICK m \in Messages, c \in blocks :
            Takes(m, <<1, c>>) /\ blocks' = blocks \ {c} /\ UNCHANGED <<region, acks>>
    BY <1>7 DEF Fills
  <2>2. CASE c = b
    <3>1. Owned(<<1, c>>)' /\ c \notin blocks' /\ c \in blocks
      BY <2>1 DEF Takes, Owned
    <3>2. ~Acked(b) /\ region # "none"
      BY <2>2, <3>1 DEF BlockInv
    <3>3. ~Acked(b)' /\ AckedOnce(b)' /\ region' # "none" /\ b \notin blocks' /\ b \in blocks
      BY <1>1, <1>2, <2>1, <2>2, <3>1, <3>2
    <3>4. Somewhere(b)
      BY <3>3 DEF Somewhere
    <3>5. Owned(x)' /\ Somewhere(b)'
      BY <2>2, <3>1 DEF Somewhere
    <3>6. BlockInv(b)'
      BY <3>3 DEF BlockInv, AckedOnce
    <3>7. QED
      BY <3>4, <3>5, <3>6
  <2>3. CASE c # b
    <3>1. (Owned(x)' <=> Owned(x)) /\ (b \in blocks' <=> b \in blocks)
      BY <1>1, <2>1, <2>3, HeadersApart DEF Takes, Keeps
    <3>2. QED
      BY <1>1, <1>2, <2>1, <3>1 DEF BlockInv, Somewhere, AckedOnce
  <2>4. QED
    BY <2>2, <2>3
<1>8. CASE Acknowledges
  <2>1. PICK m \in Messages, c \in Nat :
            /\ Drops(m, <<1, c>>)
            /\ \/ acks' = Append(acks, c)
               \/ acks' = acks /\ (region # "exists" \/ fInterrupted # {} \/ fRegionPtr[m] = "dangling")
            /\ UNCHANGED <<region, blocks>>
    BY <1>8 DEF Acknowledges
  <2>2. Owned(<<1, c>>) /\ ~Owned(<<1, c>>)' /\ HoldsBody(m, <<1, c>>)
    BY <2>1 DEF Drops, Owned
  <2>3. c # b => (Owned(x)' <=> Owned(x))
    BY <1>1, <2>1, HeadersApart DEF Drops, Keeps
  <2>4. CASE acks' = Append(acks, c)
    <3>1. c = b => ~Acked(b)
      BY <2>2 DEF BlockInv
    <3>2. (Acked(b)' <=> Acked(b) \/ b = c) /\ AckedOnce(b)'
      BY <1>1, <2>4, <3>1, AckSent
    <3>3. CASE c = b
      BY <2>1, <2>2, <3>2, <3>3 DEF BlockInv, Somewhere, AckedOnce
    <3>4. CASE c # b
      BY <2>1, <2>3, <3>2, <3>4 DEF BlockInv, Somewhere, AckedOnce
    <3>5. QED
      BY <3>3, <3>4
  <2>5. CASE acks' = acks /\ (region # "exists" \/ fInterrupted # {} \/ fRegionPtr[m] = "dangling")
    <3>1. BlockInv(b)'
      BY <1>1, <1>2, <2>1, <2>2, <2>3, <2>5 DEF BlockInv, AckedOnce
    <3>2. c = b => region # "exists" \/ fInterrupted # {} \/ ~Tracked(b)
      BY <2>2, <2>5 DEF Tracked
    <3>3. c # b => (Somewhere(b)' <=> Somewhere(b))
      BY <1>2, <2>1, <2>3, <2>5 DEF Somewhere
    <3>4. QED
      BY <3>1, <3>2, <3>3
  <2>6. QED
    BY <2>1, <2>4, <2>5
<1>9. CASE RegionStep
  <2>1. Owned(x)' <=> Owned(x)
    BY <1>1, <1>9 DEF RegionStep, KeepsAll, Keeps
  <2>2. CASE CreateRegion
    BY <1>1, <1>2, <2>1, <2>2 DEF CreateRegion, BlockInv, AckedOnce
  <2>3. CASE ReceiveAcks
    <3>1. acks # <<>> /\ acks' = Tail(acks) /\ blocks' = blocks \cup {Head(acks)} /\ region = "exists"
          /\ region' = region
      BY <2>3 DEF ReceiveAcks
    <3>2. /\ Acked(b) <=> Acked(b)' \/ b = Head(acks)
          /\ AckedOnce(b)'
          /\ b = Head(acks) => ~Acked(b)'
      BY <1>1, <3>1, AckReceived
    <3>3. QED
      BY <2>1, <3>1, <3>2 DEF BlockInv, Somewhere, AckedOnce
  <2>4. CASE DestroyRegion
    BY <1>1, <1>2, <2>1, <2>4 DEF DestroyRegion, BlockInv, AckedOnce
  <2>5. QED
    BY <1>9, <2>2, <2>3, <2>4 DEF RegionStep
<1>10. QED
  BY <1>4, <1>5, <1>6, <1>7, <1>8, <1>9 DEF Shape

LEMMA TransferIInvInit ==
    ASSUME Init
    PROVE  TransferIInv
<1>1. WireTypes
  BY TransferAssumption DEF Init, WireTypes
<1>2. TransferTypes /\ BodyInv
  BY <1>1 DEF Init, TransferTypes, BodyInv, BodyOK
<1>3. ASSUME NEW x \in Headers PROVE ~Owned(x) /\ Alone(x)
  <2>1. \A m \in Messages : ~HoldsBody(m, x)
    BY DEF Init, HoldsBody, OwnsBody
  <2>2. \A p \in Processes, i, j \in Nat : ~Carries(p, i, j, x)
    BY DEF Init, Carries
  <2>3. QED
    BY <2>1, <2>2 DEF Owned, Alone
<1>4. \A h \in Handles : ChunkInv(h)
  BY <1>3, HeaderOf DEF Init, ChunkInv
<1>5. ASSUME NEW b \in Nat PROVE BlockInv(b)
  <2>1. acks = <<>> /\ blocks = {} /\ ~Owned(<<1, b>>)
    BY <1>3, HeaderOf DEF Init
  <2>2. QED
    BY <2>1 DEF BlockInv, Acked
<1>6. QED
  BY <1>2, <1>3, <1>4, <1>5 DEF TransferIInv

LEMMA TransferIInvStep ==
    ASSUME ~Reuse, TransferIInv, [Next]_vars
    PROVE  TransferIInv'
<1>1. BodyTypes' /\ Shape
  BY StepShape
<1>2. \A x \in Headers : Alone(x)'
  BY <1>1, AloneStep
<1>3. \A h \in Handles : ChunkInv(h)'
  BY <1>1, ChunkStep DEF TransferIInv
<1>4. \A b \in Nat : BlockInv(b)'
  BY <1>1, BlockStep DEF TransferIInv
<1>5. QED
  BY <1>1, <1>2, <1>3, <1>4 DEF TransferIInv, BodyTypes

-----------------------------------------------------------------------------
(* What the invariant says of the owners that the properties count.        *)

\* The owners of a body are the message that holds it, or its place on the wire.
LEMMA HoldersOf ==
    ASSUME NEW x \in Headers
    PROVE  Holders(x) = {m \in Messages : HoldsBody(m, x)}
<1>1. ASSUME NEW m \in Messages
      PROVE  Exists(m) /\ Holds(m) /\ Header(m) = x <=> HoldsBody(m, x)
  BY HeaderParts DEF Exists, Holds, Header, HoldsBody, OwnsBody
<1>2. QED
  BY <1>1 DEF Holders

LEMMA OnWireOf ==
    ASSUME WireTypes, NEW x \in Headers
    PROVE  /\ \A t \in OnWire(x) :
                 /\ t[1] \in Processes /\ t[2] \in Nat /\ t[3] \in Nat
                 /\ t = <<t[1], t[2], t[3]>> /\ Carries(t[1], t[2], t[3], x)
           /\ \A p \in Processes, i, j \in Nat : Carries(p, i, j, x) => <<p, i, j>> \in OnWire(x)
<1>1. ASSUME NEW t \in OnWire(x)
      PROVE  t[1] \in Processes /\ t[2] \in Nat /\ t[3] \in Nat /\ Carries(t[1], t[2], t[3], x)
             /\ t = <<t[1], t[2], t[3]>>
  <2>1. t \in Processes \X (1 .. MaxWire) \X (1 .. 2)
    BY DEF OnWire
  <2>2. t[1] \in Processes /\ t[2] \in 1 .. MaxWire /\ t[3] \in 1 .. 2 /\ t = <<t[1], t[2], t[3]>>
    BY <2>1
  <2>3. wire[t[1]] \in Seq(Seq(Headers))
    BY <2>2 DEF WireTypes
  <2>4. t[2] \in DOMAIN wire[t[1]] /\ t[3] \in DOMAIN wire[t[1]][t[2]] /\ wire[t[1]][t[2]][t[3]] = x
    BY DEF OnWire
  <2>5. t[2] \in 1 .. Len(wire[t[1]])
    BY <2>3, <2>4
  <2>6. wire[t[1]][t[2]] \in Seq(Headers)
    BY <2>3, <2>5
  <2>7. t[3] \in 1 .. Len(wire[t[1]][t[2]])
    BY <2>4, <2>6
  <2>8. QED
    BY <2>2, <2>4, <2>5, <2>7, TransferAssumption DEF Carries
<1>2. ASSUME NEW p \in Processes, NEW i \in Nat, NEW j \in Nat, Carries(p, i, j, x)
      PROVE  <<p, i, j>> \in OnWire(x)
  <2>1. wire[p] \in Seq(Seq(Headers)) /\ Len(wire[p]) <= MaxWire
    BY DEF WireTypes
  <2>2. i \in 1 .. Len(wire[p]) /\ j \in 1 .. Len(wire[p][i]) /\ wire[p][i][j] = x
    BY <1>2 DEF Carries
  <2>3. wire[p][i] \in Seq(Headers) /\ Len(wire[p][i]) <= 2
    <3>1. wire[p][i] \in Seq(Headers)
      BY <2>1, <2>2
    <3>2. Len(wire[p][i]) <= 2
      BY <2>2 DEF WireTypes
    <3>3. QED
      BY <3>1, <3>2
  <2>4. i \in 1 .. MaxWire /\ j \in 1 .. 2 /\ i \in DOMAIN wire[p] /\ j \in DOMAIN wire[p][i]
    BY <2>1, <2>2, <2>3, TransferAssumption
  <2> DEFINE t == <<p, i, j>>
  <2>5. t \in Processes \X (1 .. MaxWire) \X (1 .. 2) /\ t[1] = p /\ t[2] = i /\ t[3] = j
    BY <2>4
  <2> HIDE DEF t
  <2>6. t \in OnWire(x)
    BY <2>2, <2>4, <2>5 DEF OnWire
  <2>7. QED
    BY <2>6 DEF t
<1>3. QED
  BY <1>1, <1>2

LEMMA OwnersOf ==
    ASSUME WireTypes, NEW x \in Headers, Alone(x)
    PROVE  IF Owned(x) THEN \E o \in Owners(x) : Owners(x) = {o} ELSE Owners(x) = {}
<1>1. CASE ~Owned(x)
  <2>1. Holders(x) = {} /\ OnWire(x) = {}
    BY <1>1, HoldersOf, OnWireOf DEF Owned
  <2>2. QED
    BY <1>1, <2>1 DEF Owners
<1>2. CASE \E m \in Messages : HoldsBody(m, x)
  <2>1. PICK m \in Messages : HoldsBody(m, x)
    BY <1>2
  <2>2. Holders(x) = {m} /\ OnWire(x) = {}
    BY <2>1, HoldersOf, OnWireOf DEF Alone
  <2>3. QED
    BY <1>2, <2>2 DEF Owners, Owned
<1>3. CASE \E p \in Processes, i, j \in Nat : Carries(p, i, j, x)
  <2>1. PICK p \in Processes, i \in Nat, j \in Nat : Carries(p, i, j, x)
    BY <1>3
  <2>2. Holders(x) = {}
    BY <2>1, HoldersOf DEF Alone
  <2>3. \A t \in OnWire(x) : t = <<p, i, j>>
    BY <2>1, OnWireOf DEF Alone
  <2>4. <<p, i, j>> \in OnWire(x)
    BY <2>1, OnWireOf
  <2>5. QED
    BY <1>3, <2>2, <2>3, <2>4 DEF Owners, Owned
<1>4. QED
  BY <1>1, <1>2, <1>3 DEF Owned

LEMMA TransferIInvOwner ==
    ASSUME TransferIInv
    PROVE  OneOwner
<1> SUFFICES ASSUME NEW h \in Handles
             PROVE  IF h \in allocated
                    THEN \E o \in Owners(<<0, h>>) : Owners(<<0, h>>) = {o}
                    ELSE Owners(<<0, h>>) = {}
  BY DEF OneOwner
<1> DEFINE x == <<0, h>>
<1>1. WireTypes /\ x \in Headers /\ Alone(x) /\ (Owned(x) <=> h \in allocated)
  BY HeaderOf DEF TransferIInv, TransferTypes, ChunkInv
<1> HIDE DEF x
<1>2. IF Owned(x) THEN \E o \in Owners(x) : Owners(x) = {o} ELSE Owners(x) = {}
  BY <1>1, OwnersOf
<1>3. QED
  BY <1>1, <1>2 DEF x

\* A block that is somewhere is in one place.
CountedOnce(b) == BlockOwners(b) = IF Somewhere(b) THEN 1 ELSE 0

AllCountedOnce == \A b \in Nat : CountedOnce(b)

LEMMA BlockCount == TransferIInv => AllCountedOnce
<1> SUFFICES ASSUME TransferIInv, NEW b \in Nat PROVE CountedOnce(b)
  BY DEF AllCountedOnce
<1> DEFINE x == <<1, b>>
           A == {i \in DOMAIN acks : acks[i] = b}
<1>1. WireTypes /\ x \in Headers /\ Alone(x) /\ acks \in Seq(Nat) /\ BlockInv(b)
  BY HeaderOf DEF TransferIInv, TransferTypes
<1>2. Cardinality(Owners(x)) = IF Owned(x) THEN 1 ELSE 0
  <2> HIDE DEF x
  <2>1. IF Owned(x) THEN \E o \in Owners(x) : Owners(x) = {o} ELSE Owners(x) = {}
    BY <1>1, OwnersOf
  <2>2. QED
    BY <2>1, FS_EmptySet, FS_Singleton
<1>3. Cardinality(A) = IF Acked(b) THEN 1 ELSE 0
  <2>1. A = {i \in 1 .. Len(acks) : acks[i] = b}
    BY <1>1
  <2>2. CASE Acked(b)
    <3>1. PICK i \in 1 .. Len(acks) : acks[i] = b
      BY <2>2 DEF Acked
    <3>2. A = {i}
      BY <1>1, <2>1, <3>1 DEF BlockInv
    <3>3. QED
      BY <2>2, <3>2, FS_Singleton
  <2>3. CASE ~Acked(b)
    <3>1. A = {}
      BY <2>1, <2>3 DEF Acked
    <3>2. QED
      BY <2>3, <3>1, FS_EmptySet
  <2>4. QED
    BY <2>2, <2>3
<1>4. BlockOwners(b) = Cardinality(Owners(x)) + Cardinality(A) + (IF b \in blocks THEN 1 ELSE 0)
  BY DEF BlockOwners
<1> HIDE DEF A
<1>5. BlockOwners(b) = (IF Owned(x) THEN 1 ELSE 0) + (IF Acked(b) THEN 1 ELSE 0) + (IF b \in blocks THEN 1 ELSE 0)
  BY <1>2, <1>3, <1>4
<1>6. QED
  BY <1>1, <1>5 DEF BlockInv, Somewhere, CountedOnce

\* Between two states of the invariant no block is lost.
LEMMA BlocksKeptStep ==
    ASSUME ~Reuse, TransferIInv, TransferIInv', [Next]_vars,
           region = "exists", region' = "exists", fInterrupted = {}, NEW b \in Nat, Tracked(b)
    PROVE  BlockOwners(b)' = BlockOwners(b)
<1>1. Somewhere(b)' <=> Somewhere(b)
  BY StepShape, BlockStep DEF TransferIInv
<1>2. AllCountedOnce
  BY BlockCount
<1>3. AllCountedOnce'
  BY BlockCount, PTL
<1>4. QED
  BY <1>1, <1>2, <1>3 DEF AllCountedOnce, CountedOnce

-----------------------------------------------------------------------------
(* The passing on of chunks.                                               *)

\* The owner of a chunk, by who has it.
OwnerIs(h) ==
    /\ h \notin allocated => owner[h] = "free"
    /\ h \in allocated => \A m \in Messages : HoldsBody(m, <<0, h>>) => owner[h] = Home[m]
    /\ h \in allocated /\ (\A m \in Messages : ~HoldsBody(m, <<0, h>>)) => owner[h] = "wire"

LEMMA OwnerOf ==
    TransferIInv => /\ owner \in [Handles -> Processes \cup {"free", "wire"}]
                    /\ \A h \in Handles : OwnerIs(h)
<1> SUFFICES ASSUME TransferIInv
             PROVE  /\ owner \in [Handles -> Processes \cup {"free", "wire"}]
                    /\ \A h \in Handles : OwnerIs(h)
  OBVIOUS
<1>1. ASSUME NEW h \in Handles
      PROVE  OwnerIs(h) /\ owner[h] \in Processes \cup {"free", "wire"}
  <2> DEFINE x == <<0, h>>
             c == CHOOSE m \in Holders(x) : TRUE
  <2>1. x \in Headers /\ Alone(x)
    BY HeaderOf DEF TransferIInv
  <2>2. owner[h] = IF h \notin allocated THEN "free" ELSE IF Holders(x) = {} THEN "wire" ELSE Home[c]
    BY DEF owner
  <2>3. Holders(x) = {m \in Messages : HoldsBody(m, x)}
    BY <2>1, HoldersOf
  <2>4. Holders(x) # {} => c \in Holders(x)
    OBVIOUS
  <2> HIDE DEF c
  <2>5. \A m \in Messages : HoldsBody(m, x) => c = m
    BY <2>1, <2>3, <2>4 DEF Alone
  <2>6. OwnerIs(h)
    BY <2>2, <2>3, <2>4, <2>5 DEF OwnerIs
  <2>7. Holders(x) # {} => Home[c] \in Processes
    BY <2>3, <2>4, TransferAssumption
  <2>8. QED
    BY <2>2, <2>6, <2>7
<1>2. owner \in [Handles -> Processes \cup {"free", "wire"}]
  <2>1. \A h \in Handles : owner[h] \in Processes \cup {"free", "wire"}
    BY <1>1
  <2>2. owner = [h \in Handles |-> owner[h]]
    BY DEF owner
  <2>3. QED
    BY <2>1, <2>2
<1>3. QED
  BY <1>1, <1>2

\* A chunk that a step keeps stays where it is, is sent, or is received.
LEMMA KeptMoves ==
    ASSUME NEW h \in Handles, OwnerIs(h), OwnerIs(h)', ChunkInv(h), ChunkInv(h)', Keeps(<<0, h>>)
    PROVE  owner'[h] = owner[h] \/ Ownership!Moves(owner[h], owner'[h])
<1> DEFINE x == <<0, h>>
<1>1. h \in allocated' <=> h \in allocated
  BY DEF ChunkInv, Keeps
<1>2. \A m \in Messages : Home[m] \in Processes
  BY TransferAssumption
<1>3. CASE h \notin allocated
  BY <1>1, <1>3 DEF OwnerIs
<1>4. CASE h \in allocated /\ \E m \in Messages : HoldsBody(m, x)
  <2>1. PICK m \in Messages : HoldsBody(m, x)
    BY <1>4
  <2>2. owner[h] = Home[m]
    BY <1>4, <2>1 DEF OwnerIs
  <2>3. CASE \E n \in Messages : HoldsBody(n, x)'
    BY <1>1, <1>4, <2>1, <2>2, <2>3 DEF OwnerIs, Keeps
  <2>4. CASE \A n \in Messages : ~HoldsBody(n, x)'
    <3>1. owner'[h] = "wire"
      BY <1>1, <1>4, <2>4 DEF OwnerIs
    <3>2. QED
      BY <1>2, <2>2, <3>1 DEF Ownership!Moves
  <2>5. QED
    BY <2>3, <2>4
<1>5. CASE h \in allocated /\ \A m \in Messages : ~HoldsBody(m, x)
  <2>1. owner[h] = "wire"
    BY <1>5 DEF OwnerIs
  <2>2. CASE \E n \in Messages : HoldsBody(n, x)'
    <3>1. PICK n \in Messages : HoldsBody(n, x)'
      BY <2>2
    <3>2. owner'[h] = Home[n]
      BY <1>1, <1>5, <3>1 DEF OwnerIs
    <3>3. QED
      BY <1>2, <2>1, <3>2 DEF Ownership!Moves
  <2>3. CASE \A n \in Messages : ~HoldsBody(n, x)'
    BY <1>1, <1>5, <2>1, <2>3 DEF OwnerIs
  <2>4. QED
    BY <2>2, <2>3
<1>6. QED
  BY <1>3, <1>4, <1>5

LEMMA OwnershipStep ==
    ASSUME ~Reuse, TransferIInv, TransferIInv', [Next]_vars
    PROVE  Ownership!Next
<1>1. Shape
  BY StepShape
<1>2. \A h \in Handles : OwnerIs(h)
  BY OwnerOf
<1>3. (owner \in [Handles -> Processes \cup {"free", "wire"}] /\ \A h \in Handles : OwnerIs(h))'
  BY OwnerOf, PTL
<1>4. ASSUME NEW h \in Handles
      PROVE  owner'[h] = owner[h] \/ Ownership!Moves(owner[h], owner'[h])
  <2>1. OwnerIs(h) /\ OwnerIs(h)' /\ ChunkInv(h) /\ ChunkInv(h)' /\ <<0, h>> \in Headers
    BY <1>2, <1>3, HeaderOf DEF TransferIInv
  <2>2. \A m \in Messages : Home[m] \in Processes
    BY TransferAssumption
  <2>3. CASE Keeps(<<0, h>>)
    BY <2>1, <2>3, KeptMoves
  <2>4. CASE ~Keeps(<<0, h>>) /\ Allocates
    <3>1. PICK m \in Messages, g \in Handles \ allocated : Takes(m, <<0, g>>) /\ allocated' = allocated \cup {g}
      BY <2>4 DEF Allocates
    <3>2. g = h
      BY <2>1, <2>4, <3>1, HeadersApart DEF Takes
    <3>3. owner[h] = "free"
      BY <2>1, <3>2 DEF OwnerIs
    <3>4. owner'[h] = Home[m]
      BY <2>1, <3>1, <3>2 DEF OwnerIs, Takes
    <3>5. QED
      BY <2>2, <3>3, <3>4 DEF Ownership!Moves
  <2>5. CASE ~Keeps(<<0, h>>) /\ Deallocates
    <3>1. PICK m \in Messages, g \in Nat : Drops(m, <<0, g>>) /\ allocated' = allocated \ {g}
      BY <2>5 DEF Deallocates
    <3>2. g = h
      BY <2>1, <2>5, <3>1, HeadersApart DEF Drops
    <3>3. HoldsBody(m, <<0, h>>) /\ h \in allocated
      BY <2>1, <3>1, <3>2 DEF Drops, ChunkInv, Owned
    <3>4. owner[h] = Home[m] /\ owner'[h] = "free"
      BY <2>1, <3>1, <3>2, <3>3 DEF OwnerIs
    <3>5. QED
      BY <2>2, <3>4 DEF Ownership!Moves
  <2>6. Keeps(<<0, h>>) \/ Allocates \/ Deallocates
    BY <1>1, <2>1, HeadersApart
    DEF Shape, PassesOn, RegionStep, KeepsAll, Fills, Acknowledges, Takes, Drops
  <2>7. QED
    BY <2>3, <2>4, <2>5, <2>6
<1>5. QED
  BY <1>3, <1>4 DEF Ownership!Next

-----------------------------------------------------------------------------
\* SendImpl, ReceiveImpl, CloseMessage, InitializeChunk: for any numbers of processes,
\* messages, chunks and blocks and any room on the wire, every chunk in use has one
\* owner and a free one has none, as long as a message object has one body in its life.
THEOREM ChunkHasOneOwner == ~Reuse => (Spec => []OneOwner)
<1>1. Init => TransferIInv
  BY TransferIInvInit
<1>2. ~Reuse /\ TransferIInv /\ [Next]_vars => TransferIInv'
  BY TransferIInvStep
<1>3. TransferIInv => OneOwner
  BY TransferIInvOwner
<1>4. CASE ~Reuse
  <2>1. TransferIInv /\ [Next]_vars => TransferIInv'
    BY <1>2, <1>4
  <2>2. QED
    BY <1>1, <1>3, <2>1, PTL DEF Spec
<1>5. QED
  BY <1>4

\* FairMQUnmanagedRegion: for any numbers of these and any blocks, ReceiveAcks gives a
\* block back to the application only when no message and no header on its way has it.
THEOREM BlockHasOneOwner == ~Reuse => (Spec => []BlockOneOwner)
<1>1. Init => TransferIInv
  BY TransferIInvInit
<1>2. ~Reuse /\ TransferIInv /\ [Next]_vars => TransferIInv'
  BY TransferIInvStep
<1>3. TransferIInv => BlockOneOwner
  BY BlockCount, TransferAssumption DEF AllCountedOnce, CountedOnce, BlockOneOwner
<1>4. CASE ~Reuse
  <2>1. TransferIInv /\ [Next]_vars => TransferIInv'
    BY <1>2, <1>4
  <2>2. QED
    BY <1>1, <1>3, <2>1, PTL DEF Spec
<1>5. QED
  BY <1>4

\* CloseMessage, ReceiveAcks, GetData, Manager::Resume: no step loses a block of a region
\* that exists while no process is interrupted, however full the queue is, unless Resume
\* has erased the region from under the pointer of the message that holds the block.
THEOREM NoBlockIsLost == ~Reuse => (Spec => BlocksKept)
<1> DEFINE Kept == region = "exists" /\ region' = "exists" /\ fInterrupted = {} =>
                       \A b \in Blocks :
                           \/ BlockOwners(b)' = BlockOwners(b)
                           \/ \E m \in Holders(<<1, b>>) : fRegionPtr[m] = "dangling"
<1>1. Init => TransferIInv
  BY TransferIInvInit
<1>2. ~Reuse /\ TransferIInv /\ [Next]_vars => TransferIInv'
  BY TransferIInvStep
<1>3. ~Reuse /\ TransferIInv /\ TransferIInv' /\ [Next]_vars => Kept
  <2> SUFFICES ASSUME ~Reuse, TransferIInv, TransferIInv', [Next]_vars,
                      region = "exists", region' = "exists", fInterrupted = {}, NEW b \in Blocks,
                      \A m \in Holders(<<1, b>>) : fRegionPtr[m] # "dangling"
               PROVE  BlockOwners(b)' = BlockOwners(b)
    OBVIOUS
  <2>1. b \in Nat /\ <<1, b>> \in Headers
    BY TransferAssumption, HeaderOf
  <2>2. Tracked(b)
    BY <2>1, HoldersOf DEF Tracked
  <2>3. QED
    BY <2>1, <2>2, BlocksKeptStep
<1>4. CASE ~Reuse
  <2>1. TransferIInv /\ [Next]_vars => TransferIInv'
    BY <1>2, <1>4
  <2>2. TransferIInv /\ TransferIInv' /\ [Next]_vars => [Kept]_vars
    BY <1>3, <1>4
  <2> HIDE DEF Kept
  <2>3. Spec => [][Kept]_vars
    BY <1>1, <2>1, <2>2, PTL DEF Spec
  <2>4. QED
    BY <2>3 DEF BlocksKept, Kept
<1>5. QED
  BY <1>4

\* The messages and sockets implement ChunkOwnership for any numbers of processes,
\* messages and chunks: a chunk is allocated, sent, received and deallocated, and never
\* goes from a process to another without the transport, or from the wire to nobody.
THEOREM ImplementsOwnership == ~Reuse => (Spec => OwnershipSpec)
<1>1. Init => TransferIInv
  BY TransferIInvInit
<1>2. Init => Ownership!Init
  BY DEF Init, owner, Ownership!Init
<1>3. ~Reuse /\ TransferIInv /\ [Next]_vars => TransferIInv'
  BY TransferIInvStep
<1>4. ~Reuse /\ TransferIInv /\ TransferIInv' /\ [Next]_vars => Ownership!Next
  BY OwnershipStep
<1>5. CASE ~Reuse
  <2>1. TransferIInv /\ [Next]_vars => TransferIInv'
    BY <1>3, <1>5
  <2>2. TransferIInv /\ TransferIInv' /\ [Next]_vars => [Ownership!Next]_owner
    BY <1>4, <1>5
  <2>3. QED
    BY <1>1, <1>2, <2>1, <2>2, PTL DEF Spec, OwnershipSpec, Ownership!Spec
<1>6. QED
  BY <1>5
=============================================================================
