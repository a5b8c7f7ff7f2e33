------------------------ MODULE FileTransferProofs ------------------------
(***************************************************************************)
(* FileTransfer.tla for any number of transfers, any lengths and any order *)
(* and repetition of deliveries: what is kept is what was sent, reassembly *)
(* itself never spoils a file, a .part file holds the chunks counted as    *)
(* received, and without restarts no file is kept twice.                   *)
(***************************************************************************)
EXTENDS FileTransfer, FiniteSetTheorems, TLAPS

USE TransfersAssumption, LengthsAssumption, BoundsAssumption
USE DEF Meta

\* Offering a file keeps the types: what an idle sender becomes is one of its
\* states, and only a meta message is published.
LEMMA OfferTyped ==
  ASSUME TypeOK, NEW t \in Transfers, Offer(t)
  PROVE  TypeOK'
<1> USE DEF TypeOK, SenderState, receiver
<1>1. ASSUME NEW l \in Lengths PROVE l[1] \in 0 .. MaxChunks /\ l[2] \in 0 .. MaxChunks
  OBVIOUS
<1>2. \A l \in Lengths :
        [st |-> "sending", size |-> l[1], total |-> l[2], next |-> 0] \in SenderState
  BY <1>1
<1>3. sender' \in [Transfers -> SenderState]
  <2>1. CASE sender' = [sender EXCEPT ![t].st = "refused"]
    BY <2>1
  <2>2. ASSUME NEW s \in SenderState, sender' = [sender EXCEPT ![t] = s]
        PROVE  sender' \in [Transfers -> SenderState]
    <3> HIDE DEF SenderState
    <3> QED BY <2>2
  <2> QED BY <1>2, <2>1, <2>2 DEF Offer
<1>4. net' \subseteq [tr : Transfers, index : Meta .. MaxChunks]
  BY DEF Offer, Message
<1>5. QED
  BY <1>3, <1>4 DEF Offer

\* Ending a transfer keeps the types of the receiver's tables.
LEMMA FinalizeTyped ==
  ASSUME TypeOK, NEW t \in Transfers, NEW c, Finalize(t, c)
  PROVE  /\ transfers' \in [Transfers -> SUBSET (Meta .. MaxChunks)]
         /\ finished' \subseteq Transfers
         /\ part' = [u \in Transfers |-> part'[u]]
         /\ reported' \in [Transfers -> SUBSET {"saved", "discarded", "refused"}]
<1> USE DEF TypeOK
<1>1. NotTracked \in SUBSET (Meta .. MaxChunks)
  BY DEF NotTracked
<1>2. transfers' \in [Transfers -> SUBSET (Meta .. MaxChunks)]
  BY <1>1 DEF Finalize
<1>3. finished' \subseteq Transfers /\ part' = [u \in Transfers |-> part'[u]]
  BY DEF Finalize, Remember
<1>4. reported' \in [Transfers -> SUBSET {"saved", "discarded", "refused"}]
  BY DEF Finalize, Keep, Discard
<1>5. QED
  BY <1>2, <1>3, <1>4

\* Handling a message keeps the types, whatever it comes to.
LEMMA DeliverTyped ==
  ASSUME TypeOK, NEW m \in net, NEW acked \in BOOLEAN, Deliver(m, acked)
  PROVE  TypeOK'
<1> USE DEF TypeOK, receiver
<1>1. m.tr \in Transfers /\ m.index \in Meta .. MaxChunks
  OBVIOUS
<1>a. early' \subseteq Transfers
  BY <1>1 DEF Deliver
<1>2. CASE UNCHANGED receiver
  BY <1>1, <1>2 DEF Deliver
<1>3. CASE Refuse(m.tr)
  BY <1>1, <1>3 DEF Deliver, Refuse
<1>4. CASE Track(m.tr)
  <2>1. part' = [t \in Transfers |-> part'[t]]
    BY <1>4 DEF Track
  <2>2. transfers' \in [Transfers -> SUBSET (Meta .. MaxChunks)]
    BY <1>4 DEF Track
  <2>3. QED
    BY <1>1, <1>4, <2>1, <2>2 DEF Deliver, Track
<1>5. CASE m.index # Meta /\ Store(m.tr, m.index)
  BY <1>1, <1>5 DEF Deliver, Store
<1>6. ASSUME NEW c, Finalize(m.tr, c) PROVE TypeOK'
  BY <1>1, <1>6, FinalizeTyped DEF Deliver
<1>7. QED
  BY <1>2, <1>3, <1>4, <1>5, <1>6 DEF Deliver, HandleMeta, HandleChunk

\* TypeOK is an invariant of sender, broker and receiver.
THEOREM TypeCorrect == Spec => []TypeOK
<1>1. Init => TypeOK
  BY DEF Init, TypeOK, Idle, SenderState, NotTracked
<1>2. ASSUME TypeOK, [Next]_vars PROVE TypeOK'
  <2>1. ASSUME UNCHANGED vars \/ Restart PROVE TypeOK'
    BY <1>2, <2>1 DEF TypeOK, SenderState, receiver, vars, Restart, NotTracked
  <2>2. ASSUME NEW t \in Transfers, SendChunk(t) PROVE TypeOK'
    BY <1>2, <2>2 DEF TypeOK, SenderState, receiver, SendChunk, Message
  <2>3. QED
    BY <1>2, <2>1, <2>2, OfferTyped, DeliverTyped DEF Next
<1>3. QED
  BY <1>1, <1>2, PTL DEF Spec

-----------------------------------------------------------------------------
\* Only chunks that the sender's loop has reached are in the broker's hands.
Queue == \A m \in net : sender[m.tr].st = "sending" /\ m.index < sender[m.tr].next

\* A transfer on offer has a length; one that is not has sent nothing.
Senders ==
  \A t \in Transfers :
    /\ sender[t].next <= sender[t].total
    /\ sender[t].st = "sending" => sender[t].size > 0
    /\ sender[t].st # "sending" => sender[t].size = 0 /\ sender[t].total = 0

\* Transfer t under way: the .part file is as long as announced or as written,
\* and holds the chunks received, each at its place.
Consistent(t) ==
  /\ sender[t].st = "sending"
  /\ transfers[t] \subseteq 0 .. sender[t].next - 1
  /\ transfers[t] \subseteq DOMAIN part[t]
  /\ 0 .. sender[t].size - 1 \subseteq DOMAIN part[t]
  /\ DOMAIN part[t] \subseteq 0 .. sender[t].size - 1 \cup 0 .. sender[t].total - 1
  /\ \A k \in DOMAIN part[t] :
       part[t][k] = IF k \in transfers[t] THEN <<t, k>> ELSE Zeros

Reassembly == \A t \in Transfers : transfers[t] # NotTracked => Consistent(t)

Kept ==
  \A p \in DOMAIN saved : saved[p] = Theirs \/
    \E t \in Transfers : /\ sender[t].st = "sending"
                         /\ Filename[t] = p[1]
                         /\ saved[p] = Data(t)

\* The inductive invariant.
TransferInv ==
  TypeOK /\ Queue /\ Senders /\ Reassembly /\ Kept /\ DiscardedOnlyIfShrunk

\* When the last missing chunk arrives and the file did not shrink, the .part
\* file is the file that was sent.
LEMMA CompleteContents ==
  ASSUME TypeOK, Senders, NEW t \in Transfers, Consistent(t),
         NEW i \in 0 .. sender[t].next - 1, Complete(t, i),
         sender[t].size <= sender[t].total
  PROVE  Contents(t, i) = Data(t)
<1> DEFINE n == sender[t].total
           all == transfers[t] \cup {i}
<1>1. /\ n \in Nat /\ sender[t].size \in Nat /\ sender[t].next \in 0 .. n
      /\ all \subseteq 0 .. n - 1
  BY DEF TypeOK, SenderState, Senders, Consistent
<1>2. IsFiniteSet(0 .. n - 1) /\ Cardinality(0 .. n - 1) = n
  <2>1. 0 \in Int /\ n - 1 \in Int
    BY <1>1
  <2>2. IsFiniteSet(0 .. n - 1) /\ Cardinality(0 .. n - 1) = IF 0 > n - 1 THEN 0 ELSE (n - 1) - 0 + 1
    BY ONLY <2>1, FS_Interval, Zenon
  <2>3. QED
    BY <1>1, <2>2
<1>3. all = 0 .. n - 1
  BY <1>1, <1>2, FS_Subset DEF Complete
<1>4. DOMAIN part[t] \cup 0 .. i = 0 .. n - 1
  BY <1>1, <1>3 DEF Consistent
<1>5. \A k \in 0 .. n - 1 : Contents(t, i)[k] = <<t, k>>
  BY <1>1, <1>3, <1>4 DEF Contents, WriteAt, Consistent
<1>6. QED
  BY <1>4, <1>5 DEF Contents, WriteAt, Data

\* Storing a chunk keeps the .part file consistent.
LEMMA StoreConsistent ==
  ASSUME TypeOK, Senders, NEW t \in Transfers, Consistent(t),
         NEW i \in 0 .. sender[t].next - 1, Store(t, i), UNCHANGED sender
  PROVE  Consistent(t)'
<1>1. /\ transfers'[t] = transfers[t] \cup {i}
      /\ part'[t] = Contents(t, i)
  BY DEF Store, TypeOK
<1>2. /\ sender[t].total \in Nat /\ sender[t].size \in Nat
      /\ sender[t].next \in 0 .. sender[t].total
  BY DEF TypeOK, SenderState, Senders
<1>3. DOMAIN part'[t] = DOMAIN part[t] \cup 0 .. i
  BY <1>1 DEF Contents, WriteAt
<1>4. \A k \in DOMAIN part'[t] :
        part'[t][k] = IF k \in transfers'[t] THEN <<t, k>> ELSE Zeros
  BY <1>1, <1>3 DEF Contents, WriteAt, Consistent
<1>5. QED
  BY <1>1, <1>2, <1>3, <1>4 DEF Consistent

\* A delivery does not concern the sender.
LEMMA DeliverKeepsQueue ==
  ASSUME TypeOK, Queue, Senders, NEW m \in net, NEW acked \in BOOLEAN, Deliver(m, acked)
  PROVE  Queue' /\ Senders'
BY DEF Deliver, Queue, Senders

\* Publishing a meta message concerns no transfer under way.
LEMMA OfferKeepsInv ==
  ASSUME TypeOK, TypeOK', TransferInv, NEW t \in Transfers, Offer(t)
  PROVE  TransferInv'
<1> USE DEF TransferInv, receiver
<1>1. /\ sender[t].st = "idle"
      /\ \A u \in Transfers : u # t => sender'[u] = sender[u]
      /\ UNCHANGED <<transfers, part, saved, reported>>
  BY DEF Offer, TypeOK
<1>2. PICK l \in Lengths :
         \/ /\ sender'[t] = [sender[t] EXCEPT !.st = "refused"]
            /\ net' = net
         \/ /\ l[1] # 0
            /\ sender'[t] = [st |-> "sending", size |-> l[1], total |-> l[2], next |-> 0]
            /\ net' = net \cup {Message(t, Meta)}
  BY DEF Offer, TypeOK
<1>3. l[1] \in Nat /\ l[2] \in Nat
  OBVIOUS
<1>4. sender[t] \in SenderState /\ sender[t].size = 0 /\ sender[t].total = 0
  BY <1>1 DEF TypeOK, Senders
<1>5. Queue'
  <2>1. \A m \in net : m.tr \in Transfers /\ m.tr # t
    BY <1>1 DEF TypeOK, Queue
  <2>2. \A m \in net : sender'[m.tr] = sender[m.tr]
    BY <1>1, <2>1
  <2>3. QED
    BY <1>2, <2>2 DEF Queue, Message
<1>6. Senders'
  BY <1>1, <1>2, <1>3, <1>4 DEF Senders, SenderState
<1>7. Reassembly'
  <2> SUFFICES ASSUME NEW u \in Transfers, transfers[u] # NotTracked PROVE Consistent(u)'
    BY <1>1 DEF Reassembly, NotTracked
  <2>1. Consistent(u) /\ u # t
    BY <1>1 DEF Reassembly, Consistent
  <2>2. QED
    BY <1>1, <2>1 DEF Consistent
<1>8. Kept'
  <2> SUFFICES ASSUME NEW p \in DOMAIN saved, saved[p] # Theirs
               PROVE  \E u \in Transfers : /\ sender'[u].st = "sending"
                                           /\ Filename[u] = p[1]
                                           /\ saved[p] = Data(u)'
    BY <1>1 DEF Kept, Theirs
  <2>1. PICK u \in Transfers :
          sender[u].st = "sending" /\ Filename[u] = p[1] /\ saved[p] = Data(u)
    BY DEF Kept
  <2>2. sender'[u] = sender[u]
    BY <1>1, <2>1
  <2>3. QED
    BY <2>1, <2>2 DEF Data
<1>9. DiscardedOnlyIfShrunk'
  BY <1>1, <1>3, <1>4 DEF DiscardedOnlyIfShrunk
<1>10. QED
  BY <1>5, <1>6, <1>7, <1>8, <1>9

\* Publishing a chunk only moves the sender's loop on.
LEMMA SendChunkKeepsInv ==
  ASSUME TypeOK, TypeOK', TransferInv, NEW t \in Transfers, SendChunk(t)
  PROVE  TransferInv'
<1> USE DEF TransferInv, receiver
<1>1. /\ sender[t].st = "sending"
      /\ sender[t].next \in Nat /\ sender[t].total \in Nat
      /\ sender[t].next < sender[t].total
      /\ sender'[t].next = sender[t].next + 1
      /\ \A u \in Transfers : u # t => sender'[u] = sender[u]
      /\ net' = net \cup {Message(t, sender[t].next)}
      /\ UNCHANGED <<transfers, part, saved, reported>>
  BY DEF SendChunk, TypeOK, SenderState
<1>2. \A u \in Transfers :
        /\ sender'[u].st = sender[u].st
        /\ sender'[u].size = sender[u].size
        /\ sender'[u].total = sender[u].total
        /\ sender[u].total \in Nat
        /\ sender'[u].next \in Nat /\ sender[u].next \in Nat /\ sender'[u].next >= sender[u].next
  BY <1>1 DEF TypeOK, SenderState, SendChunk
<1>3. Queue'
  <2>1. \A m \in net : m.tr \in Transfers /\ m.index \in Int
    BY DEF TypeOK
  <2>2. \A m \in net : sender'[m.tr].st = "sending" /\ m.index < sender'[m.tr].next
    BY <1>2, <2>1 DEF Queue
  <2>3. sender'[t].st = "sending" /\ sender[t].next < sender'[t].next
    BY <1>1, <1>2
  <2>4. QED
    BY <1>1, <2>2, <2>3 DEF Queue, Message
<1>4. Senders'
  <2> SUFFICES ASSUME NEW u \in Transfers
               PROVE  /\ sender'[u].next <= sender'[u].total
                      /\ sender'[u].st = "sending" => sender'[u].size > 0
                      /\ sender'[u].st # "sending" => sender'[u].size = 0 /\ sender'[u].total = 0
    BY DEF Senders
  <2>1. CASE u = t
    BY <1>1, <1>2, <2>1 DEF Senders
  <2>2. CASE u # t
    BY <1>1, <1>2, <2>2 DEF Senders
  <2>3. QED
    BY <2>1, <2>2
<1>5. Reassembly'
  <2> SUFFICES ASSUME NEW u \in Transfers, transfers[u] # NotTracked PROVE Consistent(u)'
    BY <1>1 DEF Reassembly, NotTracked
  <2>1. Consistent(u)
    BY DEF Reassembly
  <2>2. QED
    BY <1>1, <1>2, <2>1 DEF Consistent
<1>6. Kept'
  <2>1. \A u \in Transfers : Data(u)' = Data(u)
    BY <1>2 DEF Data
  <2>2. QED
    BY <1>1, <1>2, <2>1 DEF Kept, Theirs
<1>7. DiscardedOnlyIfShrunk'
  BY <1>1, <1>2 DEF DiscardedOnlyIfShrunk
<1>8. QED
  BY <1>3, <1>4, <1>5, <1>6, <1>7

\* Handling a message keeps the invariant: the case of each way handle_meta
\* and handle_chunk can go.
LEMMA DeliverKeepsInv ==
  ASSUME TypeOK, TypeOK', TransferInv, NEW m \in net, NEW acked \in BOOLEAN, Deliver(m, acked)
  PROVE  TransferInv'
<1> DEFINE t == m.tr
           i == m.index
<1> USE DEF TransferInv
<1>1. t \in Transfers /\ i \in Int /\ i < sender[t].next /\ sender[t].st = "sending"
  BY DEF TypeOK, Queue
<1>2. sender' = sender /\ \A u : Data(u)' = Data(u)
  BY DEF Deliver, Data
<1>3. Queue' /\ Senders'
  BY DeliverKeepsQueue
<1>4. ASSUME UNCHANGED <<transfers, part>> PROVE Reassembly'
  BY <1>2, <1>4 DEF Reassembly, Consistent, NotTracked
<1>5. ASSUME UNCHANGED saved PROVE Kept'
  BY <1>2, <1>5 DEF Kept, Theirs
<1>6. ASSUME \A u \in Transfers : "discarded" \in reported'[u] => "discarded" \in reported[u]
      PROVE  DiscardedOnlyIfShrunk'
  BY <1>2, <1>6 DEF DiscardedOnlyIfShrunk
<1>7. ASSUME NEW s \in Transfers, Consistent(s)' \/ transfers'[s] = NotTracked,
             \A u \in Transfers : u # s => transfers'[u] = transfers[u] /\ part'[u] = part[u]
      PROVE  Reassembly'
  <2> SUFFICES ASSUME NEW u \in Transfers, transfers'[u] # NotTracked PROVE Consistent(u)'
    BY DEF Reassembly, NotTracked
  <2>1. CASE u = s
    BY <1>7, <2>1
  <2>2. CASE u # s
    BY <1>2, <1>7, <2>2 DEF Reassembly, Consistent
  <2>3. QED
    BY <2>1, <2>2
<1>8. CASE UNCHANGED receiver
  BY <1>3, <1>4, <1>5, <1>6, <1>8 DEF receiver
<1>9. CASE Refuse(t)
  <2>1. \A u \in Transfers : "discarded" \in reported'[u] => "discarded" \in reported[u]
    BY <1>1, <1>9 DEF Refuse, TypeOK
  <2>2. QED
    BY <1>3, <1>4, <1>5, <1>6, <1>9, <2>1 DEF Refuse
<1>10. CASE Track(t)
  <2>1. /\ transfers'[t] = {}
        /\ part'[t] = [k \in 0 .. sender[t].size - 1 |-> Zeros]
        /\ \A u \in Transfers : u # t => transfers'[u] = transfers[u] /\ part'[u] = part[u]
    BY <1>1, <1>10 DEF Track, TypeOK
  <2>2. Consistent(t)'
    BY <1>1, <1>2, <2>1 DEF Consistent
  <2>3. Reassembly'
    BY <1>1, <1>7, <2>1, <2>2
  <2>4. QED
    BY <1>3, <1>5, <1>6, <1>10, <2>3 DEF Track
<1>11. CASE i # Meta /\ Wanted(t, i) /\ Store(t, i)
  <2>1. i \in 0 .. sender[t].next - 1
    BY <1>1, <1>11 DEF TypeOK, SenderState
  <2>2. Consistent(t)
    BY <1>1, <1>11 DEF Wanted, Reassembly
  <2>3. Consistent(t)'
    BY <1>1, <1>2, <1>11, <2>1, <2>2, StoreConsistent
  <2>4. \A u \in Transfers : u # t => transfers'[u] = transfers[u] /\ part'[u] = part[u]
    BY <1>11 DEF Store, TypeOK
  <2>5. Reassembly'
    BY <1>1, <1>7, <2>3, <2>4
  <2>6. QED
    BY <1>3, <1>5, <1>6, <1>11, <2>5 DEF Store
<1>12. CASE i # Meta /\ Wanted(t, i) /\ Complete(t, i) /\ Finalize(t, Contents(t, i))
  <2>1. i \in 0 .. sender[t].next - 1
    BY <1>1, <1>12 DEF TypeOK, SenderState
  <2>2. Consistent(t)
    BY <1>1, <1>12 DEF Wanted, Reassembly
  <2>3. Reassembly'
    <3>1. /\ transfers'[t] = NotTracked
          /\ \A u \in Transfers : u # t => transfers'[u] = transfers[u] /\ part'[u] = part[u]
      BY <1>1, <1>12 DEF Finalize, TypeOK
    <3>2. QED
      BY <1>1, <1>7, <3>1
  <2>4. CASE Keep(t, Contents(t, i))
    <3>1. PICK n \in 0 .. MaxCopies : saved' = SavedAs(<<Filename[t], n>>, Data(t))
      BY <2>4 DEF Keep, HashMatches
    <3>2. \A p \in DOMAIN saved' :
            saved'[p] = IF p = <<Filename[t], n>> THEN Data(t) ELSE saved[p]
      BY <3>1 DEF SavedAs
    <3>3. \A p \in DOMAIN saved' : p # <<Filename[t], n>> => p \in DOMAIN saved
      BY <3>1 DEF SavedAs
    <3>4. <<Filename[t], n>>[1] = Filename[t]
      OBVIOUS
    <3>5. Kept'
      BY <1>1, <1>2, <3>2, <3>3, <3>4 DEF Kept, Theirs
    <3>6. \A u \in Transfers : "discarded" \in reported'[u] => "discarded" \in reported[u]
      BY <1>1, <2>4 DEF Keep, TypeOK
    <3>7. QED
      BY <1>3, <1>6, <2>3, <3>5, <3>6
  <2>5. CASE Discard(t, Contents(t, i))
    <3>1. sender[t].total < sender[t].size
      <4>1. ~(sender[t].size <= sender[t].total)
        BY <1>1, <1>12, <2>1, <2>2, <2>5, CompleteContents DEF Discard, HashMatches
      <4>2. QED
        BY <1>1, <4>1 DEF TypeOK, SenderState
    <3>2. DiscardedOnlyIfShrunk'
      BY <1>1, <1>2, <2>5, <3>1 DEF Discard, DiscardedOnlyIfShrunk, TypeOK
    <3>3. QED
      BY <1>3, <1>5, <2>3, <2>5, <3>2 DEF Discard
  <2>6. QED
    BY <1>12, <2>4, <2>5 DEF Finalize
<1>13. QED
  BY <1>8, <1>9, <1>10, <1>11, <1>12 DEF Deliver, HandleMeta, HandleChunk

\* TransferInv is inductive: it holds in every state of every behaviour.
THEOREM TransferInvariant == Spec => []TransferInv
<1>1. Init => Queue /\ Senders /\ Reassembly /\ Kept /\ DiscardedOnlyIfShrunk
  BY DEF Init, Queue, Senders, Idle, Reassembly, Kept, DiscardedOnlyIfShrunk
<1>2. ASSUME TypeOK, TypeOK', TransferInv, [Next]_vars PROVE TransferInv'
  <2>1. CASE Restart
    BY <1>2, <2>1 DEF Restart, TransferInv, Queue, Senders, Reassembly, Kept, Data,
                      DiscardedOnlyIfShrunk, NotTracked, Theirs
  <2>2. CASE UNCHANGED vars
    BY <1>2, <2>2 DEF vars, TransferInv, Queue, Senders, Reassembly, Consistent, Kept, Data,
                      DiscardedOnlyIfShrunk, NotTracked, Theirs
  <2>3. QED
    BY <1>2, <2>1, <2>2, OfferKeepsInv, SendChunkKeepsInv, DeliverKeepsInv DEF Next
<1>3. QED
  BY <1>1, <1>2, TypeCorrect, PTL DEF Spec, TransferInv

\* A file the receiver keeps is one that was sent under that name.
THEOREM SavedFilesAreGenuine == Spec => []SavedIsGenuine
<1>1. TransferInv => SavedIsGenuine
  BY DEF TransferInv, Kept, SavedIsGenuine
<1>2. QED
  BY <1>1, TransferInvariant, PTL

\* A checksum mismatch is only ever the fault of a file that shrank.
THEOREM ReassemblyNeverSpoils == Spec => []DiscardedOnlyIfShrunk
<1>1. TransferInv => DiscardedOnlyIfShrunk
  BY DEF TransferInv
<1>2. QED
  BY <1>1, TransferInvariant, PTL

\* No step replaces a file of the downloads directory.
THEOREM SavedFilesAreNeverReplaced == Spec => NoOverwrite
<1> DEFINE Stays == \A p \in DOMAIN saved : p \in DOMAIN saved' /\ saved'[p] = saved[p]
<1>1. ASSUME NEW t, NEW c, Keep(t, c) PROVE Stays
  BY <1>1 DEF Keep, FirstFree, SavedAs
<1>2. [Next]_vars => Stays
  BY <1>1 DEF Next, Offer, SendChunk, Deliver, HandleMeta, HandleChunk, Finalize, Discard,
              Refuse, Track, Store, Restart, receiver, vars
<1>3. QED
  BY <1>2, PTL DEF Spec, NoOverwrite
-----------------------------------------------------------------------------
\* A transfer that no restart has interrupted leaves no .part file behind, and
\* one that ended is not under way again.
NoneLeftBehind ==
  /\ restarts = 0 => \A t \in Transfers : transfers[t] = NotTracked => part[t] = NoFile
  /\ \A t \in Transfers : transfers[t] # NotTracked => t \notin finished

\* Each step of the receiver opens, moves on or closes one transfer, or does
\* nothing.
LEMMA ReceiverStep ==
  ASSUME TransferInv, NEW m \in net, NEW acked \in BOOLEAN, Deliver(m, acked)
  PROVE  \/ UNCHANGED <<transfers, finished, part, saved>>
         \/ Accepts(m.tr) /\ Track(m.tr)
         \/ transfers[m.tr] # NotTracked /\ m.index # Meta /\ Store(m.tr, m.index)
         \/ /\ transfers[m.tr] # NotTracked /\ m.index \in 0 .. sender[m.tr].next - 1
            /\ Finalize(m.tr, Contents(m.tr, m.index))
<1>1. m.tr \in Transfers /\ m.index \in Meta .. MaxChunks /\ m.index < sender[m.tr].next
  BY DEF TransferInv, TypeOK, Queue
<1>2. m.index # Meta => m.index \in 0 .. sender[m.tr].next - 1
  BY <1>1 DEF TransferInv, TypeOK, SenderState
<1>3. QED
  BY <1>1, <1>2 DEF Deliver, HandleMeta, HandleChunk, Wanted, Refuse, receiver

\* No step leaves a .part file behind or takes up a transfer that ended.
LEMMA NoneLeftBehindStep ==
  ASSUME TransferInv, NoneLeftBehind, [Next]_vars
  PROVE  NoneLeftBehind'
<1> USE DEF NoneLeftBehind
<1>1. CASE UNCHANGED <<transfers, finished, part, restarts>>
  BY <1>1 DEF NotTracked, NoFile
<1>2. CASE Restart
  BY <1>2 DEF Restart, TransferInv, TypeOK, NotTracked
<1>3. ASSUME NEW m \in net, NEW acked \in BOOLEAN, Deliver(m, acked) PROVE NoneLeftBehind'
  <2> DEFINE t == m.tr
  <2>1. t \in Transfers /\ restarts' = restarts
    BY <1>3 DEF TransferInv, TypeOK, Deliver
  <2>2. CASE UNCHANGED <<transfers, finished, part, saved>>
    BY <1>1, <2>1, <2>2
  <2>3. CASE Accepts(t) /\ Track(t)
    BY <2>1, <2>3 DEF Accepts, Track, TransferInv, TypeOK, NotTracked, NoFile
  <2>4. CASE transfers[t] # NotTracked /\ m.index # Meta /\ Store(t, m.index)
    <3>1. transfers' = [transfers EXCEPT ![t] = @ \cup {m.index}] /\ finished' = finished
      BY <2>4 DEF Store
    <3>2. \A u \in Transfers : u # t => transfers'[u] = transfers[u] /\ part'[u] = part[u]
      BY <2>4, <3>1 DEF Store, TransferInv, TypeOK
    <3>3. transfers'[t] # NotTracked
      BY <2>1, <2>4, <3>1 DEF TransferInv, TypeOK, NotTracked
    <3>4. QED
      BY <2>1, <2>4, <3>1, <3>2, <3>3 DEF NotTracked, NoFile
  <2>5. ASSUME NEW c, Finalize(t, c) PROVE NoneLeftBehind'
    BY <2>1, <2>5 DEF Finalize, Remember, TransferInv, TypeOK, NotTracked, NoFile
  <2>6. QED
    BY <1>3, <2>2, <2>3, <2>4, <2>5, ReceiverStep
<1>4. QED
  BY <1>1, <1>2, <1>3 DEF Next, vars, Offer, SendChunk, receiver

\* A .part file always holds the chunks noted as received, each at its place,
\* and none is left without its transfer.
THEOREM PartFilesMatch == Spec => []PartMatchesReceived
<1>1. Init => NoneLeftBehind
  BY DEF Init, NoneLeftBehind, NotTracked, NoFile
<1>2. TransferInv /\ NoneLeftBehind => PartMatchesReceived
  BY DEF TransferInv, NoneLeftBehind, PartMatchesReceived, Reassembly, Consistent
<1>3. QED
  BY <1>1, <1>2, NoneLeftBehindStep, TransferInvariant, PTL DEF Spec

-----------------------------------------------------------------------------
\* What this receiver saved is a transfer it remembers as ended, and has at
\* least one chunk that tells it from any other.
SavedOfFinished ==
  \A p \in DOMAIN saved : saved[p] = Theirs \/
    \E t \in finished : sender[t].st = "sending" /\ sender[t].total > 0 /\ saved[p] = Data(t)

OnceInv == restarts = 0 => SavedOfFinished /\ SavedOnce

\* Files of two transfers differ.
LEMMA DataDiffers ==
  ASSUME NEW t \in Transfers, NEW u \in Transfers, t # u,
         sender[u].total \in Nat, sender[u].total > 0, Data(t) = Data(u)
  PROVE  FALSE
<1>1. 0 \in DOMAIN Data(u) /\ Data(u)[0] = <<u, 0>>
  BY DEF Data
<1>2. 0 \in DOMAIN Data(t) /\ Data(t)[0] = <<u, 0>>
  BY <1>1
<1>3. Data(t)[0] = <<t, 0>>
  BY <1>2 DEF Data
<1>4. QED
  BY <1>2, <1>3

\* The file of the transfer that ends takes a free path, and no other path
\* holds it.
LEMMA KeepOnce ==
  ASSUME TransferInv, NEW t \in Transfers, t \notin finished, SavedOfFinished, SavedOnce,
         restarts = 0, sender[t].st = "sending", sender[t].total > 0,
         NEW c, Keep(t, c), finished' = finished \cup {t}, UNCHANGED sender
  PROVE  SavedOfFinished' /\ SavedOnce'
<1>1. PICK n \in 0 .. MaxCopies :
        <<Filename[t], n>> \notin DOMAIN saved /\ saved' = SavedAs(<<Filename[t], n>>, Data(t))
  BY DEF Keep, HashMatches, FirstFree
<1> DEFINE path == <<Filename[t], n>>
<1>2. /\ DOMAIN saved' = DOMAIN saved \cup {path}
      /\ saved'[path] = Data(t)
      /\ \A p \in DOMAIN saved : p # path /\ saved'[p] = saved[p]
  BY <1>1 DEF SavedAs
<1> HIDE DEF path
<1>3. \A u : Data(u)' = Data(u)
  BY DEF Data
<1>4. \A p \in DOMAIN saved : saved[p] = Theirs \/ saved[p] # Data(t)
  <2> SUFFICES ASSUME NEW p \in DOMAIN saved, saved[p] # Theirs, saved[p] = Data(t) PROVE FALSE
    OBVIOUS
  <2>1. PICK u \in finished : sender[u].total > 0 /\ saved[p] = Data(u)
    BY DEF SavedOfFinished
  <2>2. u \in Transfers /\ u # t /\ sender[u].total \in Nat
    BY <2>1 DEF TransferInv, TypeOK, SenderState
  <2>3. QED
    BY <2>1, <2>2, DataDiffers
<1>5. SavedOfFinished'
  BY <1>2, <1>3 DEF SavedOfFinished, Theirs
<1>6. SavedOnce'
  BY <1>2, <1>4 DEF SavedOnce, Theirs
<1>7. QED
  BY <1>5, <1>6

\* No step keeps a file of a transfer that did not end, or a file twice.
LEMMA OnceStep ==
  ASSUME TransferInv, NoneLeftBehind, OnceInv, [Next]_vars
  PROVE  OnceInv'
<1>1. ASSUME \A t \in finished : sender[t].st = "sending" => sender'[t].st = "sending" /\ sender'[t].total = sender[t].total,
             finished \subseteq finished', UNCHANGED <<saved, restarts>>
      PROVE  OnceInv'
  <2>1. \A t \in finished : sender[t].st = "sending" => Data(t)' = Data(t)
    BY <1>1 DEF Data
  <2>2. QED
    BY <1>1, <2>1 DEF OnceInv, SavedOfFinished, SavedOnce, Theirs
<1>2. ASSUME NEW t \in Transfers, Offer(t) \/ SendChunk(t) PROVE OnceInv'
  <2>1. \A u \in Transfers : sender[u].st = "sending" =>
          sender'[u].st = "sending" /\ sender'[u].total = sender[u].total
    BY <1>2 DEF Offer, SendChunk, TransferInv, TypeOK, SenderState
  <2>2. finished \subseteq Transfers
    BY DEF TransferInv, TypeOK
  <2>3. QED
    BY <1>1, <1>2, <2>1, <2>2 DEF Offer, SendChunk, receiver
<1>3. CASE Restart
  BY <1>3 DEF Restart, OnceInv, TransferInv, TypeOK
<1>4. ASSUME NEW m \in net, NEW acked \in BOOLEAN, Deliver(m, acked) PROVE OnceInv'
  <2> DEFINE t == m.tr
  <2>1. t \in Transfers /\ sender[t].st = "sending" /\ UNCHANGED <<sender, restarts>>
    BY <1>4 DEF TransferInv, TypeOK, Queue, Deliver
  <2>2. CASE finished \subseteq finished' /\ UNCHANGED saved
    BY <1>1, <2>1, <2>2
  <2>3. ASSUME transfers[t] # NotTracked, m.index \in 0 .. sender[t].next - 1,
               Finalize(t, Contents(t, m.index))
        PROVE  OnceInv'
    <3>1. t \notin finished /\ finished' = finished \cup {t}
      BY <2>1, <2>3 DEF NoneLeftBehind, Finalize, Remember
    <3>2. sender[t].total > 0
      BY <2>1, <2>3 DEF TransferInv, TypeOK, SenderState, Senders
    <3>3. CASE Discard(t, Contents(t, m.index))
      BY <2>2, <3>1, <3>3 DEF Discard
    <3>4. CASE Keep(t, Contents(t, m.index))
      BY <2>1, <3>1, <3>2, <3>4, KeepOnce DEF OnceInv
    <3>5. QED
      BY <2>3, <3>3, <3>4 DEF Finalize
  <2>4. QED
    BY <1>4, <2>2, <2>3, ReceiverStep DEF Track, Store
<1>5. CASE UNCHANGED vars
  BY <1>1, <1>5 DEF vars
<1>6. QED
  BY <1>2, <1>3, <1>4, <1>5 DEF Next

\* Until the receiver is replaced, a transfer is saved once, however often its
\* meta message and its chunks come again.
THEOREM FilesAreSavedOnce == Spec => []SavedOnce
<1>1. Init => NoneLeftBehind /\ OnceInv
  BY DEF Init, NoneLeftBehind, OnceInv, SavedOfFinished, SavedOnce, NotTracked, NoFile
<1>2. OnceInv => SavedOnce
  BY DEF OnceInv, SavedOnce
<1>3. QED
  BY <1>1, <1>2, NoneLeftBehindStep, OnceStep, TransferInvariant, PTL DEF Spec
=============================================================================
