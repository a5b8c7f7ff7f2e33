--------------------------- MODULE FileTransfer ---------------------------
(***************************************************************************)
(* transfer.py: files sent in chunks through the relay and reassembled in  *)
(* .part files by one FileReceiver.  send_file publishes a meta message    *)
(* and then the chunks; the broker delivers each at least once (QoS 1).    *)
(* Lengths are counted in chunks and a chunk's bytes are abstracted to     *)
(* <<transfer, index>>; the SHA-256 of a file stands for its contents.     *)
(***************************************************************************)
EXTENDS Integers, FiniteSets

CONSTANTS
  Transfers,      \* transfer ids
  Addressed,      \* those sent by another device, to this one or to "*"
  Filename,       \* transfer -> file name
  MaxChunks,      \* bound: chunks of a file
  Lengths,        \* <<length at stat(), length at read_bytes()>> a file may have
  SenderLimit, ReceiverLimit,   \* max_file_size of the two configurations
  Existing,       \* paths <<name, n>> already in the downloads directory
  MaxCopies,      \* bound: " (n)" suffixes that _unique_path tries
  MaxRestarts     \* bound: times the receiver is recreated

ASSUME TransfersAssumption == Addressed \subseteq Transfers
ASSUME LengthsAssumption == Lengths \subseteq (0 .. MaxChunks) \X (0 .. MaxChunks)
ASSUME BoundsAssumption == MaxChunks \in Nat /\ MaxCopies \in Nat /\ MaxRestarts \in Nat

VARIABLES
  sender,         \* per transfer: [st, size, total, next] of send_file
  net,            \* messages published and not yet acknowledged
  early,          \* transfers of which a chunk was lost ahead of its meta message
  transfers,      \* _transfers: the indices received, or NotTracked
  finished,       \* _finished
  part,           \* the .part files: contents, or NoFile
  saved,          \* downloads directory: path -> contents
  reported,       \* what the callbacks said of each transfer
  restarts

vars == <<sender, net, early, transfers, finished, part, saved, reported, restarts>>
receiver == <<transfers, finished, part, saved, reported>>

Meta == -1                        \* index of the meta message
Message(t, i) == [tr |-> t, index |-> i]
NotTracked == {Meta}              \* no set of chunk indices
Zeros == <<"zeros">>
NoFile == <<>>                    \* no .part file (one that exists is not empty)
Theirs == <<"theirs">>            \* contents of the files in Existing

Idle == [st |-> "idle", size |-> 0, total |-> 0, next |-> 0]

Init ==
  /\ sender = [t \in Transfers |-> Idle]
  /\ net = {}
  /\ early = {}
  /\ transfers = [t \in Transfers |-> NotTracked]
  /\ finished = {}
  /\ part = [t \in Transfers |-> NoFile]
  /\ saved = [p \in Existing |-> Theirs]
  /\ reported = [t \in Transfers |-> {}]
  /\ restarts = 0

\* The file as send_file read it.
Data(t) == [k \in 0 .. sender[t].total - 1 |-> <<t, k>>]

-----------------------------------------------------------------------------
\* send_file up to the meta message: stat(), the two checks, read_bytes().
\* The file may change between the two system calls.
Offer(t) ==
  /\ sender[t].st = "idle"
  /\ \E l \in Lengths :
       \/ /\ l[1] > SenderLimit \/ l[1] = 0
          /\ sender' = [sender EXCEPT ![t].st = "refused"]
          /\ UNCHANGED net
       \/ /\ ~(l[1] > SenderLimit) /\ l[1] # 0
          /\ sender' = [sender EXCEPT ![t] =
                          [st |-> "sending", size |-> l[1], total |-> l[2], next |-> 0]]
          /\ net' = net \cup {Message(t, Meta)}
  /\ UNCHANGED <<early, receiver, restarts>>

\* One round of the chunk loop.
SendChunk(t) ==
  /\ sender[t].st = "sending"
  /\ sender[t].next < sender[t].total
  /\ net' = net \cup {Message(t, sender[t].next)}
  /\ sender' = [sender EXCEPT ![t].next = @ + 1]
  /\ UNCHANGED <<early, receiver, restarts>>

-----------------------------------------------------------------------------
AcceptsAgain(t) == t \in Addressed /\ t \notin finished

\* handle_meta's early returns: our own broadcast, another device's file, a
\* transfer already under way or ended.
Accepts(t) == t \in Addressed /\ transfers[t] = NotTracked /\ t \notin finished

\* handle_meta of a file above our limit: on_error, and nothing is remembered.
Refuse(t) ==
  /\ sender[t].size > ReceiverLimit
  /\ reported' = [reported EXCEPT ![t] = @ \cup {"refused"}]
  /\ UNCHANGED <<transfers, finished, part, saved>>

\* handle_meta of a file we take: open(part, "wb"), truncate(size).
Track(t) ==
  /\ ~(sender[t].size > ReceiverLimit)
  /\ part' = [part EXCEPT ![t] = [k \in 0 .. sender[t].size - 1 |-> Zeros]]
  /\ transfers' = [transfers EXCEPT ![t] = {}]
  /\ UNCHANGED <<finished, saved, reported>>

HandleMeta(t) ==
  \/ Accepts(t) /\ (Refuse(t) \/ Track(t))
  \/ ~Accepts(t) /\ UNCHANGED receiver

WriteAfter(f, i, d) ==
  [k \in DOMAIN f \cup 0 .. i + 1 |->
     IF k = i + 1 THEN d ELSE IF k \in DOMAIN f THEN f[k] ELSE Zeros]

\* seek(offset) and write: a gap before the offset reads as zeros.
WriteAt(f, i, d) ==
  [k \in DOMAIN f \cup 0 .. i |->
     IF k = i THEN d ELSE IF k \in DOMAIN f THEN f[k] ELSE Zeros]

NamedAsSent(name, n) == n = 0

\* _unique_path: the first of "name", "name (1)", "name (2)"... that is free.
FirstFree(name, n) ==
  /\ <<name, n>> \notin DOMAIN saved
  /\ \A m \in 0 .. n - 1 : <<name, m>> \in DOMAIN saved

\* rename: the file takes the path, whatever was there.
SavedAs(path, contents) ==
  [p \in DOMAIN saved \cup {path} |-> IF p = path THEN contents ELSE saved[p]]

HashIgnored(t, contents) == TRUE

HashMatches(t, contents) == contents = Data(t)

RememberNothing(t) == finished

\* _finished.add
Remember(t) == finished \cup {t}

Keep(t, contents) ==
  /\ HashMatches(t, contents)
  /\ reported' = [reported EXCEPT ![t] = @ \cup {"saved"}]
  /\ \E n \in 0 .. MaxCopies :
       FirstFree(Filename[t], n) /\ saved' = SavedAs(<<Filename[t], n>>, contents)

Discard(t, contents) ==
  /\ ~HashMatches(t, contents)
  /\ reported' = [reported EXCEPT ![t] = @ \cup {"discarded"}]
  /\ UNCHANGED saved

\* _finalize: the transfer is closed, then the file renamed or unlinked.
Finalize(t, contents) ==
  /\ transfers' = [transfers EXCEPT ![t] = NotTracked]
  /\ finished' = Remember(t)
  /\ part' = [part EXCEPT ![t] = NoFile]
  /\ Keep(t, contents) \/ Discard(t, contents)

\* handle_chunk's early returns: an unknown transfer, a chunk written before.
Wanted(t, i) == transfers[t] # NotTracked /\ i \notin transfers[t]

Contents(t, i) == WriteAt(part[t], i, <<t, i>>)

Complete(t, i) == Cardinality(transfers[t] \cup {i}) = sender[t].total

\* handle_chunk of a chunk that is not the last one missing.
Store(t, i) ==
  /\ part' = [part EXCEPT ![t] = Contents(t, i)]
  /\ transfers' = [transfers EXCEPT ![t] = @ \cup {i}]
  /\ UNCHANGED <<finished, saved, reported>>

HandleChunk(t, i) ==
  \/ Wanted(t, i) /\ Complete(t, i) /\ Finalize(t, Contents(t, i))
  \/ Wanted(t, i) /\ ~Complete(t, i) /\ Store(t, i)
  \/ ~Wanted(t, i) /\ UNCHANGED receiver

\* A chunk of a transfer this receiver has not heard of: handle_chunk drops it,
\* and once it is acknowledged it never comes again.
LostEarly(m, acked) ==
  acked /\ m.index # Meta /\ transfers[m.tr] = NotTracked /\ m.tr \notin finished

\* The broker hands over a message, in any order (meta and chunks are published
\* on topics of their own); without an acknowledgement (acked = FALSE) it will
\* do so again.
Deliver(m, acked) ==
  /\ m \in net
  /\ net' = IF acked THEN net \ {m} ELSE net
  /\ early' = IF LostEarly(m, acked) THEN early \cup {m.tr} ELSE early
  /\ \/ m.index = Meta /\ HandleMeta(m.tr)
     \/ m.index # Meta /\ HandleChunk(m.tr, m.index)
  /\ UNCHANGED <<sender, restarts>>

\* The application is restarted, or applies settings that need a new
\* connection: a new FileReceiver, over the same directory.
Restart ==
  /\ restarts < MaxRestarts
  /\ restarts' = restarts + 1
  /\ transfers' = [t \in Transfers |-> NotTracked]
  /\ finished' = {}
  /\ UNCHANGED <<sender, net, early, part, saved, reported>>

Next ==
  \/ \E t \in Transfers : Offer(t) \/ SendChunk(t)
  \/ \E m \in net, acked \in BOOLEAN : Deliver(m, acked)
  \/ Restart

Spec == Init /\ [][Next]_vars

\* The sender goes on to its last chunk and the broker delivers every message
\* until it is acknowledged.
FairSpec ==
  /\ Spec
  /\ \A t \in Transfers : WF_vars(SendChunk(t))
  /\ \A t \in Transfers, i \in Meta .. MaxChunks : WF_vars(Deliver(Message(t, i), TRUE))

-----------------------------------------------------------------------------
SenderState ==
  [st : {"idle", "sending", "refused"}, size : 0 .. MaxChunks, total : 0 .. MaxChunks,
   next : 0 .. MaxChunks]

\* Type invariant of the sender, the broker's queue and the receiver's tables.
TypeOK ==
  /\ sender \in [Transfers -> SenderState]
  /\ net \subseteq [tr : Transfers, index : Meta .. MaxChunks]
  /\ early \subseteq Transfers
  /\ transfers \in [Transfers -> SUBSET (Meta .. MaxChunks)]
  /\ finished \subseteq Transfers
  /\ part = [t \in Transfers |-> part[t]]
  /\ reported \in [Transfers -> SUBSET {"saved", "discarded", "refused"}]
  /\ restarts \in 0 .. MaxRestarts

\* While a transfer is under way its .part file holds exactly the chunks noted
\* as received, each at its place and zeros elsewhere; a .part file without a
\* transfer is never left behind (transfer.py:129, 134, 148, 153).
PartMatchesReceived ==
  \A t \in Transfers :
    IF transfers[t] = NotTracked THEN restarts = 0 => part[t] = NoFile
    ELSE /\ 0 .. sender[t].size - 1 \subseteq DOMAIN part[t]
         /\ transfers[t] \subseteq DOMAIN part[t]
         /\ \A k \in DOMAIN part[t] :
              part[t][k] = IF k \in transfers[t] THEN <<t, k>> ELSE Zeros

\* A file the receiver keeps is byte for byte one that was sent under that
\* name, whatever was repeated, reordered or lost (transfer.py:5).
SavedIsGenuine ==
  \A p \in DOMAIN saved :
    saved[p] = Theirs \/ \E t \in Transfers : Filename[t] = p[1] /\ saved[p] = Data(t)

\* Reassembly never spoils a file: a checksum mismatch is only ever the fault of
\* a file that shrank between the sender's stat() and read_bytes()
\* (transfer.py:25, 34).
DiscardedOnlyIfShrunk ==
  \A t \in Transfers : "discarded" \in reported[t] => sender[t].total < sender[t].size

\* A transfer ends up in the downloads directory at most once, however often its
\* messages are repeated (transfer.py:100); a new receiver has forgotten it.
SavedOnce ==
  restarts = 0 => \A p, q \in DOMAIN saved : saved[p] = saved[q] /\ saved[p] # Theirs => p = q

\* No file in the downloads directory is ever replaced, also when two transfers
\* carry the same name (transfer.py:157).
NoOverwrite ==
  [][\A p \in DOMAIN saved : p \in DOMAIN saved' /\ saved'[p] = saved[p]]_vars

\* A file sent to its last chunk is saved or reported as failed, although its
\* messages are repeated and its chunks arrive in any order (transfer.py:4).
\* Two exceptions, and no other, leave a transfer waiting for ever: the receiver
\* is replaced meanwhile, and a chunk that was acknowledged ahead of its meta
\* message, which handle_chunk drops (transfer.py:122): the docstring's
\* "out-of-order arrival" covers chunks among themselves only.
EveryTransferEnds ==
  \A t \in Addressed :
    (sender[t].st = "sending" /\ sender[t].total > 0 /\ sender[t].next = sender[t].total)
      ~> reported[t] # {} \/ restarts > 0 \/ t \in early
=============================================================================
