------------------------ MODULE MessageExtrasProofs ------------------------
(***************************************************************************)
(* MessageExtras.tla for any number of readers, inputs and losses: what    *)
(* is shown is what is stored, "read" is final, receipts are true, and     *)
(* windows that have handled everything show the same reactions.           *)
(***************************************************************************)
EXTENDS MessageExtras, SequenceTheorems, TLAPS

USE AuthorAssumption, BoundsAssumption
    DEF session, message, reacted, receipted, reader, past, counted

\* What is published or queued by any step belongs to C, if the reactions, the
\* deletion and the receipts waiting for the flush do.
LEMMA SessionStep ==
  ASSUME NEW C,
         inbox \in [Windows -> Seq(C)], idle \in [Windows -> Seq(C)], next \in [Windows -> Nat],
         queue \in [Readers -> Seq(Reports)],
         Delete \in C, \A w \in Windows, op \in {"add", "remove"} : Reaction(w, op) \in C,
         \A r \in Readers : \A i \in 1 .. Len(queue[r]) : Receipt(r, queue[r][i]) \in C,
         [Next]_vars
  PROVE  inbox' \in [Windows -> Seq(C)] /\ idle' \in [Windows -> Seq(C)]
<1>1. CASE UNCHANGED <<inbox, idle>>
  BY <1>1
<1>2. ASSUME NEW c \in C PROVE ToAll(c) \in [Windows -> Seq(C)]
  <2>1. \A w \in Windows : Append(inbox[w], c) \in Seq(C)
    BY AppendProperties
  <2>2. QED
    BY <2>1 DEF ToAll
<1>3. ASSUME NEW w \in Windows, ToggleReaction(w) PROVE inbox' \in [Windows -> Seq(C)] /\ UNCHANGED idle
  BY <1>2, <1>3 DEF ToggleReaction
<1>4. ASSUME DeleteForEveryone PROVE inbox' \in [Windows -> Seq(C)] /\ UNCHANGED idle
  BY <1>2, <1>4 DEF DeleteForEveryone
<1>5. ASSUME NEW r \in Readers, FlushReceipts(r) PROVE inbox' \in [Windows -> Seq(C)] /\ UNCHANGED idle
  <2> DEFINE batch == [i \in DOMAIN queue[r] |-> Receipt(r, queue[r][i])]
  <2>1. Len(queue[r]) \in Nat /\ DOMAIN queue[r] = 1 .. Len(queue[r])
    BY LenProperties
  <2>2. batch \in [1 .. Len(queue[r]) -> C]
    BY <2>1
  <2>3. batch \in Seq(C)
    BY <2>1, <2>2, SeqDef
  <2>4. inbox[Author] \o batch \in Seq(C)
    BY <2>3, ConcatProperties DEF Windows
  <2>5. inbox' = [inbox EXCEPT ![Author] = inbox[Author] \o batch] /\ UNCHANGED idle
    BY <1>5 DEF FlushReceipts, Flushed
  <2> HIDE DEF batch
  <2>6. QED
    BY <2>4, <2>5
<1>6. ASSUME NEW w \in Windows, Handle(w) PROVE UNCHANGED inbox /\ idle' \in [Windows -> Seq(C)]
  <2>1. Tail(idle[w]) \in Seq(C)
    BY <1>6, HeadTailProperties DEF Handle
  <2>2. QED
    BY <1>6, <2>1 DEF Handle
<1>7. ASSUME NEW w \in Windows, Receive(w) PROVE UNCHANGED inbox /\ idle' \in [Windows -> Seq(C)]
  <2>1. inbox[w] \in Seq(C) /\ next[w] + 1 \in 1 .. Len(inbox[w])
    BY <1>7, LenProperties DEF Receive
  <2>2. Append(idle[w], inbox[w][next[w] + 1]) \in Seq(C)
    BY <2>1, ElementOfSeq, AppendProperties
  <2>3. QED
    BY <1>7, <2>2 DEF Receive
<1>8. ASSUME NEW w \in Windows, Restart(w) PROVE UNCHANGED inbox /\ idle' \in [Windows -> Seq(C)]
  BY <1>8, EmptySeq DEF Restart
<1>9. QED
  BY <1>1, <1>3, <1>4, <1>5, <1>6, <1>7, <1>8
     DEF Next, vars, DeleteForMe, Prune, LoseConnection, Connect, ChangeSetting, Look

\* _queue_receipt adds a state at the end, or nothing.
LEMMA QueuedType ==
  ASSUME NEW S, NEW q \in Seq(S), NEW s \in S
  PROVE  Queued(q, s) \in Seq(S)
BY AppendProperties DEF Queued

\* The receipts queued after any step belong to S, if "delivered" does for a
\* message acknowledged and "read" for one acknowledged or caught up in front of
\* the reader.
LEMMA QueueStep ==
  ASSUME NEW S, NEW r \in Readers, queue \in [Readers -> Seq(Reports)],
         queue[r] \in Seq(S), [Next]_vars,
         entry[r] = "none" /\ row[r] = "absent" /\ HandleCreate(r) => "delivered" \in S,
         entry[r] = "none" /\ row[r] = "absent" /\ HandleCreate(r) /\ r \in sendsReads \cap reading
           => "read" \in S,
         \A called \in BOOLEAN :
           Look(r, called) /\ r \in unread \cap sendsReads \cap reading' => "read" \in S
  PROVE  queue'[r] \in Seq(S)
<1>1. r \in Windows /\ r # Author
  BY DEF Windows
<1>2. ASSUME NEW w \in Windows, Handle(w) PROVE queue'[r] \in Seq(S)
  <2>1. CASE queue' = queue
    BY <2>1
  <2>2. CASE HandleCreate(w) /\ queue' # queue
    <3>1. Acknowledge(w) /\ entry[w] = "none" /\ row[w] = "absent" /\ w # Author
      BY <2>2 DEF HandleCreate
    <3>2. CASE w # r
      BY <3>1, <3>2 DEF Acknowledge
    <3>3. CASE w = r
      <4> DEFINE d == Queued(queue[r], "delivered")
      <4>1. d \in Seq(S)
        BY <2>2, <3>1, <3>3, QueuedType
      <4>2. r \in sendsReads \cap reading => Queued(d, "read") \in Seq(S)
        BY <2>2, <3>1, <3>3, <4>1, QueuedType
      <4>3. queue'[r] = IF r \in sendsReads \cap reading THEN Queued(d, "read") ELSE d
        BY <3>1, <3>3 DEF Acknowledge
      <4> QED
        BY <4>1, <4>2, <4>3
    <3>4. QED
      BY <3>2, <3>3
  <2>3. QED
    BY <1>2, <2>1, <2>2 DEF Handle, HandleDelete, HandleReaction, HandleReceipt
<1>3. ASSUME NEW p \in Readers, NEW called \in BOOLEAN, Look(p, called) PROVE queue'[r] \in Seq(S)
  <2>1. CASE queue' = queue
    BY <2>1
  <2>2. CASE queue' # queue
    <3>1. queue' = CaughtUp(p) /\ p \in unread \cap sendsReads \cap reading'
      BY <1>3, <2>2 DEF Look
    <3>2. CASE p # r
      BY <3>1, <3>2 DEF CaughtUp
    <3>3. CASE p = r
      <4>1. Queued(queue[r], "read") \in Seq(S)
        BY <1>3, <3>1, <3>3, QueuedType
      <4>2. QED
        BY <3>1, <3>3, <4>1 DEF CaughtUp
    <3>4. QED
      BY <3>2, <3>3
  <2>3. QED
    BY <2>1, <2>2
<1>4. ASSUME NEW p \in Readers, FlushReceipts(p) PROVE queue'[r] \in Seq(S)
  BY <1>4, EmptySeq DEF FlushReceipts
<1>5. ASSUME NEW w \in Windows, Restart(w) PROVE queue'[r] \in Seq(S)
  BY <1>5, EmptySeq DEF Restart
<1>6. CASE UNCHANGED queue
  BY <1>6
<1>7. QED
  BY <1>2, <1>3, <1>4, <1>5, <1>6
     DEF Next, vars, ToggleReaction, DeleteForEveryone, DeleteForMe, Prune, Receive, LoseConnection,
         Connect, ChangeSetting

\* The queues of receipts stay a function of the readers.
LEMMA QueueDomain ==
  ASSUME queue \in [Readers -> Seq(Reports)], [Next]_vars
  PROVE  queue' = [r \in Readers |-> queue'[r]]
<1>1. ASSUME NEW w \in Windows, Handle(w) PROVE queue' = [r \in Readers |-> queue'[r]]
  BY <1>1 DEF Handle, HandleCreate, Acknowledge, HandleDelete, HandleReaction, HandleReceipt
<1>2. ASSUME NEW r \in Readers, NEW called \in BOOLEAN, Look(r, called)
      PROVE  queue' = [p \in Readers |-> queue'[p]]
  BY <1>2 DEF Look, CaughtUp
<1>3. CASE UNCHANGED queue
  BY <1>3
<1>4. QED
  BY <1>1, <1>2, <1>3
     DEF Next, vars, ToggleReaction, DeleteForEveryone, DeleteForMe, Prune, Receive, LoseConnection,
         Connect, ChangeSetting, FlushReceipts, Restart

Entries == {"none", "shown", "deleted"}
Rows == {"absent", "text", "deleted", "hidden"}

\* The part of the type invariant that is about the windows and history.
WindowsOK ==
  /\ entry \in [Windows -> Entries] /\ row \in [Windows -> Rows]
  /\ reactions \in [Windows -> SUBSET Windows] /\ stored \in [Windows -> SUBSET Windows]
  /\ receipts \in [Readers -> States] /\ kept \in [Readers -> States]

\* A message deleted or hidden leaves a window's extras well typed.
LEMMA ForgetType ==
  ASSUME WindowsOK, NEW w \in Windows, NEW shown \in Entries, Forget(w, shown),
         MarkDeleted(w) \/ HideMessage(w)
  PROVE  WindowsOK'
BY DEF WindowsOK, Forget, MarkDeleted, HideMessage, ForgetExtras, Nowhere, States, Rows

\* So does one pruned.
LEMMA PrunedType ==
  ASSUME row \in [Windows -> Rows], stored \in [Windows -> SUBSET Windows],
         kept \in [Readers -> States], pruned \subseteq Windows, inputs \in 0 .. MaxInputs,
         NEW w \in Windows, Pruned(w)
  PROVE  /\ row' \in [Windows -> Rows] /\ stored' \in [Windows -> SUBSET Windows]
         /\ kept' \in [Readers -> States] /\ pruned' \subseteq Windows
         /\ inputs' \in 0 .. MaxInputs
BY DEF Pruned, Nowhere, States, Rows

\* A change that is handled is one that was published.
LEMMA HeadIsChange ==
  ASSUME TypeOK, NEW w \in Windows, idle[w] # <<>>
  PROVE  Head(idle[w]) \in Changes
BY HeadTailProperties DEF TypeOK

\* A reaction is of a window, a receipt of a reader.
LEMMA ChangeTypes ==
  ASSUME NEW c \in Changes
  PROVE  /\ c.op \in {"add", "remove"} => c.by \in Windows
         /\ c.op \in {"delivered", "read"} => c.by \in Readers
BY DEF Changes, Create, Delete, Reports

\* What a handler may change besides windows and history.
NotesOK ==
  /\ unread \subseteq Readers /\ inFront \subseteq Readers
  /\ arrived \subseteq Windows /\ pruned \subseteq Windows
  /\ inputs \in 0 .. MaxInputs

\* A handler leaves what a window shows and stores well typed.
LEMMA HandleType ==
  ASSUME TypeOK, WindowsOK, NEW w \in Windows, Handle(w)
  PROVE  WindowsOK' /\ NotesOK'
<1>1. PICK c \in Changes : c = Head(idle[w])
  BY HeadIsChange DEF Handle
<1>2. NotesOK
  BY DEF NotesOK, TypeOK
<1>3. CASE HandleCreate(w)
  <2>1. CASE UNCHANGED <<message, reacted, receipted, past, queue, unread, inFront, inputs>>
    BY <1>2, <2>1 DEF WindowsOK, NotesOK
  <2>2. CASE /\ entry' = [entry EXCEPT ![w] = "shown"] /\ arrived' = arrived \cup {w}
             /\ Remember(w) /\ UNCHANGED <<reactions, receipts>>
             /\ IF w = Author THEN UNCHANGED <<unread, inFront>>
                ELSE Acknowledge(w) /\ inFront' \in {inFront, inFront \cup {w}}
    <3>1. w # Author => w \in Readers
      BY DEF Windows
    <3>2. unread' \subseteq Readers /\ inFront' \subseteq Readers
      BY <1>2, <2>2, <3>1 DEF Acknowledge, NotesOK
    <3>3. /\ row' \in [Windows -> Rows] /\ stored' \in [Windows -> SUBSET Windows]
          /\ kept' \in [Readers -> States] /\ pruned' \subseteq Windows
          /\ inputs' \in 0 .. MaxInputs
      <4>1. CASE Pruned(w)
        BY <1>2, <4>1, PrunedType DEF WindowsOK, NotesOK
      <4>2. CASE row' = [row EXCEPT ![w] = "text"] /\ UNCHANGED <<stored, kept, pruned, inputs>>
        BY <1>2, <4>2 DEF WindowsOK, NotesOK, Rows
      <4>3. QED
        BY <2>2, <4>1, <4>2 DEF Remember
    <3>4. QED
      BY <1>2, <2>2, <3>2, <3>3 DEF WindowsOK, NotesOK, Entries
  <2>3. QED
    BY <1>3, <2>1, <2>2 DEF HandleCreate
<1>4. CASE HandleDelete(w)
  <2>1. NotesOK'
    BY <1>2, <1>4 DEF HandleDelete, NotesOK
  <2>2. CASE MarkDeleted(w) /\ Forget(w, "deleted")
    BY <2>1, <2>2, ForgetType DEF Entries
  <2>3. CASE UNCHANGED <<message, reacted, receipted>>
    BY <2>1, <2>3 DEF WindowsOK
  <2>4. QED
    BY <1>4, <2>2, <2>3 DEF HandleDelete
<1>5. CASE c.op \in {"add", "remove"} /\ HandleReaction(w, c)
  <2>1. c.by \in Windows /\ UNCHANGED <<message, receipted>> /\ NotesOK'
    BY <1>2, <1>5, ChangeTypes DEF HandleReaction, NotesOK
  <2>2. \A devices \in SUBSET Windows : With(devices, c) \in SUBSET Windows
    BY <2>1 DEF With
  <2>3. CASE UNCHANGED reacted
    BY <2>1, <2>3 DEF WindowsOK, TypeOK
  <2>4. CASE /\ reactions' = [reactions EXCEPT ![w] = With(@, c)]
             /\ stored' = [stored EXCEPT ![w] = With(@, c)]
    BY <2>1, <2>2, <2>4 DEF WindowsOK, TypeOK
  <2>5. QED
    BY <1>5, <2>3, <2>4 DEF HandleReaction, Stored
<1>6. CASE c.op \in {"delivered", "read"} /\ HandleReceipt(c)
  <2>1. c.by \in Readers /\ c.op \in States
    BY <1>6, ChangeTypes DEF States, Reports
  <2>2. receipts' \in [Readers -> States] /\ kept' \in [Readers -> States]
    BY <1>6, <2>1 DEF HandleReceipt, WindowsOK
  <2>3. NotesOK'
    BY <1>2, <1>6 DEF HandleReceipt, NotesOK
  <2>4. QED
    BY <1>6, <2>2, <2>3 DEF HandleReceipt, WindowsOK
<1>7. QED
  BY <1>1, <1>3, <1>4, <1>5, <1>6 DEF Handle

\* Every step preserves TypeOK.
LEMMA TypeStep ==
  ASSUME TypeOK, [Next]_vars
  PROVE  TypeOK'
<1>1. WindowsOK
  BY DEF TypeOK, WindowsOK, Entries, Rows
<1>2. inbox' \in [Windows -> Seq(Changes)] /\ idle' \in [Windows -> Seq(Changes)]
  <2>1. Delete \in Changes /\ \A w \in Windows, op \in {"add", "remove"} : Reaction(w, op) \in Changes
    BY DEF Changes, Reaction
  <2>2. \A r \in Readers : \A i \in 1 .. Len(queue[r]) : Receipt(r, queue[r][i]) \in Changes
    <3> SUFFICES ASSUME NEW r \in Readers, NEW i \in 1 .. Len(queue[r])
                 PROVE  Receipt(r, queue[r][i]) \in Changes
      OBVIOUS
    <3>1. queue[r][i] \in {"delivered", "read"}
      BY ElementOfSeq DEF TypeOK, Reports
    <3>2. QED
      BY <3>1 DEF Receipt, Changes, Reports
  <2>3. QED
    BY <2>1, <2>2, SessionStep DEF TypeOK
<1>3. queue' \in [Readers -> Seq(Reports)]
  <2>1. \A r \in Readers : queue'[r] \in Seq(Reports)
    <3>1. "delivered" \in Reports /\ "read" \in Reports
      BY DEF Reports
    <3>2. ASSUME NEW r \in Readers PROVE queue'[r] \in Seq(Reports)
      <4>1. queue \in [Readers -> Seq(Reports)] /\ queue[r] \in Seq(Reports)
        BY DEF TypeOK
      <4>2. QED
        BY <3>1, <4>1, QueueStep
    <3>3. QED
      BY <3>2
  <2>2. QED
    BY <2>1, QueueDomain DEF TypeOK
<1> DEFINE Rest ==
      /\ connected \subseteq Windows /\ lost \subseteq Windows
      /\ next \in [Windows -> Nat] /\ acked \in [Windows -> Nat]
      /\ reading \subseteq Readers /\ sendsReads \subseteq Readers
      /\ losses \in 0 .. MaxLosses
      /\ NotesOK
<1>4. Rest
  BY DEF TypeOK, NotesOK
<1>5. WindowsOK' /\ Rest'
  <2> USE DEF NotesOK
  <2>1. CASE DeleteForEveryone
    BY <1>1, <1>4, <2>1, ForgetType DEF DeleteForEveryone, Entries, Windows
  <2>2. ASSUME NEW w \in Windows, Handle(w) PROVE WindowsOK' /\ Rest'
    <3> HIDE DEF NotesOK
    <3> QED
      BY <1>1, <1>4, <2>2, HandleType DEF Handle
  <2>3. ASSUME NEW w \in Windows, ToggleReaction(w) PROVE WindowsOK' /\ Rest'
    BY <1>1, <1>4, <2>3 DEF ToggleReaction, WindowsOK
  <2>4. ASSUME NEW w \in Windows, DeleteForMe(w) PROVE WindowsOK' /\ Rest'
    BY <1>1, <1>4, <2>4, ForgetType DEF DeleteForMe, Entries
  <2>5. ASSUME NEW w \in Windows, Receive(w) \/ LoseConnection(w) \/ Connect(w) PROVE WindowsOK' /\ Rest'
    <3>1. \A n \in acked[w] .. next[w] : n \in Nat
      BY <1>4
    <3>2. next' \in [Windows -> Nat] /\ acked' \in [Windows -> Nat]
      BY <1>4, <2>5, <3>1 DEF Receive, LoseConnection, Connect
    <3>3. connected' \subseteq Windows /\ losses' \in 0 .. MaxLosses
      BY <1>4, <2>5 DEF Receive, LoseConnection, Connect
    <3>4. QED
      BY <1>1, <1>4, <2>5, <3>2, <3>3 DEF Receive, LoseConnection, Connect, WindowsOK
  <2>6. ASSUME NEW w \in Windows, Restart(w) PROVE WindowsOK' /\ Rest'
    <3>1. Nowhere \in [Readers -> States] /\ LoadedEntry(w) \in Entries
      BY DEF Nowhere, States, LoadedEntry, Entries
    <3>2. entry' \in [Windows -> Entries] /\ receipts' \in [Readers -> States]
      BY <1>1, <2>6, <3>1 DEF Restart, WindowsOK
    <3>3. QED
      BY <1>1, <1>4, <2>6, <3>2 DEF Restart, WindowsOK
  <2>7. ASSUME NEW r \in Readers, FlushReceipts(r) \/ ChangeSetting(r) PROVE WindowsOK' /\ Rest'
    BY <1>1, <1>4, <2>7 DEF FlushReceipts, ChangeSetting, WindowsOK
  <2>8. ASSUME NEW r \in Readers, NEW called \in BOOLEAN, Look(r, called) PROVE WindowsOK' /\ Rest'
    BY <1>1, <1>4, <2>8 DEF Look, WindowsOK
  <2>9. ASSUME NEW w \in Windows, Prune(w) PROVE WindowsOK' /\ Rest'
    BY <1>1, <1>4, <2>9, PrunedType DEF Prune, WindowsOK
  <2>10. CASE UNCHANGED vars
    BY <1>1, <1>4, <2>10 DEF vars, WindowsOK
  <2>11. QED
    BY <2>1, <2>2, <2>3, <2>4, <2>5, <2>6, <2>7, <2>8, <2>9, <2>10 DEF Next
<1>6. QED
  BY <1>2, <1>3, <1>5 DEF TypeOK, WindowsOK, NotesOK, Entries, Rows

\* The sessions, windows and histories have their types, whatever users,
\* connections and restarts do.
THEOREM TypeCorrect == Spec => []TypeOK
<1>1. Init => TypeOK
  <2> SUFFICES ASSUME Init PROVE TypeOK
    OBVIOUS
  <2>1. <<Create>> \in Seq(Changes)
    BY AppendProperties, EmptySeq DEF Changes
  <2>2. QED
    BY <2>1, EmptySeq DEF Init, TypeOK, Nowhere, States
<1>2. QED
  BY <1>1, TypeStep, PTL DEF Spec

-----------------------------------------------------------------------------
\* What a window holds of a message that history was not pruned of is what a
\* restart would load.
LoadedInv ==
  /\ \A w \in Windows \ pruned : entry[w] = LoadedEntry(w)
  /\ ExtrasMatchHistory

\* Deleting or hiding a message does the same to what is shown and to the row.
LEMMA ForgetLoaded ==
  ASSUME TypeOK, LoadedInv, NEW w \in Windows, entry[w] = "shown", UNCHANGED pruned,
         \/ MarkDeleted(w) /\ Forget(w, "deleted")
         \/ HideMessage(w) /\ Forget(w, "none")
  PROVE  LoadedInv'
<1>1. \A v \in Windows \ {w} :
        /\ entry'[v] = entry[v] /\ row'[v] = row[v]
        /\ stored'[v] = stored[v] /\ reactions'[v] = reactions[v]
  BY DEF Forget, MarkDeleted, HideMessage, ForgetExtras, TypeOK
<1>2. w # Author => kept' = kept /\ receipts' = receipts
  BY DEF Forget, MarkDeleted, HideMessage, ForgetExtras
<1>3. ASSUME w \notin pruned
      PROVE  /\ entry'[w] = LoadedEntry(w)' /\ entry'[w] # "shown"
             /\ stored'[w] = {} /\ reactions'[w] = {}
             /\ w = Author => kept' = Nowhere /\ receipts' = Nowhere
  <2>1. row[w] = "text"
    BY <1>3 DEF LoadedInv, LoadedEntry, TypeOK
  <2>2. QED
    BY <2>1 DEF LoadedEntry, Forget, MarkDeleted, HideMessage, ForgetExtras, TypeOK
<1>4. \A v \in Windows \ pruned' : entry'[v] = LoadedEntry(v)'
  BY <1>1, <1>3 DEF LoadedInv, LoadedEntry
<1>5. ExtrasMatchHistory'
  BY <1>1, <1>2, <1>3 DEF LoadedInv, ExtrasMatchHistory, Windows
<1>6. QED
  BY <1>4, <1>5 DEF LoadedInv

\* What a prune takes leaves the others alone.
LEMMA PrunedLoaded ==
  ASSUME TypeOK, LoadedInv, NEW w \in Windows, Pruned(w),
         UNCHANGED <<reactions, receipts>>, \A v \in Windows \ {w} : entry'[v] = entry[v]
  PROVE  LoadedInv'
<1>1. \A v \in Windows \ pruned' : /\ v # w /\ v \notin pruned
                                    /\ entry'[v] = entry[v] /\ row'[v] = row[v]
                                    /\ stored'[v] = stored[v]
  BY DEF Pruned, TypeOK
<1>2. Author \notin pruned' => kept' = kept /\ entry'[Author] = entry[Author] /\ Author \notin pruned
  BY <1>1 DEF Pruned, Windows
<1>3. QED
  BY <1>1, <1>2 DEF LoadedInv, LoadedEntry, ExtrasMatchHistory

\* A handler changes what is shown and what is stored together.
LEMMA HandleLoaded ==
  ASSUME TypeOK, LoadedInv, NEW w \in Windows, Handle(w)
  PROVE  LoadedInv'
<1>1. PICK c \in Changes : c = Head(idle[w])
  BY HeadIsChange DEF Handle
<1>2. CASE UNCHANGED <<message, reacted, receipted, pruned>>
  BY <1>2 DEF LoadedInv, LoadedEntry, ExtrasMatchHistory
<1>3. CASE HandleCreate(w)
  <2>1. ASSUME entry' = [entry EXCEPT ![w] = "shown"], Remember(w), UNCHANGED <<reactions, receipts>>
        PROVE  LoadedInv'
    <3>1. CASE Pruned(w)
      BY <2>1, <3>1, PrunedLoaded DEF TypeOK
    <3>2. CASE row' = [row EXCEPT ![w] = "text"] /\ UNCHANGED <<stored, kept, pruned>>
      <4>1. \A v \in Windows \ pruned' : entry'[v] = LoadedEntry(v)'
        BY <2>1, <3>2 DEF LoadedInv, LoadedEntry, TypeOK
      <4>2. \A v \in Windows : entry'[v] # "shown" => entry[v] # "shown"
        BY <2>1 DEF TypeOK
      <4>3. QED
        BY <2>1, <3>2, <4>1, <4>2 DEF LoadedInv, ExtrasMatchHistory, Windows
    <3>3. QED
      BY <2>1, <3>1, <3>2 DEF Remember
  <2>2. QED
    BY <1>2, <1>3, <2>1 DEF HandleCreate
<1>4. CASE HandleDelete(w)
  <2>1. CASE entry[w] = "shown" /\ MarkDeleted(w) /\ Forget(w, "deleted")
    BY <1>4, <2>1, ForgetLoaded DEF HandleDelete
  <2>2. QED
    BY <1>2, <1>4, <2>1 DEF HandleDelete
<1> USE DEF LoadedInv, LoadedEntry, ExtrasMatchHistory
<1>5. CASE c.op \in {"add", "remove"} /\ HandleReaction(w, c)
  <2>1. CASE entry[w] = "shown" /\ UNCHANGED <<message, receipted, pruned>>
             /\ reactions' = [reactions EXCEPT ![w] = With(reactions[w], c)]
             /\ stored' = [stored EXCEPT ![w] = With(stored[w], c)]
    <3>1. stored[w] = reactions[w] => With(reactions[w], c) = With(stored[w], c)
      OBVIOUS
    <3>2. QED
      BY <2>1, <3>1 DEF TypeOK
  <2>2. QED
    BY <1>2, <1>5, <2>1 DEF HandleReaction, Stored
<1>6. CASE c.op \in {"delivered", "read"} /\ HandleReceipt(c)
  <2>1. c.by \in Readers
    BY <1>6, ChangeTypes
  <2>2. QED
    BY <1>2, <1>6, <2>1 DEF HandleReceipt, NotYetRead, TypeOK
<1>7. QED
  BY <1>1, <1>3, <1>4, <1>5, <1>6 DEF Handle

\* Every step keeps what a window holds in line with what a restart would load.
LEMMA LoadedStep ==
  ASSUME TypeOK, LoadedInv, [Next]_vars
  PROVE  LoadedInv'
<1>1. CASE UNCHANGED <<message, reacted, receipted, pruned>>
  BY <1>1 DEF LoadedInv, LoadedEntry, ExtrasMatchHistory
<1>2. ASSUME NEW w \in Windows, Handle(w) PROVE LoadedInv'
  BY <1>2, HandleLoaded
<1>3. CASE DeleteForEveryone
  BY <1>3, ForgetLoaded DEF DeleteForEveryone, Windows
<1>4. ASSUME NEW w \in Windows, DeleteForMe(w) PROVE LoadedInv'
  BY <1>4, ForgetLoaded DEF DeleteForMe
<1>5. ASSUME NEW w \in Windows, Restart(w) PROVE LoadedInv'
  <2>1. /\ UNCHANGED <<row, stored, kept, pruned>> /\ entry' = [entry EXCEPT ![w] = LoadedEntry(w)]
        /\ reactions' = [reactions EXCEPT ![w] = IF row[w] = "text" THEN stored[w] ELSE {}]
        /\ receipts' = IF w # Author THEN receipts ELSE IF row[w] = "text" THEN kept ELSE Nowhere
    BY <1>5 DEF Restart
  <2>2. \A v \in Windows \ pruned : entry'[v] = entry[v]
    BY <2>1 DEF LoadedInv, TypeOK
  <2>3. \A v \in Windows \ pruned : row[v] = "text" <=> entry[v] = "shown"
    BY DEF LoadedInv, LoadedEntry
  <2>4. \A v \in Windows \ pruned : reactions'[v] = reactions[v]
    BY <2>1, <2>3 DEF LoadedInv, ExtrasMatchHistory, TypeOK
  <2>5. Author \notin pruned => receipts' = receipts
    BY <2>1, <2>3 DEF LoadedInv, ExtrasMatchHistory, Windows
  <2>6. QED
    BY <2>1, <2>2, <2>4, <2>5 DEF LoadedInv, LoadedEntry, ExtrasMatchHistory, Windows
<1>6. ASSUME NEW w \in Windows, Prune(w) PROVE LoadedInv'
  BY <1>6, PrunedLoaded DEF Prune
<1>7. QED
  BY <1>1, <1>2, <1>3, <1>4, <1>5, <1>6
     DEF Next, vars, ToggleReaction, FlushReceipts, ChangeSetting, Look, Receive, LoseConnection, Connect

\* Whatever is redelivered, deleted and restarted, a window shows the reactions
\* and receipts its history holds, until history is pruned of the message, and
\* history holds none of a message that was deleted.
THEOREM ShownIsStored == Spec => []ExtrasMatchHistory
<1>1. Init => LoadedInv
  BY DEF Init, LoadedInv, LoadedEntry, ExtrasMatchHistory
<1>2. LoadedInv => ExtrasMatchHistory
  BY DEF LoadedInv
<1>3. QED
  BY <1>1, <1>2, TypeCorrect, LoadedStep, PTL DEF Spec

\* What a restart of the author's window would load never falls short of "read",
\* pruned or not, and nothing is shown under a message that is not there.
ReadKept ==
  /\ entry[Author] # "shown" => receipts = Nowhere
  /\ row[Author] = "text" => entry[Author] = "shown"
  /\ row[Author] = "text" => \A r \in Readers : receipts[r] = "read" => kept[r] = "read"

\* Every step preserves ReadKept.
LEMMA ReadKeptStep ==
  ASSUME TypeOK, ReadKept, [Next]_vars
  PROVE  ReadKept'
<1>1. Author \in Windows
  BY DEF Windows
<1>2. CASE UNCHANGED <<message, receipted>>
  BY <1>2 DEF ReadKept
<1>3. ASSUME NEW w \in Windows, Pruned(w), UNCHANGED receipts,
             w # Author => entry'[Author] = entry[Author],
             w = Author => entry'[Author] \in {entry[Author], "shown"}
      PROVE  ReadKept'
  BY <1>1, <1>3 DEF ReadKept, Pruned, TypeOK
<1>4. ASSUME NEW w \in Windows, entry[w] = "shown", NEW shown \in {"deleted", "none"}, Forget(w, shown),
             MarkDeleted(w) \/ HideMessage(w)
      PROVE  ReadKept'
  <2>1. CASE w = Author
    <3>1. entry'[Author] = shown /\ receipts' = Nowhere /\ row'[Author] # "text"
      BY <1>1, <1>4, <2>1 DEF Forget, MarkDeleted, HideMessage, TypeOK
    <3>2. QED
      BY <3>1 DEF ReadKept
  <2>2. CASE w # Author
    <3>1. entry'[Author] = entry[Author] /\ row'[Author] = row[Author] /\ UNCHANGED <<receipts, kept>>
      BY <1>1, <1>4, <2>2 DEF Forget, MarkDeleted, HideMessage, ForgetExtras, TypeOK
    <3>2. QED
      BY <3>1 DEF ReadKept
  <2>3. QED
    BY <2>1, <2>2
<1>5. ASSUME NEW w \in Windows, Handle(w) PROVE ReadKept'
  <2>1. PICK c \in Changes : c = Head(idle[w])
    BY <1>5, HeadIsChange DEF Handle
  <2>2. CASE HandleCreate(w)
    <3>1. CASE Pruned(w) /\ entry' = [entry EXCEPT ![w] = "shown"]
      BY <1>1, <1>3, <2>2, <3>1 DEF HandleCreate, TypeOK
    <3>2. CASE /\ entry[w] = "none" /\ UNCHANGED <<receipts, kept>>
               /\ entry' = [entry EXCEPT ![w] = "shown"] /\ row' = [row EXCEPT ![w] = "text"]
      <4>1. CASE w = Author
        BY <3>2, <4>1 DEF ReadKept, Nowhere, TypeOK
      <4>2. CASE w # Author
        BY <1>1, <3>2, <4>2 DEF ReadKept, TypeOK
      <4>3. QED
        BY <4>1, <4>2
    <3>3. QED
      BY <1>2, <2>2, <3>1, <3>2 DEF HandleCreate, Remember
  <2>3. CASE HandleDelete(w)
    BY <1>2, <1>4, <2>3 DEF HandleDelete
  <2>4. CASE c.op \in {"delivered", "read"} /\ HandleReceipt(c)
    BY <1>2, <2>4, ChangeTypes DEF HandleReceipt, ReadKept, TypeOK
  <2>5. QED
    BY <1>2, <1>5, <2>1, <2>2, <2>3, <2>4 DEF Handle, HandleReaction
<1>6. CASE DeleteForEveryone
  BY <1>1, <1>4, <1>6 DEF DeleteForEveryone
<1>7. ASSUME NEW w \in Windows, DeleteForMe(w) PROVE ReadKept'
  BY <1>4, <1>7 DEF DeleteForMe
<1>8. ASSUME NEW w \in Windows, Prune(w) PROVE ReadKept'
  BY <1>3, <1>8 DEF Prune
<1>9. ASSUME NEW w \in Windows, Restart(w) PROVE ReadKept'
  <2>1. CASE w # Author
    BY <1>1, <1>9, <2>1 DEF Restart, ReadKept, TypeOK
  <2>2. CASE w = Author
    BY <1>1, <1>9, <2>2 DEF Restart, LoadedEntry, ReadKept, TypeOK
  <2>3. QED
    BY <2>1, <2>2
<1>10. QED
  BY <1>2, <1>5, <1>6, <1>7, <1>8, <1>9
     DEF Next, vars, ToggleReaction, FlushReceipts, ChangeSetting, Look, Receive, LoseConnection, Connect

\* No step takes "read" back of a message that stays: neither a late receipt,
\* nor a redelivered one, nor what a restart loads.
THEOREM ReadStays == Spec => ReadIsFinal
<1>1. TypeOK /\ ReadKept /\ [Next]_vars =>
        [\A r \in Readers : receipts[r] = "read" /\ entry'[Author] = "shown" => receipts'[r] = "read"]_vars
  <2> SUFFICES ASSUME TypeOK, ReadKept, Next, NEW r \in Readers,
                      receipts[r] = "read", entry'[Author] = "shown"
               PROVE  receipts'[r] = "read"
    OBVIOUS
  <2>1. CASE receipts' = receipts
    BY <2>1
  <2>2. ASSUME NEW w \in Windows, NEW shown \in {"deleted", "none"}, Forget(w, shown)
        PROVE  receipts' = receipts
    BY <2>2 DEF Forget, TypeOK, Windows
  <2>3. ASSUME NEW w \in Windows, Handle(w) PROVE receipts'[r] = "read"
    <3>1. PICK c \in Changes : c = Head(idle[w])
      BY <2>3, HeadIsChange DEF Handle
    <3>2. CASE c.op \in {"delivered", "read"} /\ HandleReceipt(c)
      BY <3>2, ChangeTypes DEF HandleReceipt, NotYetRead, TypeOK
    <3>3. CASE HandleDelete(w)
      BY <2>1, <2>2, <3>3 DEF HandleDelete
    <3>4. CASE HandleCreate(w) \/ HandleReaction(w, c)
      BY <2>1, <3>4 DEF HandleCreate, HandleReaction
    <3>5. QED
      BY <2>3, <3>1, <3>2, <3>3, <3>4 DEF Handle
  <2>4. CASE DeleteForEveryone
    BY <2>1, <2>2, <2>4 DEF DeleteForEveryone, Windows
  <2>5. ASSUME NEW w \in Windows, DeleteForMe(w) PROVE receipts'[r] = "read"
    BY <2>1, <2>2, <2>5 DEF DeleteForMe
  <2>6. ASSUME NEW w \in Windows, Restart(w) PROVE receipts'[r] = "read"
    <3>1. CASE w # Author
      BY <2>6, <3>1 DEF Restart
    <3>2. CASE w = Author
      <4>1. row[Author] = "text"
        BY <2>6, <3>2 DEF Restart, LoadedEntry, TypeOK
      <4>2. QED
        BY <2>6, <3>2, <4>1 DEF Restart, ReadKept
    <3>3. QED
      BY <3>1, <3>2
  <2>7. QED
    BY <2>1, <2>3, <2>4, <2>5, <2>6
       DEF Next, ToggleReaction, Prune, FlushReceipts, ChangeSetting, Look, Receive, LoseConnection, Connect
<1>2. Init => ReadKept
  BY DEF Init, ReadKept, Windows
<1>3. QED
  BY <1>1, <1>2, TypeCorrect, ReadKeptStep, PTL DEF Spec, ReadIsFinal

-----------------------------------------------------------------------------
\* What is true of a state a reader reports.
Earned(r) ==
  {s \in Reports : r \in arrived /\ (s = "read" => r \in inFront)}

\* Changes that are no receipts, and true receipts.
HonestChanges ==
  {c \in Changes : c.op \in Reports => c.op \in Earned(c.by)}

TruthInv ==
  /\ inbox \in [Windows -> Seq(HonestChanges)] /\ idle \in [Windows -> Seq(HonestChanges)]
  /\ \A r \in Readers :
       /\ queue[r] \in Seq(Earned(r))
       /\ r \in unread => r \in arrived
       /\ receipts[r] # "sent" => receipts[r] \in Earned(r)
       /\ kept[r] # "sent" => kept[r] \in Earned(r)

\* Nobody forgets what arrived and what was in front of a reader.
LEMMA PastStays ==
  ASSUME [Next]_vars
  PROVE  arrived \subseteq arrived' /\ inFront \subseteq inFront'
<1>1. CASE UNCHANGED <<arrived, inFront>>
  BY <1>1
<1>2. ASSUME NEW w \in Windows, Handle(w) PROVE arrived \subseteq arrived' /\ inFront \subseteq inFront'
  BY <1>1, <1>2 DEF Handle, HandleCreate, HandleDelete, HandleReaction, HandleReceipt
<1>3. ASSUME NEW r \in Readers, NEW called \in BOOLEAN, ChangeSetting(r) \/ Look(r, called)
      PROVE  arrived \subseteq arrived' /\ inFront \subseteq inFront'
  BY <1>3 DEF ChangeSetting, Look
<1>4. QED
  BY <1>1, <1>2, <1>3
     DEF Next, vars, ToggleReaction, DeleteForEveryone, DeleteForMe, Prune, FlushReceipts, Receive,
         LoseConnection, Connect, Restart

\* So what was earned stays so.
LEMMA EarnedGrows ==
  ASSUME [Next]_vars
  PROVE  /\ \A r \in Readers : Earned(r) \subseteq Earned(r)'
         /\ HonestChanges \subseteq HonestChanges'
<1>1. \A r \in Readers : Earned(r) \subseteq Earned(r)'
  BY PastStays DEF Earned
<1>2. \A c \in Changes : c.op \in Reports => c.by \in Readers
  BY ChangeTypes DEF Reports
<1>3. QED
  BY <1>1, <1>2 DEF HonestChanges

\* A receipt is shown when it is handled, and no other time.
LEMMA ShownReceipts ==
  ASSUME TypeOK, TruthInv, [Next]_vars, NEW r \in Readers
  PROVE  /\ receipts'[r] # "sent" => receipts'[r] \in Earned(r)
         /\ kept'[r] # "sent" => kept'[r] \in Earned(r)
<1> DEFINE Fine == /\ receipts'[r] # "sent" => receipts'[r] \in Earned(r)
                   /\ kept'[r] # "sent" => kept'[r] \in Earned(r)
<1>1. ASSUME UNCHANGED receipted PROVE Fine
  BY <1>1 DEF TruthInv
<1>2. ASSUME NEW w \in Windows, NEW shown, Forget(w, shown), MarkDeleted(w) \/ HideMessage(w) PROVE Fine
  BY <1>2 DEF Forget, MarkDeleted, HideMessage, ForgetExtras, Nowhere, TruthInv
<1>3. ASSUME NEW w \in Windows, Pruned(w), UNCHANGED receipts PROVE Fine
  BY <1>3 DEF Pruned, Nowhere, TruthInv
<1>4. ASSUME NEW w \in Windows, Handle(w) PROVE Fine
  <2>1. idle[w] \in Seq(HonestChanges) /\ idle[w] # <<>>
    BY <1>4 DEF Handle, TruthInv
  <2>2. PICK c \in HonestChanges : c = Head(idle[w])
    BY <2>1, HeadTailProperties
  <2>3. CASE c.op \in {"delivered", "read"} /\ HandleReceipt(c)
    <3>1. c.op \in Earned(c.by)
      BY <2>3 DEF HonestChanges, Reports
    <3>2. CASE UNCHANGED receipted
      BY <1>1, <3>2
    <3>3. CASE /\ receipts' = [receipts EXCEPT ![c.by] = c.op]
               /\ kept' = [kept EXCEPT ![c.by] = IF @ = "read" THEN @ ELSE c.op]
      BY <3>1, <3>3 DEF TypeOK, TruthInv
    <3>4. QED
      BY <2>3, <3>2, <3>3 DEF HandleReceipt
  <2>4. CASE HandleDelete(w)
    BY <1>1, <1>2, <2>4 DEF HandleDelete
  <2>5. CASE HandleCreate(w)
    BY <1>1, <1>3, <2>5 DEF HandleCreate, Remember
  <2>6. QED
    BY <1>1, <1>4, <2>2, <2>3, <2>4, <2>5 DEF Handle, HandleReaction
<1>5. ASSUME NEW w \in Windows, Restart(w) PROVE Fine
  BY <1>5 DEF Restart, Nowhere, TruthInv
<1>6. ASSUME NEW w \in Windows, Prune(w) PROVE Fine
  BY <1>3, <1>6 DEF Prune
<1>7. QED
  BY <1>1, <1>2, <1>4, <1>5, <1>6
     DEF Next, vars, ToggleReaction, DeleteForEveryone, DeleteForMe, FlushReceipts, Receive,
         LoseConnection, Connect, ChangeSetting, Look, Windows

\* No receipt says more than what happened, however messages, focus, setting,
\* deletions and restarts interleave.
THEOREM TrueReceipts == Spec => []ReceiptsAreTrue
<1>1. Init => TruthInv
  <2> SUFFICES ASSUME Init PROVE TruthInv
    OBVIOUS
  <2>1. Create \in HonestChanges
    BY DEF HonestChanges, Changes, Create, Reports
  <2>2. <<Create>> \in Seq(HonestChanges)
    BY <2>1, AppendProperties, EmptySeq
  <2>3. QED
    BY <2>2, EmptySeq DEF Init, TruthInv, Nowhere
<1>2. TypeOK /\ TruthInv /\ [Next]_vars => TruthInv'
  <2> SUFFICES ASSUME TypeOK, TruthInv, [Next]_vars PROVE TruthInv'
    OBVIOUS
  <2>1. inbox' \in [Windows -> Seq(HonestChanges)] /\ idle' \in [Windows -> Seq(HonestChanges)]
    <3>1. Delete \in HonestChanges
      BY DEF HonestChanges, Changes, Delete, Reports
    <3>2. \A w \in Windows, op \in {"add", "remove"} : Reaction(w, op) \in HonestChanges
      BY DEF HonestChanges, Changes, Reaction, Reports
    <3>3. ASSUME NEW r \in Readers, NEW i \in 1 .. Len(queue[r])
          PROVE  Receipt(r, queue[r][i]) \in HonestChanges
      <4>1. queue[r][i] \in Earned(r)
        BY ElementOfSeq DEF TruthInv
      <4>2. QED
        BY <4>1 DEF Earned, Receipt, HonestChanges, Changes
    <3>4. QED
      BY <3>1, <3>2, <3>3, SessionStep DEF TypeOK, TruthInv
  <2>2. ASSUME NEW r \in Readers
        PROVE  queue'[r] \in Seq(Earned(r)') /\ (r \in unread' => r \in arrived')
    <3>1. queue[r] \in Seq(Earned(r)')
      BY EarnedGrows, SeqMonotonic DEF TruthInv
    <3>2. r \in Windows /\ r # Author
      BY DEF Windows
    <3>3. entry[r] = "none" /\ row[r] = "absent" /\ HandleCreate(r) =>
            /\ r \in arrived'
            /\ "delivered" \in Earned(r)'
            /\ r \in sendsReads \cap reading => "read" \in Earned(r)'
      BY <3>2 DEF HandleCreate, Earned, Reports, TypeOK
    <3>4. ASSUME NEW called \in BOOLEAN, Look(r, called), r \in unread \cap sendsReads \cap reading'
          PROVE  "read" \in Earned(r)'
      BY <3>4 DEF Look, Earned, Reports, TruthInv
    <3>5. queue'[r] \in Seq(Earned(r)')
      <4>1. queue \in [Readers -> Seq(Reports)]
        BY DEF TypeOK
      <4>2. QED
        BY <3>1, <3>3, <3>4, <4>1, QueueStep
    <3>6. r \in unread' \ unread => r \in arrived'
      <4>1. ASSUME NEW w \in Windows, Handle(w), r \in unread' \ unread PROVE r \in arrived'
        BY <3>3, <4>1 DEF Handle, HandleCreate, Acknowledge, HandleDelete, HandleReaction, HandleReceipt
      <4>2. QED
        BY <4>1 DEF Next, vars, ToggleReaction, DeleteForEveryone, DeleteForMe, Prune, FlushReceipts, Receive,
                    LoseConnection, Connect, ChangeSetting, Look, Restart
    <3>7. QED
      BY <3>5, <3>6, PastStays DEF TruthInv
  <2>3. inbox' \in [Windows -> Seq(HonestChanges')] /\ idle' \in [Windows -> Seq(HonestChanges')]
    <3>1. \A s \in Seq(HonestChanges) : s \in Seq(HonestChanges')
      BY EarnedGrows, SeqMonotonic
    <3>2. QED
      BY <2>1, <3>1
  <2>4. QED
    BY <2>2, <2>3, EarnedGrows, ShownReceipts DEF TruthInv
<1>3. TypeOK /\ TruthInv => ReceiptsAreTrue
  BY DEF TypeOK, TruthInv, ReceiptsAreTrue, Earned, States
<1>4. QED
  BY <1>1, <1>2, <1>3, TypeCorrect, PTL DEF Spec
-----------------------------------------------------------------------------
\* Change c is device d's reaction, added or taken back.
Toggles(c, d) == c.op \in {"add", "remove"} /\ c.by = d

\* Of the first n changes of s, none after p is d's, and p is, if it is not 0
\* (it may lie beyond n).
LastToggle(s, n, p, d) ==
  /\ p = 0 \/ Toggles(s[p], d)
  /\ \A j \in 1 .. n : j > p => ~ Toggles(s[j], d)

Adds(s, p) == p # 0 /\ s[p].op = "add"

\* The broker has the same last word on d's reaction for every session.
Agree ==
  \A v, w, d \in Windows :
    \E p \in 0 .. Len(inbox[v]), q \in 0 .. Len(inbox[w]) :
      /\ LastToggle(inbox[v], Len(inbox[v]), p, d)
      /\ LastToggle(inbox[w], Len(inbox[w]), q, d)
      /\ Adds(inbox[v], p) <=> Adds(inbox[w], q)

\* A session brings the message once, and first.
Sessions ==
  \A w \in Windows :
    /\ next[w] <= Len(inbox[w])
    /\ \A j \in 1 .. Len(inbox[w]) : inbox[w][j] = Create => j = 1

\* Session s, of which n changes were delivered, has grown to t.
Grown(s, t) == Len(t) >= Len(s) /\ \A i \in 1 .. Len(s) : t[i] = s[i]

\* When the changes of q are handled, a window at which devices reacted has d's
\* reaction as the last one it was sent says.
Follows(s, n, q, d, devices) ==
  \E p \in 0 .. Len(s), i \in 0 .. Len(q) :
    /\ LastToggle(s, n, p, d)
    /\ LastToggle(q, Len(q), i, d)
    /\ (IF i = 0 THEN d \in devices ELSE Adds(q, i)) <=> Adds(s, p)

\* So has a window that the message at q[c] comes to anew: unless d reacts after
\* it in q, d did not in what was delivered.
ResumesAt(s, n, q, d, c) ==
  \E p \in 0 .. Len(s), i \in c .. Len(q) :
    /\ LastToggle(s, n, p, d)
    /\ i = c \/ Toggles(q[i], d)
    /\ \A j \in 1 .. Len(q) : j > i => ~ Toggles(q[j], d)
    /\ IF i = c THEN p = 0 ELSE Adds(q, i) <=> Adds(s, p)

Resumes(s, n, q, d) ==
  \A c \in 1 .. Len(q) : q[c] = Create => ResumesAt(s, n, q, d, c)

\* What is queued was published.
Sent(s, q) == \A i \in 1 .. Len(q) : \E p \in 1 .. Len(s) : s[p] = q[i]

\* So was what is stored, even of a message pruned since.
Heard(s, devices) == \A d \in devices : \E p \in 1 .. Len(s) : Toggles(s[p], d) /\ Adds(s, p)

Resuming(w) ==
  /\ Sent(inbox[w], idle[w])
  /\ Heard(inbox[w], stored[w])
  /\ \A d \in Windows : Resumes(inbox[w], next[w], idle[w], d)

Following(w) ==
  \A d \in Windows :
    /\ entry[w] = "shown" => Follows(inbox[w], next[w], idle[w], d, reactions[w])
    /\ row[w] = "text" => Follows(inbox[w], next[w], idle[w], d, stored[w])

\* Reactions are shown of a message that is, and history has no message more.
Anchored(w) ==
  /\ entry[w] # "shown" => reactions[w] = {}
  /\ row[w] = "text" => entry[w] = "shown"

InStep(w) == Resuming(w) /\ Anchored(w) /\ (lost = {} => Following(w))

ConvergeInv == Sessions /\ Agree /\ \A w \in Windows : InStep(w)

\* Appending a change to a sequence of changes, read by positions.
LEMMA AppendAt ==
  ASSUME NEW s \in Seq(Changes), NEW c \in Changes
  PROVE  /\ Append(s, c) \in Seq(Changes)
         /\ Len(s) \in Nat /\ Len(Append(s, c)) = Len(s) + 1
         /\ \A i \in 1 .. Len(s) : Append(s, c)[i] = s[i]
         /\ Append(s, c)[Len(s) + 1] = c
BY AppendProperties, LenProperties

\* The changes left after the first.
LEMMA TailAt ==
  ASSUME NEW s \in Seq(Changes), s # <<>>
  PROVE  /\ Head(s) = s[1]
         /\ Tail(s) \in Seq(Changes)
         /\ Len(s) \in Nat /\ Len(s) > 0 /\ Len(Tail(s)) = Len(s) - 1
         /\ \A i \in 1 .. Len(s) - 1 : Tail(s)[i] = s[i + 1]
BY HeadTailProperties, LenProperties, EmptySeq

\* d's last word when c is appended.
LEMMA LastOfAppend ==
  ASSUME NEW s \in Seq(Changes), NEW c \in Changes, NEW d, NEW p \in 0 .. Len(s),
         LastToggle(s, Len(s), p, d)
  PROVE  \E q \in 0 .. Len(s) + 1 :
           /\ LastToggle(Append(s, c), Len(s) + 1, q, d)
           /\ q = IF Toggles(c, d) THEN Len(s) + 1 ELSE p
           /\ Adds(Append(s, c), q) <=> IF Toggles(c, d) THEN c.op = "add" ELSE Adds(s, p)
<1> DEFINE q == IF Toggles(c, d) THEN Len(s) + 1 ELSE p
<1>1. /\ Len(s) \in Nat
      /\ \A i \in 1 .. Len(s) : Append(s, c)[i] = s[i]
      /\ Append(s, c)[Len(s) + 1] = c
  BY AppendAt
<1>2. q \in 0 .. Len(s) + 1
  BY <1>1
<1>3. LastToggle(Append(s, c), Len(s) + 1, q, d)
  BY <1>1 DEF LastToggle
<1>4. Adds(Append(s, c), q) <=> IF Toggles(c, d) THEN c.op = "add" ELSE Adds(s, p)
  BY <1>1 DEF Adds
<1>5. QED
  BY <1>2, <1>3, <1>4

\* There is but one last word.
LEMMA LastIsUnique ==
  ASSUME NEW s, NEW n \in Nat, NEW d, NEW p \in 0 .. n, NEW q \in 0 .. n,
         LastToggle(s, n, p, d), LastToggle(s, n, q, d)
  PROVE  p = q
BY DEF LastToggle

\* Longer sessions say the same of what was delivered.
LEMMA GrownFollows ==
  ASSUME NEW s \in Seq(Changes), NEW t \in Seq(Changes), Grown(s, t),
         NEW n \in Nat, n <= Len(s), NEW q, NEW d, NEW S
  PROVE  /\ Follows(s, n, q, d, S) => Follows(t, n, q, d, S)
         /\ Resumes(s, n, q, d) => Resumes(t, n, q, d)
<1>1. Len(s) \in Nat /\ Len(t) \in Nat /\ Len(t) >= Len(s)
  BY LenProperties DEF Grown
<1>2. \A p \in 0 .. Len(s) : /\ p \in 0 .. Len(t)
                             /\ LastToggle(s, n, p, d) => LastToggle(t, n, p, d)
                             /\ Adds(s, p) <=> Adds(t, p)
  BY <1>1 DEF Grown, LastToggle, Adds
<1>3. ASSUME Follows(s, n, q, d, S) PROVE Follows(t, n, q, d, S)
  BY <1>2, <1>3 DEF Follows
<1>4. ASSUME NEW c, ResumesAt(s, n, q, d, c) PROVE ResumesAt(t, n, q, d, c)
  BY <1>2, <1>4 DEF ResumesAt
<1>5. QED
  BY <1>3, <1>4 DEF Resumes

\* So they do of what is queued and stored.
LEMMA GrownSent ==
  ASSUME NEW s \in Seq(Changes), NEW t \in Seq(Changes), Grown(s, t), NEW q, NEW S
  PROVE  (Sent(s, q) => Sent(t, q)) /\ (Heard(s, S) => Heard(t, S))
<1>1. Len(s) \in Nat /\ Len(t) \in Nat
  BY LenProperties
<1>2. \A p \in 1 .. Len(s) : p \in 1 .. Len(t) /\ t[p] = s[p] /\ (Adds(s, p) <=> Adds(t, p))
  BY <1>1 DEF Grown, Adds
<1>3. QED
  BY <1>2 DEF Sent, Heard

\* One more change is delivered, and queued.
LEMMA ReceiveFollows ==
  ASSUME NEW s \in Seq(Changes), NEW q \in Seq(Changes), NEW n \in Nat, n + 1 \in 1 .. Len(s),
         NEW d, NEW S, Follows(s, n, q, d, S)
  PROVE  Follows(s, n + 1, Append(q, s[n + 1]), d, S)
<1> DEFINE c == s[n + 1]
<1>1. Len(s) \in Nat /\ Len(q) \in Nat /\ c \in Changes
  BY LenProperties, ElementOfSeq
<1>2. Len(Append(q, c)) = Len(q) + 1
  BY <1>1, AppendAt
<1>3. PICK p \in 0 .. Len(s), i \in 0 .. Len(q) :
        /\ LastToggle(s, n, p, d)
        /\ LastToggle(q, Len(q), i, d)
        /\ (IF i = 0 THEN d \in S ELSE Adds(q, i)) <=> Adds(s, p)
  BY DEF Follows
<1> HIDE DEF c
<1>4. PICK k \in 0 .. Len(q) + 1 :
        /\ LastToggle(Append(q, c), Len(q) + 1, k, d)
        /\ k = IF Toggles(c, d) THEN Len(q) + 1 ELSE i
        /\ Adds(Append(q, c), k) <=> IF Toggles(c, d) THEN c.op = "add" ELSE Adds(q, i)
  BY <1>1, <1>3, LastOfAppend
<1> DEFINE m == IF Toggles(c, d) THEN n + 1 ELSE p
<1>5. m \in 0 .. Len(s)
  BY <1>1
<1>6. LastToggle(s, n + 1, m, d)
  BY <1>1, <1>3 DEF LastToggle, c
<1>7. Adds(s, m) <=> IF Toggles(c, d) THEN c.op = "add" ELSE Adds(s, p)
  BY <1>1 DEF Adds, c
<1>8. (IF k = 0 THEN d \in S ELSE Adds(Append(q, c), k)) <=> Adds(s, m)
  BY <1>1, <1>3, <1>4, <1>7
<1> HIDE DEF m
<1>9. Follows(s, n + 1, Append(q, c), d, S)
  BY <1>2, <1>4, <1>5, <1>6, <1>8 DEF Follows
<1>10. QED
  BY <1>9 DEF c

LEMMA ReceiveResumes ==
  ASSUME NEW s \in Seq(Changes), NEW q \in Seq(Changes), NEW n \in Nat, n + 1 \in 1 .. Len(s),
         s[n + 1] = Create => n = 0, NEW d, Resumes(s, n, q, d)
  PROVE  Resumes(s, n + 1, Append(q, s[n + 1]), d)
<1> DEFINE h == s[n + 1]
           r == Append(q, h)
<1>1. Len(s) \in Nat /\ Len(q) \in Nat /\ h \in Changes
  BY LenProperties, ElementOfSeq
<1>2. /\ Len(r) = Len(q) + 1 /\ r[Len(q) + 1] = h
      /\ \A i \in 1 .. Len(q) : r[i] = q[i]
  BY <1>1, AppendAt
<1> HIDE DEF r
<1>3. ASSUME NEW c \in 1 .. Len(q), q[c] = Create PROVE ResumesAt(s, n + 1, r, d, c)
  <2>1. PICK p \in 0 .. Len(s), i \in c .. Len(q) :
          /\ LastToggle(s, n, p, d)
          /\ i = c \/ Toggles(q[i], d)
          /\ \A j \in 1 .. Len(q) : j > i => ~ Toggles(q[j], d)
          /\ IF i = c THEN p = 0 ELSE Adds(q, i) <=> Adds(s, p)
    BY <1>3 DEF Resumes, ResumesAt
  <2>2. CASE Toggles(h, d)
    <3>1. n + 1 \in 0 .. Len(s) /\ Len(q) + 1 \in c .. Len(r) /\ Len(q) + 1 # c
      BY <1>1, <1>2
    <3>2. LastToggle(s, n + 1, n + 1, d)
      BY <2>2, <1>1 DEF LastToggle
    <3>3. Toggles(r[Len(q) + 1], d) /\ \A j \in 1 .. Len(r) : j > Len(q) + 1 => ~ Toggles(r[j], d)
      BY <1>1, <1>2, <2>2
    <3>4. Adds(r, Len(q) + 1) <=> Adds(s, n + 1)
      BY <1>1, <1>2 DEF Adds
    <3>5. QED
      BY <3>1, <3>2, <3>3, <3>4 DEF ResumesAt
  <2>3. CASE ~ Toggles(h, d)
    <3>1. i \in c .. Len(r) /\ (i = c \/ Toggles(r[i], d))
      BY <1>1, <1>2, <2>1
    <3>2. \A j \in 1 .. Len(r) : j > i => ~ Toggles(r[j], d)
      BY <1>1, <1>2, <2>1, <2>3
    <3>3. LastToggle(s, n + 1, p, d)
      BY <1>1, <2>1, <2>3 DEF LastToggle
    <3>4. Adds(r, i) <=> Adds(q, i)
      BY <1>1, <1>2 DEF Adds
    <3>5. QED
      BY <2>1, <3>1, <3>2, <3>3, <3>4 DEF ResumesAt
  <2>4. QED
    BY <2>2, <2>3
<1>4. ASSUME h = Create PROVE ResumesAt(s, n + 1, r, d, Len(q) + 1)
  <2>1. 0 \in 0 .. Len(s) /\ Len(q) + 1 \in Len(q) + 1 .. Len(r)
    BY <1>1, <1>2
  <2>2. LastToggle(s, n + 1, 0, d)
    BY <1>1, <1>4 DEF LastToggle, Toggles, Create
  <2>3. \A j \in 1 .. Len(r) : j > Len(q) + 1 => ~ Toggles(r[j], d)
    BY <1>1, <1>2
  <2>4. QED
    BY <2>1, <2>2, <2>3 DEF ResumesAt
<1>5. ASSUME NEW c \in 1 .. Len(r), r[c] = Create PROVE ResumesAt(s, n + 1, r, d, c)
  <2>1. CASE c = Len(q) + 1
    BY <1>2, <1>4, <1>5, <2>1
  <2>2. CASE c # Len(q) + 1
    <3>1. c \in 1 .. Len(q) /\ q[c] = Create
      BY <1>1, <1>2, <1>5, <2>2
    <3>2. QED
      BY <1>3, <3>1
  <2>3. QED
    BY <2>1, <2>2
<1>6. Resumes(s, n + 1, r, d)
  BY <1>5 DEF Resumes
<1>7. QED
  BY <1>6 DEF r

LEMMA ReceiveSent ==
  ASSUME NEW s \in Seq(Changes), NEW q \in Seq(Changes), NEW n \in Nat, n + 1 \in 1 .. Len(s), Sent(s, q)
  PROVE  Sent(s, Append(q, s[n + 1]))
<1>1. s[n + 1] \in Changes
  BY ElementOfSeq
<1>2. /\ Len(q) \in Nat /\ Len(Append(q, s[n + 1])) = Len(q) + 1
      /\ \A i \in 1 .. Len(q) : Append(q, s[n + 1])[i] = q[i]
      /\ Append(q, s[n + 1])[Len(q) + 1] = s[n + 1]
  BY <1>1, AppendAt
<1>3. \A i \in 1 .. Len(q) + 1 : i \in 1 .. Len(q) \/ i = Len(q) + 1
  BY <1>2
<1>4. QED
  BY <1>2, <1>3 DEF Sent

\* The first of the changes is handled, and the window shows what it says.
LEMMA HandleFollows ==
  ASSUME NEW s \in Seq(Changes), NEW n \in Nat, NEW q \in Seq(Changes), q # <<>>, NEW d, NEW S, NEW T,
         d \in T <=> IF Toggles(Head(q), d) THEN Head(q).op = "add" ELSE d \in S,
         Follows(s, n, q, d, S)
  PROVE  Follows(s, n, Tail(q), d, T)
<1>1. PICK p \in 0 .. Len(s), i \in 0 .. Len(q) :
        /\ LastToggle(s, n, p, d)
        /\ LastToggle(q, Len(q), i, d)
        /\ (IF i = 0 THEN d \in S ELSE Adds(q, i)) <=> Adds(s, p)
  BY DEF Follows
<1>2. /\ Head(q) = q[1]
      /\ Len(q) \in Nat /\ Len(q) > 0 /\ Len(Tail(q)) = Len(q) - 1
      /\ \A j \in 1 .. Len(q) - 1 : Tail(q)[j] = q[j + 1]
  BY TailAt
<1> DEFINE k == IF i = 0 THEN 0 ELSE i - 1
<1>3. k \in 0 .. Len(Tail(q))
  BY <1>2
<1>4. LastToggle(Tail(q), Len(Tail(q)), k, d)
  <2>1. k = 0 \/ Toggles(Tail(q)[k], d)
    BY <1>1, <1>2 DEF LastToggle
  <2>2. ASSUME NEW j \in 1 .. Len(Tail(q)), j > k PROVE ~ Toggles(Tail(q)[j], d)
    <3>1. j + 1 \in 1 .. Len(q) /\ j + 1 > i /\ Tail(q)[j] = q[j + 1]
      BY <1>2, <2>2
    <3>2. QED
      BY <1>1, <3>1 DEF LastToggle
  <2>3. QED
    BY <2>1, <2>2 DEF LastToggle
<1>5. (IF k = 0 THEN d \in T ELSE Adds(Tail(q), k)) <=> Adds(s, p)
  <2>1. CASE i = 0
    <3>1. ~ Toggles(Head(q), d)
      BY <1>1, <1>2, <2>1 DEF LastToggle
    <3>2. QED
      BY <1>1, <2>1, <3>1
  <2>2. CASE i = 1
    BY <1>1, <1>2, <2>2 DEF LastToggle, Adds
  <2>3. CASE i > 1
    BY <1>1, <1>2, <2>3 DEF Adds
  <2>4. QED
    BY <2>1, <2>2, <2>3
<1> HIDE DEF k
<1>6. QED
  BY <1>1, <1>3, <1>4, <1>5 DEF Follows

\* The message itself is handled, by a window that has none, and whose history
\* holds at most reactions that will be heard again.
LEMMA CreateFollows ==
  ASSUME NEW s \in Seq(Changes), NEW n \in Nat, NEW q \in Seq(Changes), q # <<>>, Head(q) = Create,
         NEW d, NEW S, Heard(s, S), Resumes(s, n, q, d)
  PROVE  Follows(s, n, Tail(q), d, S)
<1>1. /\ Head(q) = q[1]
      /\ Len(q) \in Nat /\ Len(q) > 0 /\ Len(Tail(q)) = Len(q) - 1
      /\ \A j \in 1 .. Len(q) - 1 : Tail(q)[j] = q[j + 1]
  BY TailAt
<1>2. Len(s) \in Nat
  BY LenProperties
<1>3. PICK p \in 0 .. Len(s), i \in 1 .. Len(q) :
        /\ LastToggle(s, n, p, d)
        /\ i = 1 \/ Toggles(q[i], d)
        /\ \A j \in 1 .. Len(q) : j > i => ~ Toggles(q[j], d)
        /\ IF i = 1 THEN p = 0 ELSE Adds(q, i) <=> Adds(s, p)
  <2>1. 1 \in 1 .. Len(q) /\ q[1] = Create
    BY <1>1
  <2>2. ResumesAt(s, n, q, d, 1)
    BY <2>1 DEF Resumes
  <2>3. QED
    BY <2>2 DEF ResumesAt
<1>4. i - 1 \in 0 .. Len(Tail(q)) /\ LastToggle(Tail(q), Len(Tail(q)), i - 1, d)
  <2>1. i - 1 = 0 \/ Toggles(Tail(q)[i - 1], d)
    BY <1>1, <1>3
  <2>2. ASSUME NEW j \in 1 .. Len(Tail(q)), j > i - 1 PROVE ~ Toggles(Tail(q)[j], d)
    <3>1. j + 1 \in 1 .. Len(q) /\ j + 1 > i /\ Tail(q)[j] = q[j + 1]
      BY <1>1, <2>2
    <3>2. QED
      BY <1>3, <3>1
  <2>3. QED
    BY <1>1, <2>1, <2>2 DEF LastToggle
<1>5. CASE i # 1
  <2>1. Adds(Tail(q), i - 1) <=> Adds(s, p)
    BY <1>1, <1>3, <1>5 DEF Adds
  <2>2. QED
    BY <1>3, <1>4, <1>5, <2>1 DEF Follows
<1>6. CASE i = 1
  <2>1. PICK m \in 0 .. Len(s) : IF d \in S THEN m # 0 /\ Toggles(s[m], d) /\ Adds(s, m) ELSE m = 0
    BY <1>2 DEF Heard
  <2>2. LastToggle(s, n, m, d)
    BY <1>3, <1>6, <2>1 DEF LastToggle
  <2>3. d \in S <=> Adds(s, m)
    BY <2>1 DEF Adds
  <2>4. QED
    BY <1>4, <1>6, <2>2, <2>3 DEF Follows
<1>7. QED
  BY <1>5, <1>6

LEMMA HandleResumes ==
  ASSUME NEW s \in Seq(Changes), NEW n \in Nat, NEW q \in Seq(Changes), q # <<>>, NEW d, Resumes(s, n, q, d)
  PROVE  Resumes(s, n, Tail(q), d)
<1>1. /\ Len(q) \in Nat /\ Len(q) > 0 /\ Len(Tail(q)) = Len(q) - 1
      /\ \A j \in 1 .. Len(q) - 1 : Tail(q)[j] = q[j + 1]
  BY TailAt
<1>2. ASSUME NEW c \in 1 .. Len(Tail(q)), Tail(q)[c] = Create PROVE ResumesAt(s, n, Tail(q), d, c)
  <2>1. c + 1 \in 1 .. Len(q) /\ q[c + 1] = Create
    BY <1>1, <1>2
  <2>2. PICK p \in 0 .. Len(s), i \in c + 1 .. Len(q) :
          /\ LastToggle(s, n, p, d)
          /\ i = c + 1 \/ Toggles(q[i], d)
          /\ \A j \in 1 .. Len(q) : j > i => ~ Toggles(q[j], d)
          /\ IF i = c + 1 THEN p = 0 ELSE Adds(q, i) <=> Adds(s, p)
    BY <2>1 DEF Resumes, ResumesAt
  <2>3. i - 1 \in c .. Len(Tail(q)) /\ Tail(q)[i - 1] = q[i] /\ (i - 1 = c <=> i = c + 1)
    BY <1>1
  <2>4. ASSUME NEW j \in 1 .. Len(Tail(q)), j > i - 1 PROVE ~ Toggles(Tail(q)[j], d)
    <3>1. j + 1 \in 1 .. Len(q) /\ j + 1 > i /\ Tail(q)[j] = q[j + 1]
      BY <1>1, <2>4
    <3>2. QED
      BY <2>2, <3>1
  <2>5. Adds(Tail(q), i - 1) <=> Adds(q, i)
    BY <1>1, <2>3 DEF Adds
  <2>6. QED
    BY <2>2, <2>3, <2>4, <2>5 DEF ResumesAt
<1>3. QED
  BY <1>2 DEF Resumes

LEMMA HandleSent ==
  ASSUME NEW s, NEW q \in Seq(Changes), q # <<>>, Sent(s, q)
  PROVE  Sent(s, Tail(q)) /\ \E p \in 1 .. Len(s) : s[p] = Head(q)
<1>1. /\ Head(q) = q[1]
      /\ Len(q) \in Nat /\ Len(q) > 0 /\ Len(Tail(q)) = Len(q) - 1
      /\ \A j \in 1 .. Len(q) - 1 : Tail(q)[j] = q[j + 1]
  BY TailAt
<1>2. 1 \in 1 .. Len(q) /\ \A j \in 1 .. Len(q) - 1 : j + 1 \in 1 .. Len(q)
  BY <1>1
<1>3. QED
  BY <1>1, <1>2 DEF Sent

\* Redelivery starts at an earlier change; what was handled stays.
LEMMA ConnectFollows ==
  ASSUME NEW s, NEW n \in Nat, NEW m \in 0 .. n, NEW q, NEW d, NEW S
  PROVE  /\ Follows(s, n, q, d, S) => Follows(s, m, q, d, S)
         /\ Resumes(s, n, q, d) => Resumes(s, m, q, d)
<1>1. \A p : LastToggle(s, n, p, d) => LastToggle(s, m, p, d)
  BY DEF LastToggle
<1>2. ASSUME Follows(s, n, q, d, S) PROVE Follows(s, m, q, d, S)
  BY <1>1, <1>2 DEF Follows
<1>3. ASSUME NEW c, ResumesAt(s, n, q, d, c) PROVE ResumesAt(s, m, q, d, c)
  BY <1>1, <1>3 DEF ResumesAt
<1>4. QED
  BY <1>2, <1>3 DEF Resumes

\* What is published to every session is the last word in each of them.
LEMMA ToAllAgree ==
  ASSUME TypeOK, Sessions, Agree, NEW c \in Changes, c # Create, inbox' = ToAll(c), UNCHANGED next
  PROVE  Sessions' /\ Agree' /\ \A w \in Windows : Grown(inbox[w], inbox'[w])
<1>1. \A w \in Windows :
        /\ inbox[w] \in Seq(Changes) /\ inbox'[w] = Append(inbox[w], c)
        /\ Len(inbox[w]) \in Nat /\ Len(inbox'[w]) = Len(inbox[w]) + 1
        /\ \A i \in 1 .. Len(inbox[w]) : inbox'[w][i] = inbox[w][i]
  BY AppendAt DEF TypeOK, ToAll
<1>2. Sessions'
  <2> SUFFICES ASSUME NEW w \in Windows
               PROVE  /\ next[w] <= Len(inbox'[w])
                      /\ \A j \in 1 .. Len(inbox'[w]) : inbox'[w][j] = Create => j = 1
    BY DEF Sessions
  <2>1. next[w] \in Nat /\ next[w] <= Len(inbox[w])
    BY DEF Sessions, TypeOK
  <2>2. inbox'[w][Len(inbox[w]) + 1] = c
    BY <1>1, AppendAt
  <2>3. \A j \in 1 .. Len(inbox[w]) : inbox'[w][j] = Create => j = 1
    BY <1>1 DEF Sessions
  <2>4. ASSUME NEW j \in 1 .. Len(inbox'[w]), inbox'[w][j] = Create PROVE j \in 1 .. Len(inbox[w])
    BY <1>1, <2>2, <2>4
  <2>5. QED
    BY <1>1, <2>1, <2>3, <2>4
<1>3. Agree'
  <2> SUFFICES ASSUME NEW v \in Windows, NEW w \in Windows, NEW d \in Windows
               PROVE  \E p \in 0 .. Len(inbox'[v]), q \in 0 .. Len(inbox'[w]) :
                        /\ LastToggle(inbox'[v], Len(inbox'[v]), p, d)
                        /\ LastToggle(inbox'[w], Len(inbox'[w]), q, d)
                        /\ Adds(inbox'[v], p) <=> Adds(inbox'[w], q)
    BY DEF Agree
  <2>1. PICK p \in 0 .. Len(inbox[v]), q \in 0 .. Len(inbox[w]) :
          /\ LastToggle(inbox[v], Len(inbox[v]), p, d)
          /\ LastToggle(inbox[w], Len(inbox[w]), q, d)
          /\ Adds(inbox[v], p) <=> Adds(inbox[w], q)
    BY DEF Agree
  <2>2. PICK p1 \in 0 .. Len(inbox'[v]) :
          /\ LastToggle(inbox'[v], Len(inbox'[v]), p1, d)
          /\ Adds(inbox'[v], p1) <=> IF Toggles(c, d) THEN c.op = "add" ELSE Adds(inbox[v], p)
    <3>1. inbox[v] \in Seq(Changes) /\ LastToggle(inbox[v], Len(inbox[v]), p, d)
      BY <1>1, <2>1
    <3>2. \E k \in 0 .. Len(inbox[v]) + 1 :
            /\ LastToggle(Append(inbox[v], c), Len(inbox[v]) + 1, k, d)
            /\ Adds(Append(inbox[v], c), k) <=> IF Toggles(c, d) THEN c.op = "add" ELSE Adds(inbox[v], p)
      BY <3>1, LastOfAppend
    <3>3. inbox'[v] = Append(inbox[v], c) /\ Len(inbox'[v]) = Len(inbox[v]) + 1
      BY <1>1
    <3>4. QED
      BY <3>2, <3>3
  <2>3. PICK q1 \in 0 .. Len(inbox'[w]) :
          /\ LastToggle(inbox'[w], Len(inbox'[w]), q1, d)
          /\ Adds(inbox'[w], q1) <=> IF Toggles(c, d) THEN c.op = "add" ELSE Adds(inbox[w], q)
    <3>1. inbox[w] \in Seq(Changes) /\ LastToggle(inbox[w], Len(inbox[w]), q, d)
      BY <1>1, <2>1
    <3>2. \E k \in 0 .. Len(inbox[w]) + 1 :
            /\ LastToggle(Append(inbox[w], c), Len(inbox[w]) + 1, k, d)
            /\ Adds(Append(inbox[w], c), k) <=> IF Toggles(c, d) THEN c.op = "add" ELSE Adds(inbox[w], q)
      BY <3>1, LastOfAppend
    <3>3. inbox'[w] = Append(inbox[w], c) /\ Len(inbox'[w]) = Len(inbox[w]) + 1
      BY <1>1
    <3>4. QED
      BY <3>2, <3>3
  <2>4. QED
    BY <2>1, <2>2, <2>3
<1>4. QED
  BY <1>1, <1>2, <1>3 DEF Grown

\* Receipts, appended to one session, are nobody's reaction.
LEMMA ReceiptsAgree ==
  ASSUME TypeOK, TypeOK', Sessions, Agree, NEW r \in Readers, FlushReceipts(r)
  PROVE  /\ Sessions' /\ Agree'
         /\ \A w \in Windows : Grown(inbox[w], inbox'[w])
<1> DEFINE batch == [i \in DOMAIN queue[r] |-> Receipt(r, queue[r][i])]
<1>1. /\ batch \in Seq(Changes) /\ Len(batch) \in Nat
      /\ \A i \in 1 .. Len(batch) : batch[i].op \in Reports
  <2>1. Len(queue[r]) \in Nat /\ DOMAIN queue[r] = 1 .. Len(queue[r])
    BY LenProperties DEF TypeOK
  <2>2. \A i \in 1 .. Len(queue[r]) : queue[r][i] \in Reports
    BY ElementOfSeq DEF TypeOK
  <2>3. \A i \in 1 .. Len(queue[r]) : batch[i] \in Changes /\ batch[i].op \in Reports
    BY <2>1, <2>2 DEF Receipt, Changes
  <2>4. batch \in [1 .. Len(queue[r]) -> Changes]
    BY <2>1, <2>3
  <2>5. batch \in Seq(Changes)
    BY <2>1, <2>4, SeqDef
  <2>6. Len(batch) = Len(queue[r])
    BY <2>1, <2>4, <2>5, LenProperties
  <2>7. QED
    BY <2>1, <2>3, <2>5, <2>6
<1>2. inbox' = [inbox EXCEPT ![Author] = inbox[Author] \o batch] /\ UNCHANGED next
  BY DEF FlushReceipts, Flushed
<1> HIDE DEF batch
<1>3. \A w \in Windows :
        /\ inbox[w] \in Seq(Changes) /\ inbox'[w] \in Seq(Changes)
        /\ Len(inbox[w]) \in Nat /\ Len(inbox'[w]) \in Nat
        /\ next[w] \in Nat /\ next'[w] = next[w]
  BY <1>2, LenProperties DEF TypeOK
<1>4. ASSUME NEW w \in Windows
      PROVE  /\ Len(inbox'[w]) >= Len(inbox[w])
             /\ \A i \in 1 .. Len(inbox[w]) : inbox'[w][i] = inbox[w][i]
             /\ \A i \in Len(inbox[w]) + 1 .. Len(inbox'[w]) : inbox'[w][i].op \in Reports
  <2>1. CASE w # Author
    BY <1>2, <1>3, <2>1 DEF TypeOK
  <2>2. CASE w = Author
    <3>1. inbox'[w] = inbox[w] \o batch
      BY <1>2, <2>2 DEF TypeOK, Windows
    <3>2. /\ Len(inbox[w] \o batch) = Len(inbox[w]) + Len(batch)
          /\ \A i \in 1 .. Len(inbox[w]) + Len(batch) :
               (inbox[w] \o batch)[i] = IF i <= Len(inbox[w]) THEN inbox[w][i] ELSE batch[i - Len(inbox[w])]
      BY <1>1, <1>3, ConcatProperties
    <3>3. \A i \in Len(inbox[w]) + 1 .. Len(inbox[w]) + Len(batch) : i - Len(inbox[w]) \in 1 .. Len(batch)
      BY <1>1, <1>3
    <3>4. QED
      BY <1>1, <1>3, <3>1, <3>2, <3>3
  <2>3. QED
    BY <2>1, <2>2
<1>5. Sessions'
  <2> SUFFICES ASSUME NEW w \in Windows
               PROVE  /\ next'[w] <= Len(inbox'[w])
                      /\ \A j \in 1 .. Len(inbox'[w]) : inbox'[w][j] = Create => j = 1
    BY DEF Sessions
  <2>1. next[w] <= Len(inbox[w]) /\ \A j \in 1 .. Len(inbox[w]) : inbox[w][j] = Create => j = 1
    BY DEF Sessions
  <2>2. Create.op \notin Reports
    BY DEF Create, Reports
  <2>3. ASSUME NEW j \in 1 .. Len(inbox'[w]), inbox'[w][j] = Create PROVE j \in 1 .. Len(inbox[w])
    <3>1. j \notin Len(inbox[w]) + 1 .. Len(inbox'[w])
      BY <1>4, <2>2, <2>3
    <3>2. QED
      BY <1>3, <3>1
  <2>4. QED
    BY <1>3, <1>4, <2>1, <2>3
<1>6. ASSUME NEW w \in Windows, NEW d \in Windows, NEW p \in 0 .. Len(inbox[w]),
             LastToggle(inbox[w], Len(inbox[w]), p, d)
      PROVE  /\ p \in 0 .. Len(inbox'[w])
             /\ LastToggle(inbox'[w], Len(inbox'[w]), p, d)
             /\ Adds(inbox'[w], p) <=> Adds(inbox[w], p)
  <2>1. p \in 0 .. Len(inbox'[w]) /\ (p # 0 => inbox'[w][p] = inbox[w][p])
    BY <1>3, <1>4
  <2>2. ASSUME NEW j \in 1 .. Len(inbox'[w]), j > p PROVE ~ Toggles(inbox'[w][j], d)
    <3>1. CASE j <= Len(inbox[w])
      BY <1>3, <1>4, <1>6, <2>2, <3>1 DEF LastToggle
    <3>2. CASE j > Len(inbox[w])
      <4>1. j \in Len(inbox[w]) + 1 .. Len(inbox'[w])
        BY <1>3, <3>2
      <4>2. inbox'[w][j].op \in Reports
        BY <1>4, <4>1
      <4>3. QED
        BY <4>2 DEF Toggles, Reports
    <3>3. QED
      BY <1>3, <3>1, <3>2
  <2>3. QED
    BY <1>6, <2>1, <2>2 DEF LastToggle, Adds
<1>7. Agree'
  <2> SUFFICES ASSUME NEW v \in Windows, NEW w \in Windows, NEW d \in Windows
               PROVE  \E p \in 0 .. Len(inbox'[v]), q \in 0 .. Len(inbox'[w]) :
                        /\ LastToggle(inbox'[v], Len(inbox'[v]), p, d)
                        /\ LastToggle(inbox'[w], Len(inbox'[w]), q, d)
                        /\ Adds(inbox'[v], p) <=> Adds(inbox'[w], q)
    BY DEF Agree
  <2>1. PICK p \in 0 .. Len(inbox[v]), q \in 0 .. Len(inbox[w]) :
          /\ LastToggle(inbox[v], Len(inbox[v]), p, d)
          /\ LastToggle(inbox[w], Len(inbox[w]), q, d)
          /\ Adds(inbox[v], p) <=> Adds(inbox[w], q)
    BY DEF Agree
  <2>2. p \in 0 .. Len(inbox'[v]) /\ q \in 0 .. Len(inbox'[w])
    BY <1>6, <2>1
  <2>3. LastToggle(inbox'[v], Len(inbox'[v]), p, d) /\ LastToggle(inbox'[w], Len(inbox'[w]), q, d)
    BY <1>6, <2>1
  <2>4. Adds(inbox'[v], p) <=> Adds(inbox'[w], q)
    BY <1>6, <2>1
  <2>5. QED
    BY <2>2, <2>3, <2>4
<1>8. QED
  BY <1>4, <1>5, <1>7 DEF Grown

\* A window whose session grew, and that did nothing, is in step as before.
LEMMA GrownInStep ==
  ASSUME TypeOK, TypeOK', Sessions, NEW w \in Windows, InStep(w), Grown(inbox[w], inbox'[w]),
         next'[w] = next[w], idle'[w] = idle[w],
         entry'[w] = entry[w], row'[w] = row[w], reactions'[w] = reactions[w], stored'[w] = stored[w],
         lost' = {} => lost = {}
  PROVE  InStep(w)'
<1>1. /\ inbox[w] \in Seq(Changes) /\ inbox'[w] \in Seq(Changes)
      /\ next[w] \in Nat /\ next[w] <= Len(inbox[w])
  BY DEF TypeOK, Sessions
<1>2. Resuming(w)'
  BY <1>1, GrownFollows, GrownSent DEF InStep, Resuming
<1>3. Anchored(w)'
  BY DEF InStep, Anchored
<1>4. Following(w) => Following(w)'
  BY <1>1, GrownFollows DEF Following
<1>5. QED
  BY <1>2, <1>3, <1>4 DEF InStep

\* Nothing is followed any more of a message deleted, for everyone or here; what
\* is left in history of one pruned before was published.
LEMMA ForgetInStep ==
  ASSUME TypeOK, TypeOK', Sessions, NEW w \in Windows, InStep(w), Grown(inbox[w], inbox'[w]),
         next'[w] = next[w], idle'[w] = idle[w],
         NEW shown \in {"deleted", "none"}, Forget(w, shown), MarkDeleted(w) \/ HideMessage(w)
  PROVE  /\ InStep(w)'
         /\ \A v \in Windows : v # w => /\ entry'[v] = entry[v] /\ row'[v] = row[v]
                                       /\ reactions'[v] = reactions[v] /\ stored'[v] = stored[v]
<1>1. /\ inbox[w] \in Seq(Changes) /\ inbox'[w] \in Seq(Changes)
      /\ next[w] \in Nat /\ next[w] <= Len(inbox[w])
  BY DEF TypeOK, Sessions
<1>2. /\ entry'[w] # "shown" /\ row'[w] # "text" /\ reactions'[w] = {}
      /\ stored'[w] = {} \/ stored'[w] = stored[w]
  <2>1. /\ entry \in [Windows -> Entries] /\ row \in [Windows -> Rows]
        /\ reactions \in [Windows -> SUBSET Windows] /\ stored \in [Windows -> SUBSET Windows]
    BY DEF TypeOK, Entries, Rows
  <2>2. entry'[w] = shown /\ reactions'[w] = {}
    BY <2>1 DEF Forget
  <2>3. CASE MarkDeleted(w)
    BY <2>1, <2>2, <2>3 DEF MarkDeleted, ForgetExtras
  <2>4. CASE HideMessage(w)
    BY <2>1, <2>2, <2>4 DEF HideMessage, ForgetExtras
  <2>5. QED
    BY <2>3, <2>4
<1>3. Heard(inbox'[w], stored'[w])
  <2>1. Heard(inbox'[w], stored[w])
    BY <1>1, GrownSent DEF InStep, Resuming
  <2>2. QED
    BY <1>2, <2>1 DEF Heard
<1>4. Resuming(w)'
  BY <1>1, <1>3, GrownFollows, GrownSent DEF InStep, Resuming
<1>5. Anchored(w)' /\ Following(w)'
  BY <1>2 DEF Anchored, Following
<1>6. ASSUME NEW v \in Windows, v # w
      PROVE  /\ entry'[v] = entry[v] /\ row'[v] = row[v]
             /\ reactions'[v] = reactions[v] /\ stored'[v] = stored[v]
  <2>1. entry'[v] = entry[v] /\ reactions'[v] = reactions[v]
    BY <1>6 DEF Forget, TypeOK
  <2>2. CASE MarkDeleted(w)
    BY <1>6, <2>1, <2>2 DEF MarkDeleted, ForgetExtras, TypeOK
  <2>3. CASE HideMessage(w)
    BY <1>6, <2>1, <2>3 DEF HideMessage, ForgetExtras, TypeOK
  <2>4. QED
    BY <2>2, <2>3
<1>7. QED
  BY <1>4, <1>5, <1>6 DEF InStep

\* A window that receives a change follows one more.
LEMMA ReceiveInStep ==
  ASSUME TypeOK, Sessions, NEW w \in Windows, InStep(w), Receive(w)
  PROVE  InStep(w)'
<1>1. /\ inbox[w] \in Seq(Changes) /\ idle[w] \in Seq(Changes)
      /\ next[w] \in Nat /\ next[w] + 1 \in 1 .. Len(inbox[w])
      /\ inbox[w][next[w] + 1] = Create => next[w] = 0
  BY LenProperties DEF TypeOK, Sessions, Receive
<1>2. /\ idle'[w] = Append(idle[w], inbox[w][next[w] + 1]) /\ next'[w] = next[w] + 1
      /\ UNCHANGED <<inbox, entry, row, reactions, stored, lost>>
  BY DEF Receive, TypeOK
<1>3. \A d \in Windows : Resumes(inbox[w], next[w] + 1, Append(idle[w], inbox[w][next[w] + 1]), d)
  BY <1>1, ReceiveResumes DEF InStep, Resuming
<1>4. Sent(inbox[w], Append(idle[w], inbox[w][next[w] + 1]))
  BY <1>1, ReceiveSent DEF InStep, Resuming
<1>5. Resuming(w)'
  BY <1>2, <1>3, <1>4 DEF InStep, Resuming
<1>6. \A d, S : Follows(inbox[w], next[w], idle[w], d, S)
                => Follows(inbox[w], next[w] + 1, Append(idle[w], inbox[w][next[w] + 1]), d, S)
  BY <1>1, ReceiveFollows
<1>7. Following(w) => Following(w)'
  BY <1>2, <1>6 DEF Following
<1>8. QED
  BY <1>2, <1>5, <1>7 DEF InStep, Anchored

\* A window that connects is sent some changes again.
LEMMA ConnectInStep ==
  ASSUME TypeOK, NEW w \in Windows, InStep(w), Connect(w)
  PROVE  InStep(w)'
<1>1. /\ next[w] \in Nat /\ next'[w] \in 0 .. next[w]
      /\ UNCHANGED <<inbox, idle, entry, row, reactions, stored, lost>>
  BY DEF Connect, TypeOK
<1>2. \A d, S : /\ Follows(inbox[w], next[w], idle[w], d, S) => Follows(inbox[w], next'[w], idle[w], d, S)
                /\ Resumes(inbox[w], next[w], idle[w], d) => Resumes(inbox[w], next'[w], idle[w], d)
  BY <1>1, ConnectFollows
<1>3. Resuming(w)' /\ (Following(w) => Following(w)')
  BY <1>1, <1>2 DEF InStep, Resuming, Following
<1>4. QED
  BY <1>1, <1>3 DEF InStep, Anchored

\* A window that handles a change shows what it says, or the message anew.
LEMMA HandleInStep ==
  ASSUME TypeOK, NEW w \in Windows, InStep(w), Handle(w)
  PROVE  InStep(w)'
<1> DEFINE c == Head(idle[w])
<1>1. /\ inbox[w] \in Seq(Changes) /\ next[w] \in Nat
      /\ idle[w] \in Seq(Changes) /\ idle[w] # <<>> /\ c \in Changes
      /\ idle'[w] = Tail(idle[w]) /\ inbox' = inbox /\ next' = next /\ lost' = lost
  BY HeadIsChange DEF TypeOK, Handle, session
<1>2. \/ c = Create /\ HandleCreate(w)
      \/ c = Delete /\ HandleDelete(w)
      \/ c.op \in {"add", "remove"} /\ HandleReaction(w, c)
      \/ c.op \in {"delivered", "read"} /\ HandleReceipt(c)
  BY DEF Handle
<1>3. /\ Sent(inbox[w], Tail(idle[w])) /\ \E p \in 1 .. Len(inbox[w]) : inbox[w][p] = c
      /\ Heard(inbox[w], stored[w]) /\ Anchored(w)
      /\ \A d \in Windows : Resumes(inbox[w], next[w], Tail(idle[w]), d)
      /\ \A d \in Windows : Resumes(inbox[w], next[w], idle[w], d)
  <2>1. Resuming(w) /\ Anchored(w)
    BY DEF InStep
  <2>2. QED
    BY <1>1, <2>1, HandleSent, HandleResumes DEF Resuming
<1> HIDE DEF c
<1>4. ASSUME Heard(inbox[w], stored'[w]), Anchored(w)', lost = {} => Following(w)'
      PROVE  InStep(w)'
  BY <1>1, <1>3, <1>4 DEF InStep, Resuming
<1>5. ASSUME NEW d, ~ Toggles(c, d), NEW S, Follows(inbox[w], next[w], idle[w], d, S)
      PROVE  Follows(inbox[w], next[w], Tail(idle[w]), d, S)
  BY <1>1, <1>5, HandleFollows DEF c
<1>6. ASSUME c.op \notin {"add", "remove"},
             entry'[w] = entry[w], row'[w] = row[w], reactions'[w] = reactions[w], stored'[w] = stored[w]
      PROVE  InStep(w)'
  <2>1. \A d : ~ Toggles(c, d)
    BY <1>6 DEF Toggles
  <2>2. lost = {} => Following(w)'
    BY <1>1, <1>5, <1>6, <2>1 DEF InStep, Following
  <2>3. QED
    BY <1>3, <1>4, <1>6, <2>2 DEF Anchored
<1>7. CASE c = Create /\ HandleCreate(w)
  <2>1. CASE UNCHANGED <<entry, row, reactions, stored>>
    BY <1>6, <1>7, <2>1 DEF Create
  <2>2. CASE /\ entry[w] = "none" /\ entry'[w] = "shown" /\ reactions' = reactions
             /\ \/ stored' = stored
                \/ row'[w] = "absent" /\ stored'[w] = {}
    <3>1. reactions[w] = {} /\ Heard(inbox[w], {}) /\ Heard(inbox[w], stored'[w])
      BY <1>3, <2>2 DEF Anchored, Heard
    <3>2. ASSUME NEW d \in Windows, NEW S, Heard(inbox[w], S)
          PROVE  Follows(inbox[w], next[w], Tail(idle[w]), d, S)
      BY <1>1, <1>3, <1>7, <3>2, CreateFollows DEF c
    <3>3. Following(w)' /\ Anchored(w)'
      BY <1>1, <2>2, <3>1, <3>2 DEF Following, Anchored
    <3>4. QED
      BY <1>4, <3>1, <3>3
  <2>3. QED
    BY <1>7, <2>1, <2>2 DEF HandleCreate, Remember, Pruned, TypeOK
<1>8. CASE c = Delete /\ HandleDelete(w)
  <2>1. CASE UNCHANGED <<entry, row, reactions, stored>>
    BY <1>6, <1>8, <2>1 DEF Delete
  <2>2. CASE MarkDeleted(w) /\ Forget(w, "deleted")
    <3>1. /\ entry'[w] # "shown" /\ row'[w] # "text" /\ reactions'[w] = {}
          /\ stored'[w] = {} \/ stored'[w] = stored[w]
      BY <2>2 DEF Forget, MarkDeleted, ForgetExtras, TypeOK
    <3>2. QED
      BY <1>3, <1>4, <3>1 DEF Anchored, Following, Heard
  <2>3. QED
    BY <1>8, <2>1, <2>2 DEF HandleDelete
<1>9. CASE c.op \in {"add", "remove"} /\ HandleReaction(w, c)
  <2>1. CASE entry[w] # "shown"
    <3>1. /\ entry'[w] = entry[w] /\ row'[w] = row[w] /\ row[w] # "text"
          /\ reactions'[w] = reactions[w] /\ stored'[w] = stored[w]
      BY <1>3, <1>9, <2>1 DEF HandleReaction, Anchored
    <3>2. QED
      BY <1>3, <1>4, <2>1, <3>1 DEF Anchored, Following
  <2>2. CASE entry[w] = "shown"
    <3>1. /\ UNCHANGED <<entry, row>>
          /\ reactions'[w] = With(reactions[w], c) /\ stored'[w] = With(stored[w], c)
      BY <1>9, <2>2 DEF HandleReaction, Stored, TypeOK
    <3>2. Heard(inbox[w], stored'[w])
      BY <1>3, <1>9, <3>1 DEF With, Heard, Toggles, Adds
    <3>3. \A d, S : d \in With(S, c) <=> IF Toggles(c, d) THEN c.op = "add" ELSE d \in S
      BY <1>9 DEF With, Toggles
    <3>4. ASSUME NEW d, NEW S, Follows(inbox[w], next[w], idle[w], d, S)
          PROVE  Follows(inbox[w], next[w], Tail(idle[w]), d, With(S, c))
      BY <1>1, <3>3, <3>4, HandleFollows DEF c
    <3>5. lost = {} => Following(w)'
      BY <1>1, <3>1, <3>4 DEF InStep, Following
    <3>6. QED
      BY <1>4, <2>2, <3>1, <3>2, <3>5 DEF Anchored
  <2>3. QED
    BY <2>1, <2>2
<1>10. CASE c.op \in {"delivered", "read"} /\ HandleReceipt(c)
  BY <1>6, <1>10 DEF HandleReceipt
<1>11. QED
  BY <1>2, <1>7, <1>8, <1>9, <1>10

\* A window restarted with nothing waiting shows what history has followed.
LEMMA RestartInStep ==
  ASSUME TypeOK, NEW w \in Windows, InStep(w), Restart(w)
  PROVE  InStep(w)'
<1>1. /\ UNCHANGED <<inbox, next, row, stored>> /\ idle'[w] = <<>> /\ entry'[w] = LoadedEntry(w)
      /\ reactions'[w] = IF row[w] = "text" THEN stored[w] ELSE {}
      /\ lost' = {} => lost = {} /\ idle[w] = <<>>
  BY DEF Restart, TypeOK
<1>2. entry'[w] = "shown" <=> row[w] = "text"
  BY <1>1 DEF LoadedEntry
<1>3. Resuming(w)'
  <2>1. Len(<<>>) = 0
    OBVIOUS
  <2>2. QED
    BY <1>1, <2>1 DEF InStep, Resuming, Sent, Resumes
<1>4. Anchored(w)'
  BY <1>1, <1>2 DEF Anchored
<1>5. lost' = {} => Following(w)'
  BY <1>1, <1>2 DEF InStep, Following
<1>6. QED
  BY <1>3, <1>4, <1>5 DEF InStep

\* Every step preserves ConvergeInv: what is published goes to all sessions, what
\* is received to the end of the queue, and what is handled off its head.
LEMMA ConvergeStep ==
  ASSUME TypeOK, TypeOK', ConvergeInv, [Next]_vars
  PROVE  ConvergeInv'
<1> USE DEF ConvergeInv
<1>1. \A w \in Windows : inbox[w] \in Seq(Changes) /\ Len(inbox[w]) \in Nat /\ Grown(inbox[w], inbox[w])
  BY LenProperties DEF TypeOK, Grown
<1> DEFINE Still(v) == /\ next'[v] = next[v] /\ idle'[v] = idle[v]
                       /\ entry'[v] = entry[v] /\ row'[v] = row[v]
                       /\ reactions'[v] = reactions[v] /\ stored'[v] = stored[v]
<1>2. ASSUME NEW w \in Windows, UNCHANGED inbox, lost' = {} => lost = {},
             next'[w] \in 0 .. Len(inbox[w]), \A v \in Windows : v # w => Still(v), InStep(w)'
      PROVE  ConvergeInv'
  <2>1. Agree'
    BY <1>2 DEF Agree
  <2>2. Sessions'
    BY <1>1, <1>2 DEF Sessions
  <2>3. \A v \in Windows : v # w => InStep(v)'
    BY <1>1, <1>2, GrownInStep
  <2>4. QED
    BY <1>2, <2>1, <2>2, <2>3
<1>3. ASSUME NEW w \in Windows, next'[w] \in 0 .. next[w] PROVE next'[w] \in 0 .. Len(inbox[w])
  BY <1>1, <1>3 DEF TypeOK, Sessions
<1>4. ASSUME UNCHANGED inbox, lost' = {} => lost = {}, \A v \in Windows : Still(v)
      PROVE  ConvergeInv'
  <2>1. Sessions' /\ Agree'
    BY <1>4 DEF Sessions, Agree
  <2>2. \A v \in Windows : InStep(v)'
    BY <1>1, <1>4, GrownInStep
  <2>3. QED
    BY <2>1, <2>2
<1>5. ASSUME NEW w \in Windows, Handle(w) PROVE ConvergeInv'
  <2>1. UNCHANGED <<inbox, next, lost>> /\ next'[w] \in 0 .. next[w]
    BY <1>5 DEF Handle, TypeOK
  <2>2. \A v \in Windows : v # w => Still(v)
    <3>1. \A v \in Windows : v # w => idle'[v] = idle[v]
      BY <1>5 DEF Handle, TypeOK
    <3>2. CASE HandleReaction(w, Head(idle[w]))
      BY <2>1, <3>1, <3>2 DEF HandleReaction, Stored, TypeOK
    <3>3. CASE HandleCreate(w)
      BY <2>1, <3>1, <3>3 DEF HandleCreate, Remember, Pruned, TypeOK
    <3>4. CASE HandleDelete(w)
      BY <2>1, <3>1, <3>4 DEF HandleDelete, MarkDeleted, ForgetExtras, Forget, TypeOK
    <3>5. CASE HandleReceipt(Head(idle[w]))
      BY <2>1, <3>1, <3>5 DEF HandleReceipt
    <3>6. QED
      BY <1>5, <3>2, <3>3, <3>4, <3>5 DEF Handle
  <2>3. QED
    BY <1>2, <1>3, <1>5, <2>1, <2>2, HandleInStep
<1>6. ASSUME NEW w \in Windows, Receive(w) PROVE ConvergeInv'
  <2>1. /\ UNCHANGED <<inbox, lost>> /\ next'[w] \in 0 .. Len(inbox[w])
        /\ \A v \in Windows : v # w => Still(v)
    BY <1>1, <1>6 DEF Receive, TypeOK
  <2>2. QED
    BY <1>2, <1>6, <2>1, ReceiveInStep
<1>7. ASSUME NEW w \in Windows, Connect(w) PROVE ConvergeInv'
  <2>1. /\ UNCHANGED <<inbox, lost>> /\ next'[w] \in 0 .. next[w]
        /\ \A v \in Windows : v # w => Still(v)
    BY <1>7 DEF Connect, TypeOK
  <2>2. QED
    BY <1>2, <1>3, <1>7, <2>1, ConnectInStep
<1>8. ASSUME NEW w \in Windows, Restart(w) PROVE ConvergeInv'
  <2>1. /\ UNCHANGED <<inbox, next>> /\ (lost' = {} => lost = {}) /\ next'[w] \in 0 .. next[w]
        /\ \A v \in Windows : v # w => Still(v)
    BY <1>8 DEF Restart, TypeOK
  <2>2. QED
    BY <1>2, <1>3, <1>8, <2>1, RestartInStep
<1>9. ASSUME NEW w \in Windows, ToggleReaction(w) PROVE ConvergeInv'
  <2>1. PICK op \in {"add", "remove"} : inbox' = ToAll(Reaction(w, op))
    BY <1>9 DEF ToggleReaction
  <2>2. Reaction(w, op) \in Changes /\ Reaction(w, op) # Create
    <3>1. Reaction(w, op).op # Create.op
      BY <2>1 DEF Reaction, Create
    <3>2. QED
      BY <2>1, <3>1 DEF Reaction, Changes
  <2>3. (\A v \in Windows : Still(v)) /\ UNCHANGED <<next, lost>>
    BY <1>9 DEF ToggleReaction
  <2>4. QED
    BY <2>1, <2>2, <2>3, ToAllAgree, GrownInStep
<1>10. CASE DeleteForEveryone
  <2>1. /\ Delete \in Changes /\ Delete # Create /\ Author \in Windows
        /\ Forget(Author, "deleted") /\ MarkDeleted(Author)
        /\ inbox' = ToAll(Delete) /\ UNCHANGED <<next, idle, lost>>
    <3>1. Delete.op # Create.op
      BY DEF Delete, Create
    <3>2. QED
      BY <1>10, <3>1 DEF DeleteForEveryone, Changes, Windows
  <2>2. Sessions' /\ Agree' /\ \A w \in Windows : Grown(inbox[w], inbox'[w])
    BY <2>1, ToAllAgree
  <2>3. InStep(Author)' /\ \A v \in Windows : v # Author => Still(v)
    BY <2>1, <2>2, ForgetInStep
  <2>4. \A v \in Windows : v # Author => InStep(v)'
    BY <2>1, <2>2, <2>3, GrownInStep
  <2>5. QED
    BY <2>2, <2>3, <2>4
<1>11. ASSUME NEW w \in Windows, DeleteForMe(w) PROVE ConvergeInv'
  <2>1. UNCHANGED <<inbox, next, idle, lost>> /\ Grown(inbox[w], inbox'[w])
    BY <1>1, <1>11 DEF DeleteForMe
  <2>2. InStep(w)' /\ \A v \in Windows : v # w => Still(v)
    BY <1>11, <2>1, ForgetInStep DEF DeleteForMe
  <2>3. next'[w] \in 0 .. next[w]
    BY <2>1 DEF TypeOK
  <2>4. QED
    BY <1>2, <1>3, <2>1, <2>2, <2>3
<1>12. ASSUME NEW w \in Windows, Prune(w) PROVE ConvergeInv'
  <2>1. /\ UNCHANGED <<inbox, next, idle, entry, reactions, lost>> /\ row'[w] = "absent" /\ stored'[w] = {}
        /\ \A v \in Windows : v # w => Still(v)
    BY <1>12 DEF Prune, Pruned, TypeOK
  <2>2. Resuming(w)' /\ Anchored(w)' /\ (Following(w) => Following(w)')
    BY <2>1 DEF InStep, Resuming, Heard, Anchored, Following
  <2>3. InStep(w)' /\ next'[w] \in 0 .. next[w]
    BY <2>1, <2>2 DEF InStep, TypeOK
  <2>4. QED
    BY <1>2, <1>3, <2>1, <2>3
<1>13. ASSUME NEW r \in Readers, FlushReceipts(r) PROVE ConvergeInv'
  <2>1. (\A v \in Windows : Still(v)) /\ UNCHANGED lost
    BY <1>13 DEF FlushReceipts
  <2>2. QED
    BY <1>13, <2>1, ReceiptsAgree, GrownInStep
<1>14. QED
  BY <1>4, <1>5, <1>6, <1>7, <1>8, <1>9, <1>10, <1>11, <1>12, <1>13
     DEF Next, vars, LoseConnection, ChangeSetting, Look

\* When everything published was handled everywhere, the windows that show the
\* message agree on who reacted, if none ended with handlers waiting, whatever
\* their histories were pruned of.
THEOREM ReactionsAgree == Spec => []ReactionsConverge
<1>1. Init => ConvergeInv
  <2> SUFFICES ASSUME Init PROVE ConvergeInv
    OBVIOUS
  <2>1. \A w \in Windows : /\ inbox[w] = <<Create>> /\ Len(inbox[w]) = 1 /\ inbox[w][1] = Create
                           /\ idle[w] = <<>> /\ Len(idle[w]) = 0 /\ next[w] = 0
                           /\ reactions[w] = {} /\ stored[w] = {}
                           /\ row[w] = "absent" /\ entry[w] = "none"
    BY DEF Init
  <2>2. Sessions
    BY <2>1 DEF Sessions
  <2>3. Agree
    <3>1. \A w, d \in Windows : 0 \in 0 .. Len(inbox[w]) /\ LastToggle(inbox[w], Len(inbox[w]), 0, d)
      BY <2>1 DEF LastToggle, Toggles, Create
    <3>2. QED
      BY <3>1 DEF Agree, Adds
  <2>4. ASSUME NEW w \in Windows PROVE InStep(w)
    <3>1. Resuming(w)
      BY <2>1 DEF Resuming, Sent, Heard, Resumes
    <3>2. Anchored(w) /\ Following(w)
      BY <2>1 DEF Anchored, Following
    <3>3. QED
      BY <3>1, <3>2 DEF InStep
  <2>5. QED
    BY <2>2, <2>3, <2>4 DEF ConvergeInv
<1>2. TypeOK /\ ConvergeInv => ReactionsConverge
  <2> SUFFICES ASSUME TypeOK, ConvergeInv PROVE ReactionsConverge
    OBVIOUS
  <2> SUFFICES ASSUME Drained, lost = {},
                      NEW v \in Windows, NEW w \in Windows, entry[v] = "shown", entry[w] = "shown",
                      NEW d \in Windows
               PROVE  d \in reactions[v] <=> d \in reactions[w]
    <3>1. \A u \in Windows : reactions[u] \in SUBSET Windows
      BY DEF TypeOK
    <3>2. QED
      BY <3>1 DEF ReactionsConverge
  <2>1. ASSUME NEW u \in Windows, entry[u] = "shown"
        PROVE  \E p \in 0 .. Len(inbox[u]) :
                 /\ LastToggle(inbox[u], Len(inbox[u]), p, d)
                 /\ d \in reactions[u] <=> Adds(inbox[u], p)
    <3>1. next[u] = Len(inbox[u]) /\ idle[u] = <<>>
      BY DEF Drained
    <3>2. Follows(inbox[u], next[u], idle[u], d, reactions[u]) /\ Len(idle[u]) = 0
      BY <2>1, <3>1 DEF ConvergeInv, InStep, Following
    <3>3. QED
      BY <3>1, <3>2 DEF Follows
  <2>2. \A u \in Windows : Len(inbox[u]) \in Nat
    BY LenProperties DEF TypeOK
  <2>3. PICK p \in 0 .. Len(inbox[v]), q \in 0 .. Len(inbox[w]) :
          /\ LastToggle(inbox[v], Len(inbox[v]), p, d)
          /\ LastToggle(inbox[w], Len(inbox[w]), q, d)
          /\ Adds(inbox[v], p) <=> Adds(inbox[w], q)
    BY DEF ConvergeInv, Agree
  <2>4. d \in reactions[v] <=> Adds(inbox[v], p)
    BY <2>1, <2>2, <2>3, LastIsUnique
  <2>5. d \in reactions[w] <=> Adds(inbox[w], q)
    BY <2>1, <2>2, <2>3, LastIsUnique
  <2>6. QED
    BY <2>3, <2>4, <2>5
<1>3. QED
  BY <1>1, <1>2, TypeCorrect, ConvergeStep, PTL DEF Spec
=============================================================================
