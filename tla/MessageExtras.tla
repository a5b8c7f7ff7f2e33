--------------------------- MODULE MessageExtras ---------------------------
(***************************************************************************)
(* Receipts and reactions of one broadcast message, in the windows of      *)
(* gui.py and in their history.db.  A window's session with the broker is  *)
(* the sequence of what it is sent: the message, reactions and its         *)
(* deletion go to every window, a receipt goes to the author's only.       *)
(* paho's thread queues the handlers in the main loop, which runs them in  *)
(* order.  One emoji is enough: each is recorded by itself.                *)
(***************************************************************************)
EXTENDS Naturals, Sequences, SequencesExt

CONSTANTS
  Readers, Author,  \* the windows: the message's receivers and its sender
  MaxInputs,        \* bound: what the users do besides deleting for everyone, and prunes
  MaxLosses         \* bound: connections lost and restarts

ASSUME AuthorAssumption == Author \notin Readers
ASSUME BoundsAssumption == MaxInputs \in Nat /\ MaxLosses \in Nat

Windows == Readers \cup {Author}

VARIABLES
  inbox,      \* window -> what the broker has for its session, in order
  connected,  \* windows whose client is connected
  next,       \* window -> how much of it was delivered over this connection
  acked,      \* window -> how much the broker knew it had at the last connection
  idle,       \* window -> handlers queued in its main loop
  entry,      \* window -> the message in _message_meta: "none", "shown" or "deleted"
  row,        \* window -> its row of history: "absent", "text", "deleted" or "hidden"
  reactions,  \* window -> devices that reacted, as shown (_reactions)
  stored,     \* window -> the same, in history
  receipts,   \* reader -> how far the author's window shows the message got
  kept,       \* the same, in the author's history
  queue,      \* reader -> receipts waiting for the flush (_receipt_queue)
  unread,     \* readers with the message in _unread
  reading,    \* readers whose chat is in front of them (_reading)
  sendsReads, \* readers with send_read_receipts on
  inFront,    \* readers who ever had it in front of them with the setting on
  arrived,    \* windows that ever showed and recorded it
  pruned,     \* windows whose history was ever pruned of it
  lost,       \* windows that ever ended with handlers or receipts waiting
  inputs, losses

session == <<inbox, connected, next, acked>>
message == <<entry, row>>
reacted == <<reactions, stored>>
receipted == <<receipts, kept>>
reader == <<queue, unread, reading, sendsReads, inFront>>
past == <<arrived, pruned>>
counted == <<lost, inputs, losses>>
vars == <<session, idle, message, reacted, receipted, reader, past, counted>>

Create == [op |-> "create"]
Delete == [op |-> "delete"]
Reaction(w, op) == [op |-> op, by |-> w]
Receipt(r, state) == [op |-> state, by |-> r]

Nowhere == [r \in Readers |-> "sent"]

\* The author's message has just been published, asking for receipts.
Init ==
  /\ inbox = [w \in Windows |-> <<Create>>]
  /\ connected = Windows
  /\ next = [w \in Windows |-> 0] /\ acked = [w \in Windows |-> 0]
  /\ idle = [w \in Windows |-> <<>>]
  /\ entry = [w \in Windows |-> "none"] /\ row = [w \in Windows |-> "absent"]
  /\ reactions = [w \in Windows |-> {}] /\ stored = [w \in Windows |-> {}]
  /\ receipts = Nowhere /\ kept = Nowhere
  /\ queue = [r \in Readers |-> <<>>]
  /\ unread = {} /\ reading = {} /\ sendsReads = Readers
  /\ inFront = {} /\ arrived = {} /\ pruned = {} /\ lost = {}
  /\ inputs = 0 /\ losses = 0

-----------------------------------------------------------------------------
(* The handlers, on a window's main loop.                                  *)

\* _queue_receipt: ids of one state are batched, in the order states came up.
Queued(q, state) == IF Contains(q, state) THEN q ELSE Append(q, state)

ReadAnyway(r) ==
  /\ queue' = [queue EXCEPT ![r] = Queued(Queued(@, "delivered"), "read")]
  /\ UNCHANGED unread

\* _acknowledge
Acknowledge(r) ==
  LET delivered == Queued(queue[r], "delivered") IN
  /\ queue' = [queue EXCEPT ![r] = IF r \in sendsReads \cap reading THEN Queued(delivered, "read") ELSE delivered]
  /\ unread' = IF r \in sendsReads \ reading THEN unread \cup {r} ELSE unread

\* prune, of the row: what is stored of its reactions and receipts goes with it,
\* what the window shows stays.
Pruned(w) ==
  /\ inputs < MaxInputs
  /\ inputs' = inputs + 1
  /\ row' = [row EXCEPT ![w] = "absent"]
  /\ stored' = [stored EXCEPT ![w] = {}]
  /\ kept' = IF w = Author THEN Nowhere ELSE kept
  /\ pruned' = pruned \cup {w}

\* _remember: history may already be full of later messages, or the message be
\* too old for it, and what was just added is pruned.
Remember(w) ==
  \/ /\ row' = [row EXCEPT ![w] = "text"]
     /\ UNCHANGED <<stored, kept, pruned, inputs>>
  \/ Pruned(w)

\* _handle_chat of the message: nothing if it was _seen; the author's echo is
\* not acknowledged.
HandleCreate(w) ==
  /\ IF entry[w] # "none" \/ row[w] # "absent"
       THEN UNCHANGED <<message, stored, kept, past, queue, unread, inFront, inputs>>
       ELSE /\ entry' = [entry EXCEPT ![w] = "shown"]
            /\ arrived' = arrived \cup {w}
            /\ Remember(w)
            /\ IF w = Author
                 THEN UNCHANGED <<queue, unread, inFront>>
                 ELSE /\ Acknowledge(w)
                      /\ inFront' = IF w \in reading \cap sendsReads THEN inFront \cup {w} ELSE inFront
  /\ UNCHANGED <<reactions, receipts>>

NotStored(w, devices) == stored

\* set_reaction
Stored(w, devices) == [stored EXCEPT ![w] = devices]

WithToggled(devices, c) == IF c.by \in devices THEN devices \ {c.by} ELSE devices \cup {c.by}

With(devices, c) == IF c.op = "remove" THEN devices \ {c.by} ELSE devices \cup {c.by}

\* _handle_reaction
HandleReaction(w, c) ==
  /\ IF entry[w] = "shown"
       THEN /\ reactions' = [reactions EXCEPT ![w] = With(@, c)]
            /\ stored' = Stored(w, With(stored[w], c))
       ELSE UNCHANGED reacted
  /\ UNCHANGED <<message, receipted, past, queue, unread, inFront, inputs>>

AnyReceipt(r) == TRUE

\* Read is final.
NotYetRead(r) == receipts[r] # "read"

\* _handle_receipt, in the author's window.
HandleReceipt(c) ==
  /\ IF entry[Author] = "shown" /\ NotYetRead(c.by)
       THEN /\ receipts' = [receipts EXCEPT ![c.by] = c.op]
            /\ kept' = [kept EXCEPT ![c.by] = IF @ = "read" THEN @ ELSE c.op]
       ELSE UNCHANGED receipted
  /\ UNCHANGED <<message, reacted, past, queue, unread, inFront, inputs>>

\* _forget_extras
ForgetExtras(w) ==
  /\ stored' = [stored EXCEPT ![w] = {}]
  /\ kept' = IF w = Author THEN Nowhere ELSE kept

\* mark_deleted: of a message without a row, nothing is forgotten.
MarkDeleted(w) ==
  IF row[w] = "absent" THEN UNCHANGED <<row, stored, kept>>
  ELSE row' = [row EXCEPT ![w] = "deleted"] /\ ForgetExtras(w)

\* hide_message
HideMessage(w) ==
  /\ row' = [row EXCEPT ![w] = IF @ = "absent" THEN @ ELSE "hidden"]
  /\ ForgetExtras(w)

\* _forget_message: the window shows no reactions and receipts any more.
Forget(w, shown) ==
  /\ entry' = [entry EXCEPT ![w] = shown]
  /\ reactions' = [reactions EXCEPT ![w] = {}]
  /\ receipts' = IF w = Author THEN Nowhere ELSE receipts

\* _handle_delete
HandleDelete(w) ==
  /\ IF entry[w] = "shown" THEN MarkDeleted(w) /\ Forget(w, "deleted")
     ELSE UNCHANGED <<message, reacted, receipted>>
  /\ UNCHANGED <<past, queue, unread, inFront, inputs>>

Handle(w) ==
  /\ idle[w] # <<>>
  /\ idle' = [idle EXCEPT ![w] = Tail(@)]
  /\ LET c == Head(idle[w]) IN
       \/ c = Create /\ HandleCreate(w)
       \/ c = Delete /\ HandleDelete(w)
       \/ c.op \in {"add", "remove"} /\ HandleReaction(w, c)
       \/ c.op \in {"delivered", "read"} /\ HandleReceipt(c)
  /\ UNCHANGED <<session, reading, sendsReads, lost, losses>>

-----------------------------------------------------------------------------
(* What else a window does.                                                *)

ToAll(c) == [w \in Windows |-> Append(inbox[w], c)]

\* _toggle_reaction: published, and shown when the echo comes.  (Without a
\* connection it is published when the connection is back: not modelled.)
ToggleReaction(w) ==
  /\ entry[w] = "shown"
  /\ w \in connected /\ inputs < MaxInputs
  /\ inputs' = inputs + 1
  /\ inbox' = ToAll(Reaction(w, IF w \in reactions[w] THEN "remove" ELSE "add"))
  /\ UNCHANGED <<connected, next, acked, idle, message, reacted, receipted, reader, past, lost, losses>>

\* _delete_for_everyone
DeleteForEveryone ==
  /\ entry[Author] = "shown"
  /\ Author \in connected
  /\ inbox' = ToAll(Delete)
  /\ MarkDeleted(Author) /\ Forget(Author, "deleted")
  /\ UNCHANGED <<connected, next, acked, idle, reader, past, counted>>

\* _delete_for_me; the id stays in _unread.
DeleteForMe(w) ==
  /\ entry[w] = "shown" /\ inputs < MaxInputs
  /\ inputs' = inputs + 1
  /\ HideMessage(w) /\ Forget(w, "none")
  /\ UNCHANGED <<session, idle, reader, past, lost, losses>>

\* prune, when another message is recorded or the limits are saved.
Prune(w) ==
  /\ w \in arrived
  /\ Pruned(w)
  /\ UNCHANGED <<session, idle, entry, reactions, receipts, reader, arrived, lost, losses>>

\* _catch_up_reads, called if the window's focus or visibility changes or it
\* is scrolled to the bottom.
CaughtUp(r) == [queue EXCEPT ![r] = Queued(@, "read")]

\* The chat comes in front of the reader, or what was in front goes, or the
\* window's focus or the scrolling changes neither; closing a search does not
\* call _catch_up_reads.
Look(r, called) ==
  /\ inputs < MaxInputs
  /\ inputs' = inputs + 1
  /\ \/ reading' = IF r \in reading THEN reading \ {r} ELSE reading \cup {r}
     \/ called /\ UNCHANGED reading
  /\ inFront' = IF r \in arrived \cap reading' \cap sendsReads THEN inFront \cup {r} ELSE inFront
  /\ IF called /\ r \in unread \cap sendsReads \cap reading'
       THEN queue' = CaughtUp(r) /\ unread' = unread \ {r}
       ELSE UNCHANGED <<queue, unread>>
  /\ UNCHANGED <<session, idle, message, reacted, receipted, sendsReads, past, lost, losses>>

\* The setting is changed: nothing is caught up.
ChangeSetting(r) ==
  /\ inputs < MaxInputs
  /\ inputs' = inputs + 1
  /\ sendsReads' = IF r \in sendsReads THEN sendsReads \ {r} ELSE sendsReads \cup {r}
  /\ inFront' = IF r \in arrived \cap reading \cap sendsReads' THEN inFront \cup {r} ELSE inFront
  /\ UNCHANGED <<session, idle, message, reacted, receipted, queue, unread, reading, past, lost, losses>>

NeverFlushed(r) == inbox

\* One direct message for each state queued.
Flushed(r) == [inbox EXCEPT ![Author] = @ \o [i \in DOMAIN queue[r] |-> Receipt(r, queue[r][i])]]

\* _flush_receipts; what is published without a connection waits in paho's own
\* queue, which ends with the process too.
FlushReceipts(r) ==
  /\ queue[r] # <<>> /\ r \in connected
  /\ inbox' = Flushed(r)
  /\ queue' = [queue EXCEPT ![r] = <<>>]
  /\ UNCHANGED <<connected, next, acked, idle, message, reacted, receipted, unread, reading, sendsReads,
                 inFront, past, counted>>

-----------------------------------------------------------------------------
(* Sessions, lost connections and restarts.                                *)

\* _on_message
Receive(w) ==
  /\ w \in connected
  /\ next[w] < Len(inbox[w])
  /\ next' = [next EXCEPT ![w] = @ + 1]
  /\ idle' = [idle EXCEPT ![w] = Append(@, inbox[w][next[w] + 1])]
  /\ UNCHANGED <<inbox, connected, acked, message, reacted, receipted, reader, past, counted>>

LoseConnection(w) ==
  /\ w \in connected /\ losses < MaxLosses
  /\ connected' = connected \ {w}
  /\ losses' = losses + 1
  /\ UNCHANGED <<inbox, next, acked, idle, message, reacted, receipted, reader, past, lost, inputs>>

\* _on_connect: the broker sends again what was not acknowledged; how many of
\* the acknowledgements reached it before the connection was lost is open.
Connect(w) ==
  /\ w \notin connected
  /\ connected' = connected \cup {w}
  /\ \E n \in acked[w] .. next[w] :
       /\ acked' = [acked EXCEPT ![w] = n]
       /\ next' = [next EXCEPT ![w] = n]
  /\ UNCHANGED <<inbox, idle, message, reacted, receipted, reader, past, counted>>

\* What _load_history shows of the row.
LoadedEntry(w) ==
  CASE row[w] = "text" -> "shown" [] row[w] = "deleted" -> "deleted" [] OTHER -> "none"

\* The application ends and starts again, showing what history holds: of
\* reactions and receipts, those of messages that are shown.
Restart(w) ==
  /\ losses < MaxLosses
  /\ losses' = losses + 1
  /\ connected' = connected \ {w}
  /\ idle' = [idle EXCEPT ![w] = <<>>]
  /\ entry' = [entry EXCEPT ![w] = LoadedEntry(w)]
  /\ reactions' = [reactions EXCEPT ![w] = IF row[w] = "text" THEN stored[w] ELSE {}]
  /\ receipts' = IF w # Author THEN receipts ELSE IF row[w] = "text" THEN kept ELSE Nowhere
  /\ queue' = [r \in Readers |-> IF r = w THEN <<>> ELSE queue[r]]
  /\ unread' = unread \ {w}
  /\ lost' = IF idle[w] # <<>> \/ (w \in Readers /\ (queue[w] # <<>> \/ w \in unread))
               THEN lost \cup {w} ELSE lost
  /\ UNCHANGED <<inbox, next, acked, row, stored, kept, reading, sendsReads, inFront, past, inputs>>

Next ==
  \/ DeleteForEveryone
  \/ \E w \in Windows :
       \/ Handle(w) \/ ToggleReaction(w) \/ DeleteForMe(w) \/ Prune(w)
       \/ Receive(w) \/ LoseConnection(w) \/ Connect(w) \/ Restart(w)
  \/ \E r \in Readers :
       \/ FlushReceipts(r) \/ ChangeSetting(r)
       \/ \E called \in BOOLEAN : Look(r, called)

Spec == Init /\ [][Next]_vars

\* A window reconnects, the broker delivers, the main loop runs its handlers
\* and its timer.  The users need not do anything.
FairSpec ==
  /\ Spec
  /\ \A w \in Windows : WF_vars(Handle(w)) /\ WF_vars(Receive(w)) /\ WF_vars(Connect(w))
  /\ \A r \in Readers : WF_vars(FlushReceipts(r))

-----------------------------------------------------------------------------
Reports == {"delivered", "read"}
States == {"sent"} \cup Reports
Changes == {Create, Delete} \cup [op : {"add", "remove"}, by : Windows]
             \cup [op : Reports, by : Readers]

\* Type invariant of the sessions, the main loops, the windows and history.
TypeOK ==
  /\ inbox \in [Windows -> Seq(Changes)] /\ idle \in [Windows -> Seq(Changes)]
  /\ connected \subseteq Windows /\ lost \subseteq Windows
  /\ next \in [Windows -> Nat] /\ acked \in [Windows -> Nat]
  /\ entry \in [Windows -> {"none", "shown", "deleted"}]
  /\ row \in [Windows -> {"absent", "text", "deleted", "hidden"}]
  /\ reactions \in [Windows -> SUBSET Windows] /\ stored \in [Windows -> SUBSET Windows]
  /\ receipts \in [Readers -> States] /\ kept \in [Readers -> States]
  /\ queue \in [Readers -> Seq(Reports)]
  /\ unread \subseteq Readers /\ reading \subseteq Readers /\ sendsReads \subseteq Readers
  /\ inFront \subseteq Readers /\ arrived \subseteq Windows /\ pruned \subseteq Windows
  /\ inputs \in 0 .. MaxInputs /\ losses \in 0 .. MaxLosses

\* Until history is pruned of the message, what a window shows under it is what
\* a restart would load: the same reactions and receipts while it is shown, and
\* none left in history of a message deleted for everyone or here ("A deleted
\* or hidden message's reactions and receipts go with it", history.py:182).
\* A window goes on showing what was pruned (gui.py:1748), and a restart loads
\* nothing of it.
ExtrasMatchHistory ==
  /\ \A w \in Windows \ pruned :
       stored[w] = reactions[w] /\ (entry[w] # "shown" => stored[w] = {})
  /\ Author \notin pruned => kept = receipts /\ (entry[Author] # "shown" => kept = Nowhere)

\* Read is final, until the message is deleted: no late or repeated
\* "delivered" takes it back, whatever is redelivered and restarted
\* (gui.py:2629, history.py:210).
ReadIsFinal ==
  [][\A r \in Readers :
       receipts[r] = "read" /\ entry'[Author] = "shown" => receipts'[r] = "read"]_vars

\* A receipt says what happened: "delivered" of a message the reader's window
\* recorded, "read" of one that had come when the chat was in front of the
\* reader while read receipts were on (gui.py:2573).
ReceiptsAreTrue ==
  \A r \in Readers :
    /\ receipts[r] # "sent" => r \in arrived
    /\ receipts[r] = "read" => r \in inFront

\* All that was published has been handled everywhere.
Drained == \A w \in Windows : next[w] = Len(inbox[w]) /\ idle[w] = <<>>

\* However toggles, echoes and redeliveries interleave, the windows that show
\* the message agree on who reacted, unless one ended with handlers waiting
\* (gui.py:2137 toggles what the window shows, before the echo).  This includes
\* windows whose history was pruned of it, and those that show it again when it
\* is redelivered after that.
ReactionsConverge ==
  Drained /\ lost = {} =>
    \A v, w \in Windows : entry[v] = "shown" /\ entry[w] = "shown" => reactions[v] = reactions[w]

\* A message that reached a reader's window is at last shown as delivered or
\* read to its author, unless it was deleted there or an application ended
\* with handlers or receipts waiting (gui.py:2602, 1199).
ReceiptsArrive ==
  \A r \in Readers :
    r \in arrived ~> (receipts[r] # "sent" \/ entry[Author] # "shown" \/ lost # {})
=============================================================================
