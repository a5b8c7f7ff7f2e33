---------------------------- MODULE TerminalChat ----------------------------
(***************************************************************************)
(* chat.py and tui.py: the two terminal clients, their Transcript and      *)
(* their threads.  paho's thread handles what the broker delivers and      *)
(* prints; in `chat` the main thread reads lines and runs them, in         *)
(* `chat --tui` Textual's thread reads them, every line is run by a worker *)
(* thread of its own, and whatever another thread prints waits in          *)
(* call_from_thread until Textual's thread has run it.                     *)
(*                                                                         *)
(* Messages are broadcasts between this device and a peer.  A message's id *)
(* is its position on the topic; a text is the position of the message or  *)
(* of the edit that brought it; one emoji stands for all.                  *)
(***************************************************************************)
EXTENDS Naturals, Sequences, FiniteSets, SequencesExt

CONSTANTS
  Interfaces,     \* which clients: "chat", "tui" or both
  Workers,        \* lines run at the same time in the full-screen client
  Limit,          \* Transcript.LIMIT
  MaxEvents,      \* bound: messages and changes published
  MaxLosses       \* bound: connections lost

ASSUME InterfacesAssumption == Interfaces \subseteq {"chat", "tui"}
ASSUME LimitAssumption == Limit \in Nat \ {0}
ASSUME BoundsAssumption == MaxEvents \in Nat /\ MaxLosses \in Nat

VARIABLES
  interface,      \* the client that runs
  topic,          \* what was published, in order
  next, acked,    \* how much was delivered, and how much the broker knows it
  transcript,     \* Transcript._messages, oldest first
  net,            \* paho's thread: "idle", "calling" (another thread prints for
                  \* it) or "ended", and the event it handles
  line,           \* worker -> the line it runs
  ui,             \* the thread the window or the prompt belongs to
  losses

vars == <<interface, topic, next, acked, transcript, net, line, ui, losses>>

Devices == {"me", "peer"}
NoLine == [at |-> "none", mine |-> FALSE, id |-> 0]
Presence == [op |-> "presence", by |-> "me", id |-> 0]

Init ==
  /\ interface \in Interfaces
  /\ topic = <<>> /\ next = 0 /\ acked = 0
  /\ transcript = <<>>
  /\ net = [at |-> "idle", pos |-> 0]
  /\ line = [w \in Workers |-> NoLine]
  /\ ui = "running"
  /\ losses = 0

-----------------------------------------------------------------------------
(* class Transcript: each operator is one method, under its lock.          *)

Ids(t) == {t[i].id : i \in DOMAIN t}

Message(id) == [id |-> id, from |-> topic[id].by, text |-> id, reacted |-> {}]

EvictedNever(t) == t

EvictedNewest(t) == IF Len(t) > Limit THEN Front(t) ELSE t

\* The loop over popitem(last=False); a message was added, so one is enough.
Evicted(t) == IF Len(t) > Limit THEN Tail(t) ELSE t

\* Assigning to a key of an OrderedDict that is there keeps its place.
Added(t, id) ==
  IF id \in Ids(t)
    THEN [i \in DOMAIN t |-> IF t[i].id = id THEN Message(id) ELSE t[i]]
    ELSE Evicted(Append(t, Message(id)))

Forgotten(t, id) == IF id \in Ids(t) THEN RemoveAt(t, CHOOSE i \in DOMAIN t : t[i].id = id) ELSE t

WithText(t, id, pos) == [i \in DOMAIN t |-> IF t[i].id = id THEN [t[i] EXCEPT !.text = pos] ELSE t[i]]

WithReaction(t, id, device, present) ==
  [i \in DOMAIN t |->
    IF t[i].id = id
      THEN [t[i] EXCEPT !.reacted = IF present THEN @ \cup {device} ELSE @ \ {device}]
      ELSE t[i]]

HasReacted(t, id) == \E i \in DOMAIN t : t[i].id = id /\ "me" \in t[i].reacted

\* last(mine): 0 if there is none.
LastOf(t, mine) ==
  LET found == {i \in DOMAIN t : (t[i].from = "me") = mine} IN
  IF found = {} THEN 0 ELSE t[CHOOSE i \in found : \A j \in found : j <= i].id

-----------------------------------------------------------------------------
(* paho's thread: the handlers of _build_client.                           *)

\* on_delete; only the device that sent a message changes it.
Deleted(t, e, pos) == IF topic[e.id].by = e.by THEN Forgotten(t, e.id) ELSE t

\* on_edit
Edited(t, e, pos) == IF topic[e.id].by = e.by THEN WithText(t, e.id, pos) ELSE t

\* What a handler does before it prints: on_text adds the message after.
Before(t, pos) ==
  LET e == topic[pos] IN
  CASE e.op = "edit" -> Edited(t, e, pos)
    [] e.op = "delete" -> Deleted(t, e, pos)
    [] e.op \in {"add", "remove"} -> WithReaction(t, e.id, e.by, e.op = "add")
    [] OTHER -> t

After(t, pos) == IF topic[pos].op = "text" THEN Added(t, pos) ELSE t

\* _on_message: in `chat` the line is printed here and now.  Nothing is printed
\* of one's own presence going, but the full-screen client's sidebar is drawn
\* again.
Receive ==
  /\ net.at = "idle" /\ next < Len(topic)
  /\ next' = next + 1
  /\ IF interface = "tui"
       THEN /\ net' = [at |-> "calling", pos |-> next + 1]
            /\ transcript' = Before(transcript, next + 1)
       ELSE /\ transcript' = After(Before(transcript, next + 1), next + 1)
            /\ UNCHANGED net
  /\ UNCHANGED <<interface, topic, acked, line, ui, losses>>

\* Textual's event loop runs callbacks until the client is unmounted.
Serving == ui = "running"

\* Textual's thread has run what paho's thread waits for.
Printed ==
  /\ net.at = "calling" /\ Serving
  /\ net' = [net EXCEPT !.at = "idle"]
  /\ transcript' = After(transcript, net.pos)
  /\ UNCHANGED <<interface, topic, next, acked, line, ui, losses>>

\* The connection is lost and made again: what the broker has no
\* acknowledgement of comes again.
Reconnect ==
  /\ net.at = "idle" /\ losses < MaxLosses
  /\ losses' = losses + 1
  /\ \E n \in acked .. next : next' = n /\ acked' = n
  /\ UNCHANGED <<interface, topic, transcript, net, line, ui>>

-----------------------------------------------------------------------------
(* run_command: each line looks the transcript up before it publishes.     *)

Publish(op, by, id) == topic' = Append(topic, [op |-> op, by |-> by, id |-> id])

\* on_input_submitted, or the loop of run_chat, which runs one line at a time.
Free(w) ==
  /\ ui = "running" /\ line[w] = NoLine
  /\ interface = "tui" \/ \A v \in Workers : line[v] = NoLine
  /\ Len(topic) < MaxEvents

\* A line that is no command.
Say(w) ==
  /\ Free(w)
  /\ Publish("text", "me", Len(topic) + 1)
  /\ UNCHANGED <<interface, next, acked, transcript, net, line, ui, losses>>

\* transcript.last(), of others' messages for /react, of ours for /edit and
\* /delete.
Target(w, mine) ==
  /\ Free(w)
  /\ line' = [line EXCEPT ![w] = [at |-> "target", mine |-> mine, id |-> LastOf(transcript, mine)]]
  /\ UNCHANGED <<interface, topic, next, acked, transcript, net, ui, losses>>

\* transcript.get() finds no such message, or not any more, and a line says so.
NoTarget(w) ==
  /\ line[w].at = "target" /\ line[w].id \notin Ids(transcript)
  /\ line' = [line EXCEPT ![w] = IF interface = "tui" THEN [NoLine EXCEPT !.at = "calling"] ELSE NoLine]
  /\ UNCHANGED <<interface, topic, next, acked, transcript, net, ui, losses>>

\* has_reacted() for /react, then _send_change: it is applied when it comes back.
SendChange(w) ==
  LET id == line[w].id IN
  /\ line[w].at = "target" /\ id \in Ids(transcript)
  /\ IF line[w].mine
       THEN \E op \in {"edit", "delete"} : Publish(op, "me", id)
       ELSE Publish(IF HasReacted(transcript, id) THEN "remove" ELSE "add", "me", id)
  /\ line' = [line EXCEPT ![w] = NoLine]
  /\ UNCHANGED <<interface, next, acked, transcript, net, ui, losses>>

\* Textual's thread has printed the line a worker waits for.
LinePrinted(w) ==
  /\ line[w].at = "calling" /\ Serving
  /\ line' = [line EXCEPT ![w] = NoLine]
  /\ UNCHANGED <<interface, topic, next, acked, transcript, net, ui, losses>>

\* The peer writes, changes a message of its own, or reacts; it takes back only
\* what it gave.
PeerPublishes ==
  /\ Len(topic) < MaxEvents
  /\ \/ Publish("text", "peer", Len(topic) + 1)
     \/ \E id \in DOMAIN topic, op \in {"edit", "delete", "add", "remove"} :
          /\ topic[id].op = "text"
          /\ op \in {"edit", "delete"} => topic[id].by = "peer"
          /\ op = "remove" => [op |-> "add", by |-> "peer", id |-> id] \in ToSet(topic)
          /\ Publish(op, "peer", id)
  /\ UNCHANGED <<interface, next, acked, transcript, net, line, ui, losses>>

-----------------------------------------------------------------------------
(* Leaving: RelayClient.disconnect(), on the thread of the interface.      *)

\* The offline presence is published, and comes back like any other.
Quit ==
  /\ ui = "running"
  /\ interface = "tui" \/ \A w \in Workers : line[w] = NoLine
  /\ ui' = "publishing"
  /\ topic' = Append(topic, Presence)
  /\ UNCHANGED <<interface, next, acked, transcript, net, line, losses>>

\* wait_for_publish(3), acknowledged or not; then loop_stop() joins the thread.
StopLoop ==
  /\ ui = "publishing"
  /\ ui' = "joining"
  /\ UNCHANGED <<interface, topic, next, acked, transcript, net, line, losses>>

NeverTold == FALSE

\* The thread looks whether it is to end between two callbacks.
Told == ui = "joining"

LoopEnds ==
  /\ net.at = "idle" /\ Told
  /\ net' = [net EXCEPT !.at = "ended"]
  /\ UNCHANGED <<interface, topic, next, acked, transcript, line, ui, losses>>

Joined ==
  /\ ui = "joining" /\ net.at = "ended"
  /\ ui' = "closed"
  /\ UNCHANGED <<interface, topic, next, acked, transcript, net, line, losses>>

Command(w) == NoTarget(w) \/ SendChange(w) \/ LinePrinted(w)

Leave == StopLoop \/ LoopEnds \/ Joined

Next ==
  \/ Receive \/ Printed \/ Reconnect \/ PeerPublishes \/ Quit \/ Leave
  \/ \E w \in Workers :
       Say(w) \/ Command(w) \/ \E mine \in BOOLEAN : Target(w, mine)

Spec == Init /\ [][Next]_vars

\* Threads that can run do run, and the wait of 3 seconds ends.
FairSpec ==
  /\ Spec
  /\ WF_vars(Receive) /\ WF_vars(Printed)
  /\ WF_vars(StopLoop) /\ WF_vars(LoopEnds) /\ WF_vars(Joined)
  /\ \A w \in Workers : WF_vars(Command(w))

-----------------------------------------------------------------------------
Events == [op : {"text", "edit", "delete", "add", "remove", "presence"}, by : Devices, id : Nat]
Entries == [id : Nat \ {0}, from : Devices, text : Nat \ {0}, reacted : SUBSET Devices]

\* Type invariant; the transcript keeps at most Limit messages, each once.
TypeOK ==
  /\ interface \in Interfaces
  /\ topic \in Seq(Events)
  /\ acked \in 0 .. next /\ next \in 0 .. Len(topic)
  /\ transcript \in Seq(Entries)
  /\ Len(transcript) <= Limit /\ Cardinality(Ids(transcript)) = Len(transcript)
  /\ net \in [at : {"idle", "calling", "ended"}, pos : 0 .. Len(topic)]
  /\ line \in [Workers -> [at : {"none", "target", "calling"}, mine : BOOLEAN, id : 0 .. Len(topic)]]
  /\ ui \in {"running", "publishing", "joining", "closed"}
  /\ losses \in 0 .. MaxLosses

\* The positions on the topic of what was done to message id.
Done(op, by, id) == {i \in DOMAIN topic : topic[i].op \in op /\ topic[i].by \in by /\ topic[i].id = id}

Latest(positions) == CHOOSE i \in positions : \A j \in positions : j <= i

Texts == {i \in DOMAIN topic : topic[i].op = "text"}
Standing == {i \in Texts : Done({"delete"}, Devices, i) = {}}

\* The newest Limit messages that were not deleted.
Recent == {i \in Standing : Cardinality({j \in Standing : j > i}) < Limit}

\* Whatever was delivered twice, once all is handled the transcript has the
\* newest messages, oldest first, with their last text and the reactions not
\* taken back: unless messages were deleted after others had been evicted,
\* whose redelivery then takes a newer one's place (chat.py:103, 113).
TranscriptSettles ==
  (next = Len(topic) /\ net.at = "idle" /\ (Standing = Texts \/ Cardinality(Texts) <= Limit)) =>
    /\ Ids(transcript) = Recent
    /\ \A i \in DOMAIN transcript :
         LET m == transcript[i] IN
         /\ \A j \in DOMAIN transcript : i < j => m.id < transcript[j].id
         /\ m.text = Latest({m.id} \cup Done({"edit"}, Devices, m.id))
         /\ m.reacted = {d \in Devices :
              LET r == Done({"add", "remove"}, {d}, m.id) IN r # {} /\ topic[Latest(r)].op = "add"}

\* Leaving ends, or the full-screen client hangs in it with paho's thread
\* waiting for a screen nobody draws any more.
LeavingEndsOrHangs ==
  ui = "publishing" ~> (ui = "closed" \/ (interface = "tui" /\ net.at = "calling"))

\* /quit leaves (chat.py:32).
QuitEnds == ui = "publishing" ~> ui = "closed"
=============================================================================
