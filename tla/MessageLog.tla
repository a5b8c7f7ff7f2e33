----------------------------- MODULE MessageLog -----------------------------
(***************************************************************************)
(* One message in the windows of gui.py and in their history.db, from its  *)
(* publication through edits and deletions.  Changes travel on one topic;  *)
(* paho's thread acknowledges one as soon as it has queued its handler     *)
(* with GLib.idle_add, and a window's main loop calls the handlers in      *)
(* order.  A text is its version: 0 as sent, v after the v-th edit (whose  *)
(* ts grows with v).  Other messages matter only in that keeping them      *)
(* prunes old rows.                                                        *)
(***************************************************************************)
EXTENDS Integers, Sequences, FiniteSets

CONSTANTS
  Windows, Author,    \* the running GUIs; the one whose message it is
  Setups,             \* the message and what may happen to it: `file` for an image,
                      \* voice message or file instead of a broadcast text,
                      \* `prunes` for a row beyond the retention limits, `restarts`
                      \* for windows that are closed, or crash, and start again
  MaxEdits,           \* bound: edits of the message
  MaxLosses           \* bound: connections lost

ASSUME AuthorAssumption == Author \in Windows
ASSUME SetupsAssumption == Setups \subseteq [file : BOOLEAN, prunes : BOOLEAN, restarts : BOOLEAN]
ASSUME BoundsAssumption == MaxEdits \in Nat /\ MaxLosses \in Nat

VARIABLES
  file, prunes, restarts, \* the setup of this behaviour
  log,        \* changes published on the topic, in order
  connected,  \* windows whose client is connected
  next,       \* window -> changes delivered over its present session
  acked,      \* window -> changes the broker knew it had at the last connection
  idle,       \* window -> callbacks queued in its main loop
  bubble,     \* window -> the message's entry in _message_meta and _message_bubbles
  row,        \* window -> its row of the messages table
  finished,   \* windows whose FileReceiver has the file in _finished
  gone,       \* history: windows where the message was deleted, either way
  losses

fixed == <<file, prunes, restarts>>
relay == <<log, connected, next, acked>>
vars == <<fixed, relay, idle, bubble, row, finished, gone, losses>>

Change(op, v) == [op |-> op, ver |-> v]
Create == Change("create", 0)
AppendLater == Change("append", 0)
Delete == Change("delete", 0)

None == [st |-> "none", ver |-> 0, edited_ts |-> 0]
Marker == [None EXCEPT !.st = "deleted"]
Shown(v) == [st |-> "shown", ver |-> v, edited_ts |-> 0]
Absent == [kind |-> "absent", ver |-> 0]
Deleted == [kind |-> "deleted", ver |-> 0]
Hidden == [kind |-> "hidden", ver |-> 0]
Text(v) == [kind |-> "text", ver |-> v]

Init ==
  /\ \E s \in Setups : file = s.file /\ prunes = s.prunes /\ restarts = s.restarts
  /\ log = <<>>
  /\ connected = Windows
  /\ next = [w \in Windows |-> 0]
  /\ acked = [w \in Windows |-> 0]
  /\ idle = [w \in Windows |-> <<>>]
  /\ bubble = [w \in Windows |-> None]
  /\ row = [w \in Windows |-> Absent]
  /\ finished = {} /\ gone = {} /\ losses = 0

-----------------------------------------------------------------------------
(* history.py                                                              *)

\* add_message (INSERT OR IGNORE), then prune.
Remembered(w) ==
  {IF row[w] = Absent THEN Text(0) ELSE row[w]} \cup (IF prunes THEN {Absent} ELSE {})

RowUnedited(w, v) == row[w]

\* edit_message
RowEdited(w, v) == IF row[w].kind = "text" THEN Text(v) ELSE row[w]

\* mark_deleted
RowDeleted(w) == IF row[w] = Absent THEN Absent ELSE Deleted

\* hide_message
RowHidden(w) == IF row[w] = Absent THEN Absent ELSE Hidden

\* recent_messages, and _load_history: edited_ts is not kept in history.
Loaded(w) ==
  IF row[w].kind = "text" THEN Shown(row[w].ver)
  ELSE IF row[w].kind = "deleted" THEN Marker ELSE None

-----------------------------------------------------------------------------
(* The handlers, on the main loop of w.                                    *)

SeenInWindow(w) == bubble[w].st # "none"

\* _seen: shown, or kept in any state.
Seen(w) == bubble[w].st # "none" \/ row[w] # Absent

\* _handle_chat of the message itself.
CreateText(w) ==
  /\ ~file
  /\ IF Seen(w) THEN UNCHANGED <<bubble, row>>
     ELSE /\ bubble' = [bubble EXCEPT ![w] = Shown(0)]
          /\ \E r \in Remembered(w) : row' = [row EXCEPT ![w] = r]
  /\ idle' = [idle EXCEPT ![w] = Tail(@)]
  /\ UNCHANGED <<finished, gone>>

\* FileReceiver drops the messages of a file it has had.
HasFile(w) == w \in finished

\* The file's last chunk, and _on_file_complete: the bubble is appended by
\* another callback, behind whatever is queued by now.
CreateFile(w) ==
  /\ file
  /\ IF w = Author \/ HasFile(w)
       THEN /\ idle' = [idle EXCEPT ![w] = Tail(@)]
            /\ UNCHANGED <<row, finished>>
       ELSE /\ idle' = [idle EXCEPT ![w] = Tail(@) \o <<AppendLater>>]
            /\ \E r \in Remembered(w) : row' = [row EXCEPT ![w] = r]
            /\ finished' = finished \cup {w}
  /\ UNCHANGED <<bubble, gone>>

AppendFile(w) ==
  /\ bubble' = [bubble EXCEPT ![w] = Shown(0)]
  /\ idle' = [idle EXCEPT ![w] = Tail(@)]
  /\ UNCHANGED <<row, finished, gone>>

NewerAlways(w, v) == TRUE
NewerFirst(w, v) == bubble[w].edited_ts = 0

\* The check of ts against edited_ts.
Newer(w, v) == v > bubble[w].edited_ts

\* _handle_edit's effect on the window and on history.
ApplyEdit(w, v) ==
  IF bubble[w].st = "shown" /\ Newer(w, v)
    THEN /\ bubble' = [bubble EXCEPT ![w] = [st |-> "shown", ver |-> v, edited_ts |-> v]]
         /\ row' = [row EXCEPT ![w] = RowEdited(w, v)]
    ELSE UNCHANGED <<bubble, row>>

StillShown(w) == bubble[w]

\* _show_deleted: a marker takes the message's place.
ShowDeleted(w) == Marker

\* _handle_delete's effect; a message not in _message_meta is left alone.
ApplyDelete(w) ==
  IF bubble[w].st = "shown"
    THEN /\ row' = [row EXCEPT ![w] = RowDeleted(w)]
         /\ bubble' = [bubble EXCEPT ![w] = ShowDeleted(w)]
         /\ gone' = gone \cup {w}
    ELSE UNCHANGED <<bubble, row, gone>>

\* The main loop calls the callback at the head of its queue.
Handle(w) ==
  /\ idle[w] # <<>>
  /\ LET c == Head(idle[w]) IN
       \/ c.op = "create" /\ (CreateText(w) \/ CreateFile(w))
       \/ c.op = "append" /\ AppendFile(w)
       \/ /\ c.op = "edit" /\ ApplyEdit(w, c.ver)
          /\ idle' = [idle EXCEPT ![w] = Tail(@)]
          /\ UNCHANGED <<finished, gone>>
       \/ /\ c.op = "delete" /\ ApplyDelete(w)
          /\ idle' = [idle EXCEPT ![w] = Tail(@)]
          /\ UNCHANGED finished
  /\ UNCHANGED <<fixed, relay, losses>>

-----------------------------------------------------------------------------
(* What users do.                                                          *)

\* Edits published so far.
Edits == Cardinality({i \in DOMAIN log : log[i].op = "edit"})

\* _send_text shows nothing until the echo comes; a file is not echoed, and
\* is shown and remembered when it is sent.
Send ==
  /\ log = <<>>
  /\ log' = <<Create>>
  /\ \/ ~file /\ UNCHANGED <<bubble, row>>
     \/ /\ file
        /\ bubble' = [bubble EXCEPT ![Author] = Shown(0)]
        /\ \E r \in Remembered(Author) : row' = [row EXCEPT ![Author] = r]
  /\ UNCHANGED <<fixed, connected, next, acked, idle, finished, gone, losses>>

\* _send_edit: published, and applied here straight away.
SendEdit ==
  /\ ~file
  /\ bubble[Author].st = "shown"
  /\ Author \in connected
  /\ Edits < MaxEdits
  /\ log' = log \o <<Change("edit", Edits + 1)>>
  /\ ApplyEdit(Author, Edits + 1)
  /\ UNCHANGED <<fixed, connected, next, acked, idle, finished, gone, losses>>

\* _delete_for_everyone
DeleteForEveryone ==
  /\ bubble[Author].st = "shown"
  /\ Author \in connected
  /\ log' = log \o <<Delete>>
  /\ ApplyDelete(Author)
  /\ UNCHANGED <<fixed, connected, next, acked, idle, finished, losses>>

\* _delete_for_me
DeleteForMe(w) ==
  /\ bubble[w].st = "shown"
  /\ row' = [row EXCEPT ![w] = RowHidden(w)]
  /\ bubble' = [bubble EXCEPT ![w] = None]
  /\ gone' = gone \cup {w}
  /\ UNCHANGED <<fixed, relay, idle, finished, losses>>

\* Another message is remembered, and prune deletes this row.
Prune(w) ==
  /\ prunes
  /\ row[w] # Absent
  /\ row' = [row EXCEPT ![w] = Absent]
  /\ UNCHANGED <<fixed, relay, idle, bubble, finished, gone, losses>>

-----------------------------------------------------------------------------
(* The relay and the windows' connections.                                 *)

\* _on_message queues the handler.
Receive(w) ==
  /\ w \in connected
  /\ next[w] < Len(log)
  /\ next' = [next EXCEPT ![w] = @ + 1]
  /\ idle' = [idle EXCEPT ![w] = @ \o <<log[next[w] + 1]>>]
  /\ UNCHANGED <<fixed, log, connected, acked, bubble, row, finished, gone, losses>>

LoseConnection(w) ==
  /\ w \in connected
  /\ losses < MaxLosses
  /\ losses' = losses + 1
  /\ connected' = connected \ {w}
  /\ UNCHANGED <<fixed, log, next, acked, idle, bubble, row, finished, gone>>

\* A persistent session: the broker sends again what was not acknowledged; how
\* many of the acknowledgements reached it before the connection was lost is
\* open.
Connect(w) ==
  /\ w \notin connected
  /\ connected' = connected \cup {w}
  /\ \E n \in acked[w] .. next[w] :
       /\ next' = [next EXCEPT ![w] = n]
       /\ acked' = [acked EXCEPT ![w] = n]
  /\ UNCHANGED <<fixed, log, idle, bubble, row, finished, gone, losses>>

\* The application ends, with callbacks still queued, and starts again.
Restart(w) ==
  /\ restarts
  /\ losses < MaxLosses
  /\ losses' = losses + 1
  /\ connected' = connected \ {w}
  /\ idle' = [idle EXCEPT ![w] = <<>>]
  /\ bubble' = [bubble EXCEPT ![w] = Loaded(w)]
  /\ finished' = finished \ {w}
  /\ UNCHANGED <<fixed, log, next, acked, row, gone>>

Next ==
  \/ Send \/ SendEdit \/ DeleteForEveryone
  \/ \E w \in Windows :
       \/ DeleteForMe(w) \/ Prune(w)
       \/ Handle(w) \/ Receive(w)
       \/ LoseConnection(w) \/ Connect(w) \/ Restart(w)

Spec == Init /\ [][Next]_vars

\* A window reconnects, the broker delivers, the main loop runs.  The user
\* need not do anything.
FairSpec ==
  Spec /\ \A w \in Windows : WF_vars(Handle(w)) /\ WF_vars(Receive(w)) /\ WF_vars(Connect(w))

-----------------------------------------------------------------------------
Rows == [kind : {"absent", "text", "deleted", "hidden"}, ver : 0 .. MaxEdits]
Bubbles == [st : {"none", "shown", "deleted"}, ver : 0 .. MaxEdits, edited_ts : 0 .. MaxEdits]
Changes == [op : {"create", "append", "edit", "delete"}, ver : 0 .. MaxEdits]

\* Type invariant of the topic, the main loops, the windows and their history.
TypeOK ==
  /\ [file |-> file, prunes |-> prunes, restarts |-> restarts] \in Setups
  /\ log \in Seq(Changes)
  /\ connected \subseteq Windows
  /\ next \in [Windows -> Nat] /\ acked \in [Windows -> Nat]
  /\ \A w \in Windows : acked[w] <= Len(log) /\ next[w] <= Len(log)
  /\ idle \in [Windows -> Seq(Changes)]
  /\ bubble \in [Windows -> Bubbles] /\ row \in [Windows -> Rows]
  /\ finished \subseteq Windows /\ gone \subseteq Windows
  /\ losses \in 0 .. MaxLosses

\* What a window shows is what its history holds, so that a restart changes
\* nothing: the same text, a marker for a message deleted for everyone, nothing
\* for one deleted here, unless retention has dropped the row or a file's
\* bubble is still to be appended (gui.py:2841, 2849, 2793).
WindowMatchesHistory ==
  \A w \in Windows :
    (row[w] # Absent /\ \A i \in DOMAIN idle[w] : idle[w][i] # AppendLater)
      => bubble[w].st = Loaded(w).st /\ bubble[w].ver = Loaded(w).ver

\* A message deleted, for everyone or here, never shows again, whatever is
\* redelivered ("so a redelivered copy isn't stored again", history.py:173).
\* Retention, which drops that row too (history.py:231), is excepted.
DeletedStaysGone == ~prunes => \A w \in gone : bubble[w].st # "shown"

\* The windows stay open, and history keeps the message.
Steady == ~restarts /\ ~prunes

\* An edit is never undone by an older one, be it redelivered or an echo, as
\* long as the windows stay open.
EditsNeverGoBack ==
  [][Steady => \A w \in Windows :
       bubble[w].st = "shown" /\ bubble'[w].st = "shown" => bubble'[w].ver >= bubble[w].ver]_vars

\* Every window that stays open and shows the message ends up with its last
\* edit.
EditsConverge ==
  \A w \in Windows : Steady ~> [](bubble[w].st = "shown" => bubble[w].ver = Edits)

\* A text deleted for everyone disappears from every window that stays open ("A
\* message deleted for everyone leaves "This message was deleted" in its
\* place", README.md:283).  A file may escape: its bubble may be appended after
\* the deletion was handled (gui.py:1959).
DeletionReachesAll ==
  \A w \in Windows :
    (Steady /\ ~file /\ \E i \in DOMAIN log : log[i] = Delete) ~> [](bubble[w].st # "shown")
=============================================================================
