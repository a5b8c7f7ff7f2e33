--------------------------- MODULE AgentMailbox ---------------------------
(***************************************************************************)
(* agents.py and `omarchy-relay agent inbox` of cli.py: agent messages are *)
(* accepted on paho's network thread into a table that other processes     *)
(* read; a new one alerts the user and launches agents_on_message_command  *)
(* unless that is still running.  The command is any program that reads    *)
(* the inbox once.  Messages are numbered in the order of their ts.        *)
(***************************************************************************)
EXTENDS Naturals, FiniteSets

CONSTANTS
  Messages,       \* ids of incoming messages
  Senders, SentBy,        \* peers, message -> peer
  Hooks,          \* process slots for agents_on_message_command
  Users,          \* processes somebody starts by hand: the same inbox command
  MaxRestarts     \* bound: restarts of the receiving application

ASSUME MessagesAssumption == Messages \subseteq Nat
ASSUME SentByAssumption == SentBy \in [Messages -> Senders]
ASSUME ProcessesAssumption == Hooks \cap Users = {}
ASSUME RestartsAssumption == MaxRestarts \in Nat

Readers == Hooks \cup Users

VARIABLES
  pending,        \* messages sent to this device and not acknowledged
  inbox,          \* agent_messages: message -> "absent", "unread" or "read"
  handling,       \* message -> what is left of its handle_message
  alerts,         \* history: message -> calls of on_received
  proc,           \* _proc: the hooks it has launched that this handler knows
  reader,         \* process -> its state and the messages it has listed
  shown,          \* history: messages printed by an inbox command
  enabled, agents,        \* agents_enabled, and the peers trusted as "agent"
  restarts

settings == <<enabled, agents>>
mailboxVars == <<pending, inbox, handling, alerts, proc, reader, shown, settings, restarts>>

Off == [st |-> "off", listed |-> {}]
NotRunning == {}

MailboxInit ==
  /\ pending = Messages    \* sent, and delivered at any time from now on
  /\ inbox = [m \in Messages |-> "absent"]
  /\ handling = [m \in Messages |-> "none"]
  /\ alerts = [m \in Messages |-> 0]
  /\ proc = NotRunning
  /\ reader = [p \in Readers |-> Off]
  /\ shown = {}
  /\ enabled \in BOOLEAN /\ agents \in SUBSET Senders
  /\ restarts = 0

-----------------------------------------------------------------------------
(* The receiving application: one message at a time, on paho's thread.     *)

InsertOrReplace(m) == [inbox EXCEPT ![m] = "unread"]

\* add(): INSERT OR IGNORE.
InsertOrIgnore(m) == [inbox EXCEPT ![m] = IF @ = "absent" THEN "unread" ELSE @]

AlwaysNew(m) == TRUE

\* The row count of the INSERT.
IsNew(m) == inbox[m] = "absent"

\* handle_message up to the mailbox: messages while disabled or from peers that
\* are not trusted are dropped, and so are redeliveries.
HandleMessage(m, acked) ==
  /\ \A other \in Messages : handling[other] = "none"
  /\ m \in pending
  /\ pending' = IF acked THEN pending \ {m} ELSE pending
  /\ IF enabled /\ SentBy[m] \in agents
       THEN /\ inbox' = InsertOrIgnore(m)
            /\ handling' = IF IsNew(m) THEN [handling EXCEPT ![m] = "alert"] ELSE handling
       ELSE UNCHANGED <<inbox, handling>>
  /\ UNCHANGED <<alerts, proc, reader, shown, settings, restarts>>

\* on_received
Alert(m) ==
  /\ handling[m] = "alert"
  /\ handling' = [handling EXCEPT ![m] = "fire"]
  /\ alerts' = [alerts EXCEPT ![m] = @ + 1]
  /\ UNCHANGED <<pending, inbox, proc, reader, shown, settings, restarts>>

LaunchAnyway == FALSE

\* _proc is not None and _proc.poll() is None
StillRunning == \E p \in proc : reader[p].st # "off"

\* _fire_on_message_command: nothing without a command, while one is running,
\* or when Popen fails.
Fire(m) ==
  /\ handling[m] = "fire"
  /\ handling' = [handling EXCEPT ![m] = "none"]
  /\ \/ UNCHANGED <<proc, reader>>
     \/ /\ ~StillRunning
        /\ \E p \in Hooks : /\ reader[p] = Off
                            /\ reader' = [reader EXCEPT ![p].st = "started"]
                            /\ proc' = {p}
  /\ UNCHANGED <<pending, inbox, alerts, shown, settings, restarts>>

\* The application ends, wherever handle_message is, and starts again; the
\* processes it launched live on.
Restart ==
  /\ restarts < MaxRestarts
  /\ restarts' = restarts + 1
  /\ handling' = [m \in Messages |-> "none"]
  /\ proc' = NotRunning
  /\ UNCHANGED <<pending, inbox, alerts, reader, shown, settings>>

ChangeSettings ==
  /\ \/ enabled' = ~enabled /\ UNCHANGED agents
     \/ \E s \in Senders : agents' \in {agents \cup {s}, agents \ {s}} /\ UNCHANGED enabled
  /\ UNCHANGED <<pending, inbox, handling, alerts, proc, reader, shown, restarts>>

-----------------------------------------------------------------------------
(* `agent inbox --unread`, in a process of its own.                        *)

Unread == {m \in Messages : inbox[m] = "unread"}

\* ORDER BY ts ASC LIMIT n
Oldest(n) == {m \in Unread : Cardinality({k \in Unread : k < m}) < n}

StartByHand(p) ==
  /\ p \in Users
  /\ reader[p] = Off
  /\ reader' = [reader EXCEPT ![p].st = "started"]
  /\ UNCHANGED <<pending, inbox, handling, alerts, proc, shown, settings, restarts>>

ListingOldest(p) == {Oldest(1)}

\* What a process asks for: a user may give --limit.
Listing(p) == IF p \in Users THEN {Unread, Oldest(1)} ELSE {Unread}

\* list() and the printing of what it returned; with nothing to show the
\* command ends, before --mark-read is looked at.
List(p) ==
  /\ reader[p].st = "started"
  /\ \E ms \in Listing(p) :
       /\ shown' = shown \cup ms
       /\ reader' = [reader EXCEPT ![p] = IF ms = {} THEN Off
                                          ELSE [st |-> "listed", listed |-> ms]]
  /\ UNCHANGED <<pending, inbox, handling, alerts, proc, settings, restarts>>

\* mark_read(network): every incoming message, listed or not.
MarkAllRead == [m \in Messages |-> IF inbox[m] = "absent" THEN "absent" ELSE "read"]

\* With --mark-read; without it the inbox is left as it is.
MarkRead(p) ==
  /\ reader[p].st = "listed"
  /\ inbox' \in {inbox, MarkAllRead}
  /\ reader' = [reader EXCEPT ![p] = [st |-> "working", listed |-> {}]]
  /\ UNCHANGED <<pending, handling, alerts, proc, shown, settings, restarts>>

\* The program goes on with what it read, and ends.
Exit(p) ==
  /\ reader[p].st = "working"
  /\ reader' = [reader EXCEPT ![p] = Off]
  /\ UNCHANGED <<pending, inbox, handling, alerts, proc, shown, settings, restarts>>

ReaderStep(p) == List(p) \/ MarkRead(p) \/ Exit(p)

MailboxNext ==
  \/ \E m \in Messages : Alert(m) \/ Fire(m)
  \/ \E m \in Messages, acked \in BOOLEAN : HandleMessage(m, acked)
  \/ Restart
  \/ ChangeSettings
  \/ \E p \in Readers : StartByHand(p) \/ ReaderStep(p)

MailboxSpec == MailboxInit /\ [][MailboxNext]_mailboxVars

\* The handler runs on, and so do the processes that were started.
FairMailboxSpec ==
  /\ MailboxSpec
  /\ \A m \in Messages : WF_mailboxVars(Alert(m) \/ Fire(m))
  /\ \A p \in Readers : WF_mailboxVars(ReaderStep(p))

-----------------------------------------------------------------------------
\* Type invariant of the mailbox, its handler and its readers.
MailboxTypeOK ==
  /\ pending \subseteq Messages
  /\ inbox \in [Messages -> {"absent", "unread", "read"}]
  /\ handling \in [Messages -> {"none", "alert", "fire"}]
  /\ alerts \in [Messages -> Nat]
  /\ proc \in SUBSET Hooks
  /\ reader \in [Readers -> [st : {"off", "started", "listed", "working"},
                             listed : SUBSET Messages]]
  /\ shown \subseteq Messages
  /\ enabled \in BOOLEAN /\ agents \subseteq Senders
  /\ restarts \in 0 .. MaxRestarts

\* One alert per message at most, however often it is redelivered and whenever
\* the application restarts (agents.py:89, 178).
AlertedOnce == \A m \in Messages : alerts[m] <= 1

\* A message once read is never unread again: no redelivery brings it back
\* (agents.py:93).
ReadStaysRead == [][\A m \in Messages : inbox[m] = "read" => inbox'[m] = "read"]_mailboxVars

\* A burst of messages runs one command at a time (agents.py:150); one that
\* outlives the application that launched it is forgotten.
OneHookAtATime ==
  restarts = 0 => \A p, q \in Hooks : reader[p].st # "off" /\ reader[q].st # "off" => p = q

\* Every message of a burst that is there when the command looks at the inbox
\* is seen by it (agents.py:152), unless somebody reads the inbox by hand or a
\* command from before a restart is still reading it.
BurstIsShown ==
  \A m \in Messages, p \in Hooks :
    inbox[m] = "unread" /\ reader[p].st = "started"
      ~> m \in shown \/ restarts > 0 \/ \E u \in Users : reader[u].st # "off"
=============================================================================
