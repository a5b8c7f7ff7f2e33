# omarchy-relay in TLA+

Models of [omarchy-relay](../src/README.md), a chat, file transfer, remote action and
agent messaging tool over an encrypted MQTT broker, written from its Python sources
(`src/omarchy_relay/`). TLC checks them on small instances; TLAPS proves the most
important invariants for every instance.

## 1. The system

Every device runs a client (GTK window, terminal chat, daemon or one-off command) that
keeps an MQTT session with one broker. All the coordination is in the clients: the
broker stores and redelivers.

| Part | State it keeps | Operations | Talks to |
|---|---|---|---|
| Peer directory (`presence.py`) | listed peers, pending removals, timers | `update`, `_finalize_removal`, `snapshot`, `resolve` | called on paho's thread; timers are threads; `on_removed` runs in a timer thread |
| File transfer (`transfer.py`) | transfers under way, `.part` files, finished ids | `send_file`, `handle_meta`, `handle_chunk`, `_finalize` | meta and chunk topics; window callbacks |
| Remote actions (`remote_actions.py`, `PendingActions` in `mqttclient.py`) | events and results of callers, ids already handled | `run_action`, `resolve`, `handle_request` | request and result topics; permissions in `Config` |
| Agent messages (`agents.py`, `agent inbox` in `cli.py`) | an SQLite table, the launched command | `handle_message`, `_fire_on_message_command`, `list`, `mark_read` | other processes read and write the table |
| Message lifecycle (`gui.py`, `history.py`) | bubbles and their metadata, `history.db` | send, receive, edit, delete for everyone or for me, load, prune | chat topic; handlers cross to the main loop with `GLib.idle_add` |
| Broker connection (`mqttclient.py`) | session, subscriptions, last will | connect, reconnect, publish, dispatch | all of the above |
| Receipts and reactions (`gui.py`, `history.py`) | receipt queue, unread ids, reactions and receipts of each message, their columns in `history.db` | acknowledge, catch up, flush, toggle, handle | receipts on the direct topic, reactions on the chat topic |
| Typing indicator (`gui.py`) | who is shown as typing, a timer each | `_handle_typing`, `_on_typing_expired` | chat topic at QoS 0 |
| Settings (`gui.py`, `cli.py`, `config.py`) | `config.toml`, `Config` objects and the dictionaries they share | dialogs, pages, commands | window, handlers and receiver each hold a `Config` |
| Network switch (`gui.py`) | the present client, its worker thread, callbacks queued in the main loop | `_apply_new_config`, `_connect_worker` | every component that has a `Config` or a client is made anew |
| Terminal clients (`chat.py`, `tui.py`) | `Transcript`, threads | add, edit, react, forget, commands, quit | chat topic; Textual's thread prints for the others |
| Encryption, audio, exports, art, scripts | none that changes | pure functions and I/O | |

### What is hard, and what makes a part correct

- **Peer directory.** A `threading.Timer` that has fired cannot be cancelled; it waits
  for the lock while `update()` goes on. Correct: every registered removal is live, no
  ghost stays listed, nobody online is removed, and the lines printed agree with the
  list.
- **File transfer.** QoS 1 repeats and may reorder messages; a file may change between
  `stat()` and `read_bytes()`; the receiver may be replaced in the middle. Correct: a
  `.part` file holds exactly the chunks received, only genuine files are kept, each
  once, without replacing another, and the transfer ends.
- **Remote actions.** A request may be redelivered, an answer may be late or repeated,
  permissions may change between the three checks. Correct: a command runs once and only
  when permitted, its caller is told the truth, and no call leaks.
- **Agent messages.** The mailbox is shared with other processes; one command runs at a
  time and reads the inbox for itself. Correct: one alert per message, what is there
  when the command looks is shown, what was read stays read.
- **Message lifecycle.** Edits and deletions arrive late, twice, or before the bubble
  exists; window and database change one after the other; what is queued in the main
  loop dies with the process though the broker has its acknowledgement. Correct: a
  window agrees with its history, edits do not go back, deletions stick and reach all.
- **Receipts and reactions.** A reaction is toggled from what is shown, before the echo
  of the last one; receipts wait for a flush, may be redelivered behind newer ones, and
  depend on focus and a setting that change meanwhile. Correct: windows agree on
  reactions and with their history, a receipt is true, final, and arrives.
- **Settings.** `dataclasses.replace` makes a new `Config` that refers to the same
  dictionaries; window and commands rewrite the whole file. Correct: handlers follow the
  window, and no save loses a change.
- **Network switch.** Workers of old clients still connect, fail and report; callbacks
  queued before the switch run after it. Correct: one connection, a true status that is
  decided at last, networks kept apart.
- **Terminal clients.** Lines are evicted, redelivered, edited and deleted while commands
  look them up; paho's thread waits for Textual's thread to print. Correct: the
  transcript settles on what was published, and quitting ends.

`PROJECT.json` lists every component and every hazard with its line.

## 2. Modules

| Module | Models | Proofs |
|---|---|---|
| `PeerDirectory`, abstract `DebouncedPresence` | `presence.py`; the abstract module is the promise of its docstring | `PeerDirectoryProofs` |
| `FileTransfer` | `transfer.py`, at-least-once delivery between | `FileTransferProofs` |
| `RemoteActions` | `remote_actions.py`, `PendingActions` | `RemoteActionsProofs` |
| `AgentMailbox` | `agents.py`, `cmd_agent_inbox` | `TerminalProofs` |
| `MessageLog` | one broadcast text or file in the windows of `gui.py` and in `history.py` | `MessageLogProofs` |
| `MessageExtras` | its receipts and reactions, in the windows and in `history.py` | `MessageExtrasProofs` |
| `NetworkSwitch` | `_apply_new_config`, connection workers and the main loop of `gui.py`; `connect`, `disconnect` and paho's loops of `mqttclient.py` | `NetworkSwitchProofs` |
| `Settings` | `config.py`, every writer of it in `gui.py` and `cli.py`, and the handlers that read it | `SettingsProofs` |
| `TerminalChat` | `chat.py`, `tui.py` | `TerminalProofs` |

`TerminalProofs` extends the two models of the command line's programs, which share no
variable; the specification of `AgentMailbox` is named `MailboxSpec` so that both can be
extended.

The `MC*` modules give the function and set constants their values; the `.cfg` files
give the rest. Each model has a definition for each named helper of the code, so that
the plausible mistakes written beside it (`NeverSeen`, `NewerAlways`, ...: unused
variants, one mistake each) can be put in its place; `PROJECT.json` says which property
each of them violates.

### PeerDirectory

`listed`, `pending` and `timer` are `_peers`, `_pending_removal` and the timer threads
(waiting, fired and blocked on the lock, or in the callback). `online` is what the last
signal said; it exists for the properties. `UpdateOnline`, `UpdateGone` and
`UpdateOffline` are the branches of `update()` under the lock, `TimerFires`,
`FinalizeRemoval` and `OnRemoved` the life of a timer, `PrintOnline` the caller's line
after `update()`. `shown` records the last line printed about a device. `prompt`, chosen
at the start from `Timings`, says whether a timer that fired ends before the next signal
about its device (a timing assumption, 5 seconds against microseconds); without it every
interleaving is possible.

### FileTransfer

A file is its length in chunks, a chunk is the pair of its transfer and index; `size`
(from `stat`) and `total` (from `read_bytes`) may differ. `net` holds the messages not
yet acknowledged. `Deliver` is one delivery of any of them, acknowledged or not, handled
completely (`handle_meta`, or `handle_chunk` with `_finalize`). `Restart` recreates the
receiver, as `_apply_new_config` and a restart do. `early` is history: the transfers that
lost a chunk because it was delivered, and acknowledged, ahead of its meta (`LostEarly`).

### RemoteActions

`call` is where each `run_action` is; `events`, `signalled` and `results` are the
tables of `PendingActions`. On the target, `handling` names the check to be made next:
each check reads `cfg` on its own and `ChangePermissions` may come between. `allowed`
collects the permissions that held since the handling began. `Restart` makes a new
client with an empty `_seen_requests`; requests not acknowledged remain with the broker.

### AgentMailbox

`HandleMessage` is `handle_message` up to and including `add`, for a message in `pending`
(sent and not acknowledged). `inbox` is the table; `handling` the rest of `handle_message`
after the `INSERT`;
`proc` is `_proc`. Readers are the hook processes and what users start by hand; each
lists, may mark read, works and ends. A hook is external: any program that reads the
inbox once with `agent inbox --unread`.

### MessageLog

`log` is the topic; each window has been given `next` changes in its present session and
has acknowledged `acked`. `Receive` queues a handler (`idle_add`), `Handle` runs the
oldest one on the main loop; they are separate steps, and the acknowledgement may come
between. `bubble` stands for `_message_meta` and `_message_bubbles`, with the version shown and
`edited_ts`; `row` for the row in `messages`. A file's bubble is appended by a second
callback (`append`). `Prune` is another message's arrival beyond the retention limits.
`file`, `prunes` and `restarts`, chosen from `Setups` at the start, say whether the message
is a file, and whether windows prune and restart. Publishing is taken to succeed once the broker connection is up;
direct messages, whose sender shows them at once, are not in this module.

### MessageExtras

`inbox` is what the broker has for a window's session; the message, reactions and the
deletion go to all, a receipt to the author. `Receive` queues a handler, `Handle` runs the
oldest. `entry` and `reactions` are `_message_meta` and `_reactions`, `receipts` the
author's `_receipts`; `row`, `stored` and `kept` are their columns in history. `queue` is
`_receipt_queue`, `unread` and `reading` what `_catch_up_reads` looks at. `HandleCreate`
shows, records and acknowledges the message; `HandleReaction`, `HandleReceipt` and
`HandleDelete` are the handlers of those names with the calls to `HistoryStore` in them
(`MarkDeleted`, `HideMessage`, `ForgetExtras`). `Remember` may prune what it has just added,
if history is full of later messages, and `Prune` is the recording of another message, or a save of
the limits: row, reactions and receipts leave history and stay in the window.
`arrived`, `pruned`, `inFront` and `lost` are history variables: which windows ever showed the message,
whose history was pruned of it, who had it in front of them with read receipts on, and
which windows ended with handlers or receipts waiting.

### NetworkSwitch

Clients are numbered as they are made. `loop` and `connected` are paho's thread and the
`Event` of each; `worker` is where each `_connect_worker` is: it reads `self.client` when it
runs (`Read`), dials (`Dial`, `DialFails`), waits (`Succeed`, `TimeOut`). `queue` holds
the callbacks of the main loop, which `RunCallback` runs in order against the present
configuration. `typing` says which timer `_typing_peers` notes for whom, `timers` which
GLib sources exist: `ShowTyping` makes one and removes the one it replaces, `ClearTyping`
removes it with the indicator, `Expire` is a source that runs. `Switch` is
`_apply_new_config` as a whole, as far as the module has its state. `Accept` lets the broker displace
another connection of the device, as brokers do for a client id; or not, if the other
one is at another broker. `mishaps` is history: what was under way when settings were
saved. The properties name in it the cases the code does not cope with, so that each says
precisely when it holds.

### Settings

`object` and `table` give `Config` objects and dictionaries identities; `cfg`,
`handlerCfg` and `receiverCfg` say who holds which object. `SaveSettings` is `on_save`
with and without `_apply_new_config`; `Toggle`, `AddTrust`, `RemoveTrust` are the pages (one
flag stands for the three switches, one table for the three dictionaries, which the code
treats alike). A command is `LoadCommand` then `SaveCommand`; `Initialise` is `init`.
`wanted` and `stale` are history: what the user last asked for, and whether somebody
wrote over a change not read.

### TerminalChat

`transcript` is the `OrderedDict` as a sequence; each method of `Transcript` is one
operator, atomic under its lock. A message's id is its position on the topic, and its text
the position of what brought it. `net` is paho's thread: in the full-screen client
`Receive` leaves it waiting in `call_from_thread` until `Printed`. `line` holds the worker
threads between the look-up of a target (`Target`) and the publication (`SendChange`).
`Quit`, `StopLoop`, `LoopEnds` and `Joined` are `disconnect()` on the interface's thread.

## 3. What the runs check

| Run | Bounds | What it shows |
|---|---|---|
| `peer` | 2 devices, 3 timers, prompt or any interleaving | Registered removals are live, nobody offline stays listed without a removal, everyone offline leaves; prompt: the directory implements `DebouncedPresence`, last lines and list agree |
| `peer_late_return` | the same, any interleaving | *Violation*: a timer that fired before the return removes a device that is online |
| `transfer` | 2 transfers of one name, up to 4 chunks, sender limit 3, receiver limit 2, one name taken, 4 copies, 1 new receiver | Exact reassembly, genuine files, no replacement, at most once, every transfer ends unless a chunk came ahead of its meta; messages in any order |
| `actions` | 1 request, 1 restart, all permission changes | Once per client, permitted, truthful, no leak, every call ends |
| `agents` | 2 messages, 2 hook slots, 1 user, 1 restart | One alert, one hook at a time, bursts shown, read stays read |
| `log` | 2 windows, 2 edits, 1 loss; text or file in windows that stay open, text with restarts, the same with pruning | Windows agree with history, deletions stick; without restarts edits never go back and converge, deletions of a text reach all |
| `extras` | author and a reader, 2 inputs of the users or prunes, 1 loss or restart | Windows show what history keeps until it is pruned; receipts are true, final and arrive; reactions converge, pruned or not |
| `switch` | 2 networks, 1 save, 2 messages, 1 dropped connection | One connection, a true status that is decided unless `connect()` ends in an error nothing reports, networks apart, one timer for each typing indicator |
| `settings` | 1 device, 2 networks, 1 terminal, 2 saves, 2 commands, 2 starts | Trust reaches the handlers, changes are kept |
| `settings_switch_off` | the same | *Violation*: a switch set after a save without reconnect does not reach the handlers |
| `terminal` | both clients, 2 lines at a time, transcript of 2, 3 events, 1 loss | The transcript keeps its limit and settles; leaving ends or hangs in printing |
| `terminal_quit` | full-screen client, 1 line, 1 event | *Violation*: quitting hangs |

Why the bounds are enough. Two devices show that timers of one do not disturb the other,
and three timers allow a stale one, a registered one and a new one of the same device.
Two transfers of one name in a directory that has it collide twice; lengths 0 to 4
against limits 3 and 2 include empty, growing, shrinking and refused files. Two messages
are the shortest burst. Two windows are an author, whose own changes echo, and a reader;
two edits are what an older and a newer one need. One lost connection lets everything
unacknowledged be redelivered, a second one lets it be redelivered after a restart.
Requests are handled one at a time and share only the set of ids, so one request shows
everything but eviction, which the theorem `AtMostOneRun` and its assumption on the cap
cover. Two inputs are a toggle and its reversal before the echo, a look and a change of
the setting, or a toggle and a prune; a second reader would have a queue of its own and meet the first nowhere but
at the author, where receipts are kept by device. One save is what it takes for an old and
a new client; more of them are in the proofs. Two saves of the dialog share and replace a
`Config`, and two commands with one save overwrite each other. Two messages of the run
`switch` are a "typing" and what replaces or clears it. A transcript of two with
three events evicts and is redelivered what it evicted; an edit of an evicted message needs
a fourth event and is covered by the theorem `TranscriptSettled`.

Deadlock is checked where the system goes on for ever (`peer`, `actions`, `agents`). A
transfer or a message has an end (everything delivered, all bounds used), and so have the
bounded inputs of the others, hence `CHECK_DEADLOCK FALSE` there.

Type correctness is a theorem of every component's module and not repeated as an invariant of the
runs, except for `TerminalChat`, whose `TypeOK` also says that the transcript keeps its
limit and has each message once.

### Fairness

Only what schedulers and the protocol owe is assumed, never what users or peers do.

- `PeerDirectory`: timers fire and get the lock, the caller's thread goes on. Signals
  need not come.
- `FileTransfer`: the sender's loop goes on and a message is delivered until it is
  acknowledged (QoS 1, persistent session).
- `RemoteActions`: caller threads go on, waits end at their timeout, the handler goes on
  (`subprocess.run` has a timeout). The relay need not deliver anything.
- `AgentMailbox`: the handler and processes that were started go on. A program that
  hangs is out of scope.
- `MessageLog`: the main loop runs, a window reconnects (paho's loop does) and the
  broker delivers. The acknowledgement need not arrive, users need do nothing.
- `MessageExtras`: the same, and the flush timer fires. Users need do nothing.
- `NetworkSwitch`: workers run and their waits end, and the main loop runs its callbacks.
  Neither broker nor user has to do anything: `StatusSettles` holds where the broker's host
  takes the connection and the broker never accepts it. It does not hold where
  `connect()` itself ends in an `OSError` that is not a `ConnectionError`: no such host,
  a host that never answers, no route, a TLS error.
- `TerminalChat`: threads that can run do run, and the wait of 3 seconds in
  `disconnect()` ends. Nobody has to type.
- `Settings` has no liveness property.

## 4. What is proved

All proofs hold for every value of the constants that satisfies the named assumptions of
the modules (they only say that sets have the shape the code gives them), unless listed.

| Theorem | States | Further assumptions |
|---|---|---|
| `PeerDirectoryProofs!TypeCorrect` | `TypeOK` | |
| `PeerDirectoryProofs!RegistrationsAreLive` | `PendingIsLive` | any timing |
| `PeerDirectoryProofs!NoGhosts` | `NoGhostPeers` | any timing |
| `PeerDirectoryProofs!RefinesDebouncedPresence` | `ImplementsDebouncedPresence` | says something of prompt timers only: without them the mapping is the empty list |
| `PeerDirectoryProofs!LinesAreTrue` | `LinesMatchList` | the property speaks of prompt timers |
| `FileTransferProofs!TypeCorrect` | `TypeOK` | |
| `FileTransferProofs!SavedFilesAreGenuine` | `SavedIsGenuine` | |
| `FileTransferProofs!ReassemblyNeverSpoils` | `DiscardedOnlyIfShrunk` | |
| `FileTransferProofs!PartFilesMatch` | `PartMatchesReceived` | |
| `FileTransferProofs!FilesAreSavedOnce` | `SavedOnce` | |
| `FileTransferProofs!SavedFilesAreNeverReplaced` | `NoOverwrite` | |
| `RemoteActionsProofs!TypeCorrect` | `TypeOK` | |
| `RemoteActionsProofs!OnlyPermittedRuns` | `RunsArePermitted` | |
| `RemoteActionsProofs!NoLeaks` | `NothingLeftBehind` | |
| `RemoteActionsProofs!AtMostOneRun` | `RunsOncePerClient` | no more requests than the cap |
| `RemoteActionsProofs!TrueAnswers` | `AnswersAreTrue` | no more requests than the cap |
| `TerminalProofs!InboxTypeCorrect` | `MailboxTypeOK` | |
| `TerminalProofs!AlertsAreUnique` | `AlertedOnce` | |
| `TerminalProofs!ReadIsKept` | `ReadStaysRead` | |
| `TerminalProofs!OneHookOnly` | `OneHookAtATime` | |
| `TerminalProofs!ChatTypeCorrect` | `TypeOK` | |
| `TerminalProofs!TranscriptSettled` | `TranscriptSettles` | |
| `MessageLogProofs!TypeCorrect` | `TypeOK` | |
| `MessageLogProofs!WindowsMatchHistory` | `WindowMatchesHistory` | `FilesStay`: texts, and files in windows that stay open |
| `MessageLogProofs!DeletionsAreFinal` | `DeletedStaysGone` | `FilesStay` |
| `MessageLogProofs!EditsStay` | `EditsNeverGoBack` | |
| `MessageExtrasProofs!TypeCorrect` | `TypeOK` | |
| `MessageExtrasProofs!ShownIsStored` | `ExtrasMatchHistory` | the property speaks of messages history was not pruned of |
| `MessageExtrasProofs!ReadStays` | `ReadIsFinal` | |
| `MessageExtrasProofs!TrueReceipts` | `ReceiptsAreTrue` | |
| `MessageExtrasProofs!ReactionsAgree` | `ReactionsConverge` | |
| `SettingsProofs!TypeCorrect` | `TypeOK` | |
| `SettingsProofs!TrustIsShared` | `TrustReachesHandlers` | |
| `SettingsProofs!ChangesStay` | `ChangesAreKept` | |
| `NetworkSwitchProofs!TypeCorrect` | `TypeOK` | |
| `NetworkSwitchProofs!SingleConnection` | `OneConnection` | |
| `NetworkSwitchProofs!NetworksApart` | `NetworksStayApart` | |
| `NetworkSwitchProofs!TruthfulFailure` | `FailureIsTrue` | |
| `NetworkSwitchProofs!IndicatorsAreTimed` | `OneTimerEach` | |

`FilesStay` leaves out the one setup in which the two properties do not hold: a file
redelivered to a window that was opened again is appended without a look at history
(`gui.py:1967`, see section 5). The setups of the run `log` satisfy it.

The transfer theorems hold for any number of transfers, duplicates and new receivers;
theorems and run alike take messages in any order.

The arguments:

- *Peers.* `Registrations` (`PendingIsLive` and `NoGhostPeers`) is inductive given
  `TypeOK`: neither part is alone, since a removal that is due must find its device
  listed, and a listed offline device its removal. With prompt timers `NoStaleTimer`
  (every timer that may still remove is the registered one) is inductive too; it makes
  each removal one of an offline device, which is the abstract `Remove`. `Lines` says why
  announcements are true although both are printed outside the lock: a device about to be
  announced is there, a device has at most one removal about to be printed and has left
  the list. Without the last part two timers of one device could print out of turn.
- *Transfers.* `TransferInv` says where the sender's loop is (`Senders`), that only
  chunks it has reached are in the broker's hands (`Queue`), that a `.part` file is
  consistent with the set of chunks received (`Reassembly`), and that kept files are
  genuine (`Kept`). The lemma `CompleteContents` shows by counting that when the last
  missing chunk arrives the file is complete. `NoneLeftBehind` (a transfer is not both under
  way and ended, and before a restart a `.part` file belongs to one under way) completes
  `PartMatchesReceived`. `OnceInv` ties every file the receiver kept to a transfer in
  `_finished`; two transfers' files differ in their first chunk (`DataDiffers`), so a
  transfer that is kept now, and is not in `_finished`, has not been kept before. A file of
  no chunks would differ from nothing, but never completes (`transfer.py:138`).
- *Actions.* `CallsInv` ties the tables to the phase of each call. `OnceInv` says that a
  request being handled is remembered, and that one not remembered has run at most
  once per earlier client.
- *Messages.* `Agree` says that what a restart would load is what is shown, except while
  the callback that appends a file's bubble waits; `Files` says of those callbacks that
  there is one at most, only in a window other than the author's that has the whole
  file, and that the window shows nothing of the file before. `Agree` is not inductive
  alone: a callback that came twice, or after a deletion was recorded, would show a file
  whose row says something else. Deletions need in addition `AllKept`: as long
  as retention leaves the row alone, a bubble has a row and a deleted message has a row
  that says so, which is what `_seen` looks at when a copy is redelivered. `InStep`: in a
  window that stays open the text shown is that of the `edited_ts` remembered, so an edit
  that is newer than the one is newer than the other.
- *Actions, continued.* `PassedInv` and `HeldInv` say that the checks passed so far each
  found a permission that is in `allowed`. `AnswersInv` says what an answer on its way
  tells of the command; with `OnceInv` it makes a refusal exclude a run.
- *Agents.* `AlertsInv`: a message that is absent, or whose alert is still to come, has had
  none. `HookInv`: until a restart the commands that run are the one `_proc` knows.
- *Extras.* `LoadedInv`: in a window whose history was not pruned, entry, reactions and
  receipts are what `_load_history` makes of the row. `ReadKept`, pruned or not: as long as
  there is a row to load, history has every "read" that is shown. `TruthInv`: every receipt queued, on
  its way, handled or kept is one its reader has earned; `PastStays` says that what is
  earned is not lost.
- *Reactions.* Windows receive the same changes but not at the same places, since each
  session starts with the message and may be handed things again. `Agree` states what all
  sessions have in common without reference to places: the last toggle of a device (`LastToggle`) adds in all of
  them or in none. `Follows` says what a
  window makes of that: what it shows once its main loop is idle is the last toggle it was
  sent, be that still queued or handled. `Resumes` covers a window the message comes to
  anew, where toggles before it are dropped: a session brings the message first, and if it
  brings it again, it brings again all that followed. `Heard` says that reactions history kept
  of a pruned message were published, so that they cannot be there before the first was
  delivered, and `Anchored` that nothing is shown of a message that is not. All are statements about positions of the sequences, so that the step from one
  state to the next needs no induction over them; `ConvergeInv` is their conjunction.
- *Settings.* `FileInv` gives the types and that nothing runs without a file. `SharedInv`:
  all `Config` objects of a process refer to the dictionary it loaded.
- *Network switch.* `OnlyCurrent` (no dial fell into a save): only the present client runs
  a loop or is dialled. `OnePlace`, on top of it: callbacks, peers and typing belong to its
  network. `Outcome` (no outcome was pending at a save): the one worker that is not
  finished works on the present client, and a failure is queued or shown only when it has
  finished without a connection. `Noted`: the sources are those noted, and no source is noted
  for two peers, so that removing one takes no other's. `OneConnection` alone is not inductive: nothing in it
  forbids the dial of an old worker.
- *Terminal.* `BaseInv`: types; what waits to be printed is what was delivered last; what
  the transcript has was published, and a line's target is a message of the right side. Every step
  publishes one event, handles the next one, is given some again, or rests (the lemma
  `Kinds`), and the three parts that follow are shown for these four. `ContentInv`: a message in the
  transcript has its last text and reactions, and was not deleted, unless a change of it is
  still to be handled, for the first time or again. `KeptInv`, while no more messages were written than the
  limit: the transcript has, in order, those that stand up to some position ever handled.
  `TurnInv`, while nothing was deleted: the transcript is `Flat` (the newest messages, consecutive) or
  `Wrapped`: messages evicted and redelivered follow the newest and push them out one by one,
  until they have caught up. Neither the order nor `Recent` holds in between. When all is
  handled nothing is left in front, whose messages would be newer than the last one, and the
  sizes of finite sets give `Recent`.

Only model-checked:

- liveness, which is out of this prover's reach: `OfflinePeersLeave`, `EveryTransferEnds`,
  `CallsEnd`, `BurstIsShown`, `EditsConverge`, `DeletionReachesAll`, `ReceiptsArrive`,
  `StatusSettles`, `LeavingEndsOrHangs`;
- the violations, which are counterexamples and need no proof.

## 5. Where code and documentation part

The violation runs each show one disagreement; `PROJECT.json` quotes the lines.

1. `peer_late_return`, `presence.py:59`: `_finalize_removal` does not check that its timer is
   still the registered one, so a device that returned in time can be removed.
2. `settings_switch_off`, `gui.py:3455`: saved settings that need no reconnect give a new
   `Config` to the window and the receiver, not to the handlers. Remote actions and agent
   messages switched off (or on) after that do not reach them before the next reconnect,
   although "Changes apply immediately". Trust and commands do: the dictionaries are shared
   (`TrustReachesHandlers`).
3. `terminal_quit`, `tui.py:176`: `disconnect()` on Textual's thread joins paho's thread, which
   may be waiting for Textual's thread to print: the full-screen client hangs.

Seen while modelling, in the models, and excepted from the properties concerned:

- *Transfers.* A chunk that overtakes its meta is dropped for good (`transfer.py:122`), and the
  transfer never ends, although the docstring speaks of "out-of-order arrival across
  reconnects" (`transfer.py:4`): `EveryTransferEnds` excepts it as `early`. A file emptied while it is read never completes.
- *Actions.* Ids handled live in memory (`mqttclient.py:35`) and may be evicted at once past
  the cap (`mqttclient.py:66`): a request redelivered after a restart runs again, once per
  client.
- *Agents.* A message that arrives while a command runs, and after it looked, wakes nobody
  (`agents.py:187`); `--mark-read` marks rows that were never listed (`cli.py:250`); after a
  restart a second command may run beside the first.
- *Messages.* `edited_ts` is not kept in history, so after a restart an older edit may undo a
  newer one until that is redelivered (`gui.py:2824`). A deletion queued behind a file's
  last chunk is handled before the file's bubble exists (`gui.py:1959`). A file redelivered
  after a restart is appended without a look at history (`gui.py:1967`). Queued handlers are lost
  with the process (`gui.py:1199`). Rows that keep deleted messages from returning are pruned
  like others (`history.py:231`).
- *Receipts and reactions.* A window goes on showing those of a message its history was pruned of
  (`gui.py:1748`, `history.py:239`), and a restart loads none of it: `ExtrasMatchHistory` excepts it
  as `pruned`. Receipts waiting when the window closes are never sent (`gui.py:2602`). Closing a
  search does not catch up reads (`gui.py:2659`).
- *Network switch.* A save during paho's blocking `connect()` leaves a second client that comes
  up later (`mqttclient.py:117`). The failure of a replaced client is shown for the new one.
  Callbacks queued before a switch are kept and listed under the new network. An
  `OSError` of `connect()` that is not a `ConnectionError` (no such host, a host that never answers, no
  route, a TLS error) leaves "Connecting…" for ever (`gui.py:1207`): excepted as `unreported`.
  Bubbles, `_message_meta`, `_reactions`, `_unread` and `_receipt_queue` survive a switch;
  `NetworksStayApart` is about peers, typing and history rows only. The status is not updated when
  a connection drops later; the code does not claim it.
- *Settings.* Two writers that loaded the same file lose a change (`stale`).
- *Terminal.* A message evicted and redelivered after others were deleted takes a newer
  one's place (`chat.py:103`).

## 6. Not modelled

- Wording, formatting, notifications and sound; backlog summaries; art and release notes;
  layout of window and terminal; recorder and player processes; the Hyprland window lock;
  installation and broker scripts: no state a property could be about.
- Encryption and `network_share`: pure conversions. A message that does not decrypt is
  dropped before any handler.
- The text of `config.toml`, and a crash in the middle of `write_text()`.
- Birth and last will: `PeerDirectory` takes signals about devices as they come.
- Direct messages (whose sender shows them at once and which have reactions and
  receipts of their own), search, and reactions toggled without a connection.
- `/msg`, `/send`, `/action` and `/agent` of the terminal clients, `send_agent_message`, and the
  one-off publications of the command line with their wait of 0.5 s.
- In `NetworkSwitch`, the removal of peers (also by timers of an old `PeerDirectory` that fire
  after a switch): it ends in a system line and `_clear_typing`, as a chat message does.
- Time is abstracted: a timeout may come at any moment, and the debounce only orders steps.

## 7. Plan

1. *Connection*: birth and will messages of one device across reconnects and two clients
   with one id, composed with `PeerDirectory`.
2. Direct messages in `MessageLog` and `MessageExtras`, with their own reactions.
3. The sender's side of `AgentMailbox`; `/send` and `/action` in `TerminalChat`, composed with
   `FileTransfer` and `RemoteActions`.

Every invariant and every action property of the passing runs is a theorem; the proofs of
these extensions come with them.
