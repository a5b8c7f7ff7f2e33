----------------------------- MODULE Settings -----------------------------
(***************************************************************************)
(* config.py with its writers: the window (gui.py: Settings, Remote        *)
(* Commands, Agent Messaging, What's New) and the commands of cli.py, and  *)
(* the handlers of remote_actions.py and agents.py, which read a Config.   *)
(*                                                                         *)
(* A Config is a Python object.  dataclasses.replace() copies its numbers, *)
(* strings and flags, but the copy refers to the same dictionaries.  So    *)
(* objects and dictionaries (tables) have identities here.  One flag `on`  *)
(* stands for remote_actions_enabled, agents_enabled and                   *)
(* agents_on_message_command, one table for remote_actions_peers,          *)
(* remote_actions_commands and agents_peers, `pref` for what can change    *)
(* without a new connection, `seen` for last_seen_version.                 *)
(***************************************************************************)
EXTENDS Naturals, Sequences

CONSTANTS
  Devices,        \* devices that may be trusted
  Networks,       \* nickname, network and broker as one
  Shells,         \* terminals commands are run in
  MaxSaves,       \* bound: saves of the settings dialog by one process
  MaxCommands,    \* bound: commands in all
  MaxStarts,      \* bound: starts of the window
  NoFile

ASSUME BoundsAssumption == MaxSaves \in Nat /\ MaxCommands \in Nat /\ MaxStarts \in Nat

\* What a config file says.
Contents == [net : Networks, pref : BOOLEAN, on : BOOLEAN, seen : BOOLEAN, peers : SUBSET Devices]

ASSUME NoFileAssumption == NoFile \notin Contents

Ids == 1 .. MaxSaves + 1
Objects == [net : Networks, pref : BOOLEAN, on : BOOLEAN, seen : BOOLEAN, table : Ids]

VARIABLES
  file,           \* config.toml
  running,        \* the window's process is there
  object,         \* its Config objects, by identity
  table,          \* its dictionaries, by identity
  made,           \* Config objects made by this process
  cfg,            \* RelayWindow.cfg
  handlerCfg,     \* cfg of the RemoteActionHandler and AgentMessageHandler
  receiverCfg,    \* cfg of the FileReceiver
  shell,          \* command being run: what it loaded and what it changes
  wanted,         \* history: what the user last asked for
  stale,          \* history: a writer saved over a change it had not read
  commands, starts

process == <<running, object, table, made, cfg, handlerCfg, receiverCfg>>
vars == <<file, process, shell, wanted, stale, commands, starts>>

IdleShell == [copy |-> NoFile, op |-> "none", dev |-> "none"]
Ops == {"enable", "disable", "trust", "untrust"}

\* load(): missing entries have the defaults of the dataclass.
Loaded(f) == [net |-> f.net, pref |-> f.pref, on |-> f.on, seen |-> f.seen, table |-> 1]

\* _to_toml()
Written(o, t) ==
  [net |-> o.net, pref |-> o.pref, on |-> o.on, seen |-> o.seen, peers |-> t[o.table]]

Nobody == [i \in Ids |-> {}]

Init ==
  /\ file = NoFile
  /\ running = FALSE
  /\ \E n \in Networks : object = [i \in Ids |-> [net |-> n, pref |-> TRUE, on |-> FALSE, seen |-> FALSE, table |-> 1]]
  /\ table = Nobody
  /\ made = 0 /\ cfg = 1 /\ handlerCfg = 1 /\ receiverCfg = 1
  /\ shell = [s \in Shells |-> IdleShell]
  /\ wanted = NoFile /\ stale = FALSE
  /\ commands = 0 /\ starts = 0

-----------------------------------------------------------------------------
(* The window's process.                                                   *)

\* cmd_gui: the config is loaded once; window and handlers share the object.
Start ==
  /\ ~running /\ file # NoFile /\ starts < MaxStarts
  /\ running' = TRUE
  /\ object' = [object EXCEPT ![1] = Loaded(file)]
  /\ table' = [Nobody EXCEPT ![1] = file.peers]
  /\ made' = 1 /\ cfg' = 1 /\ handlerCfg' = 1 /\ receiverCfg' = 1
  /\ starts' = starts + 1
  /\ UNCHANGED <<file, shell, wanted, stale, commands>>

Quit ==
  /\ running
  /\ running' = FALSE
  /\ UNCHANGED <<file, object, table, made, cfg, handlerCfg, receiverCfg, shell, wanted, stale,
                 commands, starts>>

\* The window saves its config: what it held before is what it knows of the file.
SaveWindow(i) ==
  /\ file' = Written(object'[i], table')
  /\ stale' = (stale \/ file # Written(object[cfg], table))

ReplacedDeeply(n, p) ==
  /\ object' = [object EXCEPT ![made + 1] = [object[cfg] EXCEPT !.net = n, !.pref = p, !.table = made + 1]]
  /\ table' = [table EXCEPT ![made + 1] = table[object[cfg].table]]

ReplacedFromStart(n, p) ==
  /\ object' = [object EXCEPT ![made + 1] = [object[1] EXCEPT !.net = n, !.pref = p]]
  /\ table' = table

\* dataclasses.replace(self.cfg, ...): a new object, the same dictionaries.
Replaced(n, p) ==
  /\ object' = [object EXCEPT ![made + 1] = [object[cfg] EXCEPT !.net = n, !.pref = p]]
  /\ table' = table

\* on_save: only a field of _RECONNECT_FIELDS makes new handlers, in
\* _apply_new_config; otherwise window and receiver get the new object.
SaveSettings(n, p) ==
  /\ running /\ made <= MaxSaves
  /\ Replaced(n, p)
  /\ made' = made + 1 /\ cfg' = made + 1 /\ receiverCfg' = made + 1
  /\ handlerCfg' = IF n # object[cfg].net THEN made + 1 ELSE handlerCfg
  /\ SaveWindow(made + 1)
  /\ wanted' = [wanted EXCEPT !.net = n, !.pref = p]
  /\ UNCHANGED <<running, shell, commands, starts>>

\* on_enabled_toggled, on_save_hook
Toggle(on) ==
  /\ running
  /\ object' = [object EXCEPT ![cfg].on = on]
  /\ table' = table
  /\ SaveWindow(cfg)
  /\ wanted' = [wanted EXCEPT !.on = on]
  /\ UNCHANGED <<running, made, cfg, handlerCfg, receiverCfg, shell, commands, starts>>

\* on_add_trust, on_add_command, on_remove: the dictionary is changed in place.
SetPeers(peers) ==
  /\ running
  /\ table' = [table EXCEPT ![object[cfg].table] = peers]
  /\ object' = object
  /\ SaveWindow(cfg)
  /\ wanted' = [wanted EXCEPT !.peers = peers]
  /\ UNCHANGED <<running, made, cfg, handlerCfg, receiverCfg, shell, commands, starts>>

AddTrust(d) == SetPeers(table[object[cfg].table] \cup {d})

RemoveTrust(d) == SetPeers(table[object[cfg].table] \ {d})

\* _show_whats_new, at the start if the notes are not seen, or from the menu.
ShowNotes ==
  /\ running
  /\ ~object[cfg].seen
  /\ object' = [object EXCEPT ![cfg].seen = TRUE]
  /\ table' = table
  /\ SaveWindow(cfg)
  /\ wanted' = [wanted EXCEPT !.seen = TRUE]
  /\ UNCHANGED <<running, made, cfg, handlerCfg, receiverCfg, shell, commands, starts>>

-----------------------------------------------------------------------------
(* Commands: each one loads the whole file, changes it and writes it back. *)

Changed(f, op, d) ==
  CASE op = "enable" -> [f EXCEPT !.on = TRUE]
    [] op = "disable" -> [f EXCEPT !.on = FALSE]
    [] op = "trust" -> [f EXCEPT !.peers = @ \cup {d}]
    [] op = "untrust" -> [f EXCEPT !.peers = @ \ {d}]

\* _load_config() ends the command if there is no file.
LoadCommand(s, op, d) ==
  /\ shell[s] = IdleShell /\ file # NoFile /\ commands < MaxCommands
  /\ shell' = [shell EXCEPT ![s] = [copy |-> file, op |-> op, dev |-> d]]
  /\ commands' = commands + 1
  /\ UNCHANGED <<file, process, wanted, stale, starts>>

SaveCommand(s) ==
  LET c == shell[s] IN
  /\ c # IdleShell
  /\ file' = Changed(c.copy, c.op, c.dev)
  /\ stale' = (stale \/ file # c.copy)
  /\ wanted' = Changed(wanted, c.op, c.dev)
  /\ shell' = [shell EXCEPT ![s] = IdleShell]
  /\ UNCHANGED <<process, commands, starts>>

\* cmd_init, with --force if there is a file: nothing of the old one is kept.
Initialise(n) ==
  /\ commands < MaxCommands
  /\ file' = [net |-> n, pref |-> TRUE, on |-> FALSE, seen |-> FALSE, peers |-> {}]
  /\ wanted' = file'
  /\ commands' = commands + 1
  /\ UNCHANGED <<process, shell, stale, starts>>

Next ==
  \/ Start \/ Quit \/ ShowNotes
  \/ \E n \in Networks : Initialise(n) \/ \E p \in BOOLEAN : SaveSettings(n, p)
  \/ \E on \in BOOLEAN : Toggle(on)
  \/ \E d \in Devices : AddTrust(d) \/ RemoveTrust(d)
  \/ \E s \in Shells : SaveCommand(s) \/ \E op \in Ops, d \in Devices : LoadCommand(s, op, d)

Spec == Init /\ [][Next]_vars

-----------------------------------------------------------------------------
TypeOK ==
  /\ file \in Contents \cup {NoFile} /\ wanted \in Contents \cup {NoFile}
  /\ running \in BOOLEAN /\ stale \in BOOLEAN
  /\ object \in [Ids -> Objects] /\ table \in [Ids -> SUBSET Devices]
  /\ made \in 0 .. MaxSaves + 1
  /\ cfg \in Ids /\ handlerCfg \in Ids /\ receiverCfg \in Ids
  /\ shell \in [Shells -> [copy : Contents \cup {NoFile}, op : Ops \cup {"none"}, dev : Devices \cup {"none"}]]
  /\ commands \in 0 .. MaxCommands /\ starts \in 0 .. MaxStarts

\* The devices an object of the window's process lets trigger commands.
Permitted(o) == {d \in table[object[o].table] : object[o].on}

\* Trust granted or revoked in the window reaches the handlers at once, which
\* read another Config object once settings have been saved: the dictionaries
\* are shared by every copy.
TrustReachesHandlers ==
  running => table[object[handlerCfg].table] = table[object[cfg].table]

\* The file says what was last asked for, whoever asked: no save of a dialog, a
\* page or a command takes back another one's change, unless it wrote over a
\* change it had not read.
ChangesAreKept == ~stale => file = wanted

\* "Changes apply immediately": what the handlers permit is what the window's
\* switch and tables say.
ChangesApply == running => Permitted(handlerCfg) = Permitted(cfg)
=============================================================================
