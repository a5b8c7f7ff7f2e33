-------------------------- MODULE NetworkSwitch --------------------------
(***************************************************************************)
(* gui.py and mqttclient.py: the window's connection and what settings     *)
(* that need a new one do to it.  Every save makes a new RelayClient and   *)
(* starts a worker thread that connects it; paho's loop thread of a client *)
(* queues callbacks in the main loop, which runs them in order, with the   *)
(* window's present configuration.                                         *)
(*                                                                         *)
(* A message is abstracted to its kind and the network it was sent in; a   *)
(* network has one other peer.  `mishaps` only records what happened, for  *)
(* the properties to name.                                                 *)
(***************************************************************************)
EXTENDS Naturals, Sequences, SequencesExt

CONSTANTS
  Networks,       \* network name, passphrase, broker and nickname as one
  MaxSwitches,    \* bound: saves that need a new connection
  MaxEvents,      \* bound: messages received in all
  MaxDrops        \* bound: connections the network drops

ASSUME BoundsAssumption == MaxSwitches \in Nat /\ MaxEvents \in Nat /\ MaxDrops \in Nat

Clients == 1 .. MaxSwitches + 1

VARIABLES
  net,            \* client -> the network it was made for (client.cfg)
  current,        \* self.client: the clients made so far are 1 .. current
  loop,           \* client -> "off", "connecting" or "up": paho's loop thread
  connected,      \* clients whose connected Event is set
  worker,         \* _connect_worker threads: where, and the client they read
  queue,          \* callbacks queued with GLib.idle_add
  status,         \* _connection_state
  peers,          \* networks whose peer the directory lists
  typing,         \* _typing_peers: network -> the timer noted for its peer, or NotShown
  timers,         \* <<timer, network>>: GLib sources that will call _on_typing_expired
  made,           \* timers made so far, which is the number of the last one
  logged,         \* <<network a message was sent in, network it is kept under>>
  mishaps, events, drops

connection == <<loop, connected, worker>>
indicators == <<typing, timers, made>>
shown == <<status, peers, indicators, logged>>
bounds == <<events, drops>>
vars == <<net, current, connection, queue, shown, mishaps, bounds>>

Reports == {"connected", "failed"}
Kinds == {"chat", "presence", "typing", "stopped"}
Callbacks == [kind : Kinds, net : Networks] \cup [kind : Reports]
NoWorker == [at |-> "none", on |-> 1]
NotShown == 0                     \* no timer has this number
Typists == {n \in Networks : typing[n] # NotShown}

Init ==
  /\ \E n \in Networks : net = [c \in Clients |-> n]
  /\ current = 1
  /\ loop = [c \in Clients |-> "off"]
  /\ connected = {}
  /\ worker = [c \in Clients |-> IF c = 1 THEN [at |-> "started", on |-> 1] ELSE NoWorker]
  /\ queue = <<>>
  /\ status = "connecting"
  /\ peers = {} /\ logged = {}
  /\ typing = [n \in Networks |-> NotShown] /\ timers = {} /\ made = 0
  /\ mishaps = {} /\ events = 0 /\ drops = 0

-----------------------------------------------------------------------------
(* The worker thread of a save: RelayClient.connect().                     *)

\* The worker reads self.client when it runs, not when it was started.
Read(w) ==
  /\ worker[w].at = "started"
  /\ worker' = [worker EXCEPT ![w] = [at |-> "dialling", on |-> current]]
  /\ UNCHANGED <<net, current, loop, connected, queue, shown, mishaps, bounds>>

\* The broker's host answers: loop_start(), then connected.wait().
Dial(w) ==
  LET c == worker[w].on IN
  /\ worker[w].at = "dialling"
  /\ loop' = [loop EXCEPT ![c] = "connecting"]
  /\ worker' = [worker EXCEPT ![w].at = IF c \in connected THEN "woken" ELSE "waiting"]
  /\ UNCHANGED <<net, current, connected, queue, shown, mishaps, bounds>>

\* connect() raises: a ConnectionError is reported, any other OSError (a name
\* that does not resolve, a host that never answers, no route, a TLS error) ends
\* the thread without a word.
DialFails(w, reported) ==
  /\ worker[w].at = "dialling"
  /\ worker' = [worker EXCEPT ![w].at = "done"]
  /\ queue' = IF reported THEN Append(queue, [kind |-> "failed"]) ELSE queue
  /\ mishaps' = IF reported THEN mishaps ELSE mishaps \cup {"unreported"}
  /\ UNCHANGED <<net, current, loop, connected, shown, bounds>>

\* wait() returned because the Event was set: _on_connected is queued.
Succeed(w) ==
  /\ worker[w].at = "woken"
  /\ worker' = [worker EXCEPT ![w].at = "done"]
  /\ queue' = Append(queue, [kind |-> "connected"])
  /\ UNCHANGED <<net, current, loop, connected, shown, mishaps, bounds>>

TimedOutStillTrying(c) == loop

TimedOut(c) == [loop EXCEPT ![c] = "off"]

FailSilently == queue

ReportFailure == Append(queue, [kind |-> "failed"])

\* Ten seconds without a connection: loop_stop(), _on_connect_failed is queued.
TimeOut(w) ==
  /\ worker[w].at = "waiting"
  /\ loop' = TimedOut(worker[w].on)
  /\ worker' = [worker EXCEPT ![w].at = "done"]
  /\ queue' = ReportFailure
  /\ UNCHANGED <<net, current, connected, shown, mishaps, bounds>>

-----------------------------------------------------------------------------
(* paho's loop threads.                                                    *)

\* Clients whose connection a broker lets go of when c connects to it: it knows
\* a device by its id.  A client of another broker is not among them.
Displaced(c) == {{}, {d \in Clients \ {c} : loop[d] = "up"}}

\* _on_connect, and _on_disconnect of a displaced client, whose loop tries again.
Accept(c) ==
  /\ loop[c] = "connecting"
  /\ \E lost \in Displaced(c) :
       /\ loop' = [d \in Clients |-> IF d = c THEN "up" ELSE IF d \in lost THEN "connecting" ELSE loop[d]]
       /\ connected' = (connected \ lost) \cup {c}
  /\ worker' = [w \in Clients |->
       IF worker[w].at = "waiting" /\ worker[w].on = c THEN [worker[w] EXCEPT !.at = "woken"] ELSE worker[w]]
  /\ UNCHANGED <<net, current, queue, shown, mishaps, bounds>>

\* _on_disconnect; the loop reconnects by itself.
Drop(c) ==
  /\ loop[c] = "up" /\ drops < MaxDrops
  /\ loop' = [loop EXCEPT ![c] = "connecting"]
  /\ connected' = connected \ {c}
  /\ drops' = drops + 1
  /\ UNCHANGED <<net, current, worker, queue, shown, mishaps, events>>

\* _on_message: the wrapper made by _threaded queues the handler.
Receive(c, kind) ==
  /\ loop[c] = "up" /\ events < MaxEvents
  /\ queue' = Append(queue, [kind |-> kind, net |-> net[c]])
  /\ events' = events + 1
  /\ UNCHANGED <<net, current, connection, shown, mishaps, drops>>

-----------------------------------------------------------------------------
(* The main loop.                                                          *)

SourcesKept(timer) == timers

\* GLib.source_remove
SourceRemoved(timer) == {t \in timers : t[1] # timer}

\* _clear_typing: the peer is no longer listed and its timer is removed.
ClearTyping(n) ==
  /\ typing' = [typing EXCEPT ![n] = NotShown]
  /\ timers' = IF n \in Typists THEN SourceRemoved(typing[n]) ELSE timers
  /\ UNCHANGED made

\* "typing": a new timer takes the place of the one noted, if there is one.
ShowTyping(n) ==
  /\ made' = made + 1
  /\ typing' = [typing EXCEPT ![n] = made + 1]
  /\ timers' = {<<made + 1, n>>} \cup IF n \in Typists THEN SourceRemoved(typing[n]) ELSE timers

\* _handle_chat and _remember: kept under the name in the present self.cfg;
\* who sent a message has stopped typing.
HandleChat(n) ==
  /\ logged' = logged \cup {<<n, net[current]>>}
  /\ ClearTyping(n)
  /\ UNCHANGED <<status, peers>>

HandlePresence(n) ==
  /\ peers' = peers \cup {n}
  /\ UNCHANGED <<status, indicators, logged>>

HandleTyping(n, on) ==
  /\ IF on THEN ShowTyping(n) ELSE ClearTyping(n)
  /\ UNCHANGED <<status, peers, logged>>

\* _on_connected, _on_connect_failed
Report(s) == status' = s /\ UNCHANGED <<peers, indicators, logged>>

Handle(m) ==
  \/ m.kind \in Reports /\ Report(m.kind)
  \/ m.kind = "chat" /\ HandleChat(m.net)
  \/ m.kind = "presence" /\ HandlePresence(m.net)
  \/ m.kind \in {"typing", "stopped"} /\ HandleTyping(m.net, m.kind = "typing")

\* One iteration of the main loop: the oldest callback.
RunCallback ==
  /\ queue # <<>>
  /\ Handle(Head(queue))
  /\ queue' = Tail(queue)
  /\ UNCHANGED <<net, current, connection, mishaps, bounds>>

\* _on_typing_expired, six seconds after its timer was made: whatever is listed
\* for the device is taken out, and the source ends.
Expire(t) ==
  /\ t \in timers
  /\ typing' = [typing EXCEPT ![t[2]] = NotShown]
  /\ timers' = timers \ {t}
  /\ UNCHANGED <<net, current, connection, queue, status, peers, made, logged, mishaps, bounds>>

\* What is under way when the settings are saved.
UnderWay ==
  {"dialling" : w \in {v \in Clients : worker[v].at = "dialling"}}
  \cup {"report" : w \in {v \in Clients : worker[v].at \notin {"none", "done"}}}
  \cup {"report" : i \in {j \in DOMAIN queue : queue[j].kind \in Reports}}
  \cup {"events" : i \in {j \in DOMAIN queue : queue[j].kind \in Kinds}}

LeftRunning(c) == loop

\* client.disconnect(): loop_stop() joins the loop thread, if there is one.
Disconnected(c) == [loop EXCEPT ![c] = "off"]

SamePeers == peers

\* self.peers = PeerDirectory()
NewDirectory == {}

\* _apply_new_config: the old client is disconnected; client, directory, receiver
\* and handlers are made anew, the typing timers removed, and a worker is started
\* for the new client.  Bubbles, reactions, unread ids and the receipt queue are
\* kept by the code and are not in this module.
Switch(n) ==
  /\ current <= MaxSwitches
  /\ loop' = Disconnected(current)
  /\ connected' = connected \ {current}
  /\ current' = current + 1
  /\ net' = [net EXCEPT ![current + 1] = n]
  /\ worker' = [worker EXCEPT ![current + 1] = [at |-> "started", on |-> current + 1]]
  /\ status' = "connecting"
  /\ peers' = NewDirectory
  /\ typing' = [m \in Networks |-> NotShown]
  /\ timers' = {t \in timers : \A m \in Networks : typing[m] # t[1]}
  /\ mishaps' = mishaps \cup UnderWay
  /\ UNCHANGED <<queue, made, logged, bounds>>

Work(w) ==
  \/ Read(w) \/ Dial(w) \/ Succeed(w) \/ TimeOut(w)
  \/ \E reported \in BOOLEAN : DialFails(w, reported)

Next ==
  \/ \E w \in Clients : Work(w)
  \/ \E c \in Clients : Accept(c) \/ Drop(c) \/ \E kind \in Kinds : Receive(c, kind)
  \/ RunCallback
  \/ \E t \in timers : Expire(t)
  \/ \E n \in Networks : Switch(n)

Spec == Init /\ [][Next]_vars

\* Threads get to run and waits end; neither the broker nor the user has to do
\* anything.
Fairness ==
  /\ \A w \in Clients : WF_vars(Work(w))
  /\ WF_vars(RunCallback)

FairSpec == Spec /\ Fairness

-----------------------------------------------------------------------------
TypeOK ==
  /\ net \in [Clients -> Networks]
  /\ current \in Clients
  /\ loop \in [Clients -> {"off", "connecting", "up"}]
  /\ connected \in SUBSET Clients
  /\ worker \in [Clients -> [at : {"none", "started", "dialling", "waiting", "woken", "done"}, on : Clients]]
  /\ queue \in Seq(Callbacks)
  /\ status \in Reports \cup {"connecting"}
  /\ peers \in SUBSET Networks
  /\ typing \in [Networks -> Nat] /\ timers \in SUBSET (Nat \X Networks) /\ made \in Nat
  /\ logged \in SUBSET (Networks \X Networks)
  /\ mishaps \in SUBSET {"dialling", "report", "events", "unreported"}
  /\ events \in 0 .. MaxEvents /\ drops \in 0 .. MaxDrops

\* "One connection does everything": no two clients of the window keep a
\* connection under the device's id, as long as no settings were saved while a
\* worker was inside the blocking connect() of paho, which disconnect() cannot
\* reach.
OneConnection ==
  "dialling" \notin mishaps =>
    \A c, d \in Clients : loop[c] # "off" /\ loop[d] # "off" => c = d

\* A window that says "Not connected" has no connection and tries none, unless
\* settings were saved before the last outcome was shown: the banner is not
\* revealed by the failure of a client that has been replaced.
FailureIsTrue ==
  "report" \notin mishaps => (status = "failed" => loop[current] = "off")

\* Nothing sent in one network is listed as a peer, shown as typing or kept in
\* history as another's, unless a handler was queued, or a client that should be
\* gone came up, when the settings were saved (gui.py:3830, 3832).  What the
\* window already shows of the old network, its bubbles and what belongs to them,
\* stays through a save and is not claimed to be apart.
NetworksStayApart ==
  mishaps \cap {"dialling", "events"} = {} =>
    /\ peers \subseteq {net[current]} /\ Typists \subseteq {net[current]}
    /\ \A entry \in logged : entry[1] = entry[2]

\* Every attempt to connect is decided in the window, however often the settings
\* are saved and although the broker may never accept the connection.  Excepted
\* is a dial that ends in an OSError other than ConnectionError, which nothing
\* catches (gui.py:1207): it leaves the window at "Connecting".
StatusSettles ==
  status = "connecting" ~> status # "connecting" \/ "unreported" \in mishaps

\* Whoever is shown as typing has a timer running that will end it, the one made
\* for the last "typing"; and no other timer runs, which would cut a later
\* indicator short: through replacements, messages, "stopped", expiry and saves
\* (gui.py:1902-1922, 3832).  "stopped" is sent once, with QoS 0, so that an
\* indicator without its timer could stay for ever.
OneTimerEach == timers = {<<typing[n], n>> : n \in Typists}
=============================================================================
