------------------------ MODULE NetworkSwitchProofs ------------------------
(***************************************************************************)
(* NetworkSwitch.tla for any networks and any number of switches, events   *)
(* and drops: one connection, truthful failures, networks kept apart, and  *)
(* one timer for every typing indicator.                                   *)
(***************************************************************************)
EXTENDS NetworkSwitch, SequenceTheorems, TLAPS

USE BoundsAssumption DEF connection, indicators, shown, bounds, NotShown

Loops == {"off", "connecting", "up"}
Places == {"none", "started", "dialling", "waiting", "woken", "done"}
Workers == [at : Places, on : Clients]

\* The present client is a number, and a save makes the next one.
LEMMA ClientsType ==
  ASSUME current \in Clients
  PROVE  current \in Nat /\ 1 \in Clients /\ (current <= MaxSwitches => current + 1 \in Clients)
BY DEF Clients

\* What is queued are callbacks: the queue grows at its end and shrinks at its
\* head.
LEMMA QueueStep ==
  ASSUME NEW C, queue \in Seq(C), \A s \in Reports : [kind |-> s] \in C,
         \A c \in Clients, kind \in Kinds : loop[c] = "up" => [kind |-> kind, net |-> net[c]] \in C,
         [Next]_vars
  PROVE  queue' \in Seq(C)
<1>1. ASSUME UNCHANGED queue PROVE queue' \in Seq(C)
  BY <1>1
<1>2. ASSUME NEW e \in C, queue' = Append(queue, e) PROVE queue' \in Seq(C)
  BY <1>2, AppendProperties
<1>3. ASSUME NEW w \in Clients, Work(w) PROVE queue' \in Seq(C)
  BY <1>1, <1>2, <1>3 DEF Work, Read, Dial, Succeed, TimeOut, DialFails, ReportFailure, Reports
<1>4. ASSUME NEW c \in Clients, NEW kind \in Kinds, Receive(c, kind) PROVE queue' \in Seq(C)
  BY <1>2, <1>4 DEF Receive
<1>5. ASSUME RunCallback PROVE queue' \in Seq(C)
  BY <1>5, HeadTailProperties DEF RunCallback
<1>6. QED
  BY <1>1, <1>3, <1>4, <1>5 DEF Next, vars, Accept, Drop, Expire, Switch

\* Every step preserves TypeOK.
LEMMA TypeStep ==
  ASSUME TypeOK, [Next]_vars
  PROVE  TypeOK'
<1>1. queue' \in Seq(Callbacks)
  BY QueueStep DEF TypeOK, Callbacks, Reports
<1> DEFINE Threads == /\ net \in [Clients -> Networks] /\ current \in Clients
                      /\ loop \in [Clients -> Loops] /\ connected \in SUBSET Clients
                      /\ worker \in [Clients -> Workers]
           Window == /\ status \in Reports \cup {"connecting"}
                     /\ peers \in SUBSET Networks
                     /\ logged \in SUBSET (Networks \X Networks)
           Typing == /\ typing \in [Networks -> Nat] /\ made \in Nat
                     /\ timers \in SUBSET (Nat \X Networks)
           Counts == /\ mishaps \in SUBSET {"dialling", "report", "events", "unreported"}
                     /\ events \in 0 .. MaxEvents /\ drops \in 0 .. MaxDrops
<1>2. Threads /\ Window /\ Typing /\ Counts
  BY DEF TypeOK, Loops, Places, Workers
<1>3. ASSUME NEW w \in Clients, Work(w) PROVE Threads' /\ Window' /\ Typing' /\ Counts'
  <2>1. worker[w] \in Workers /\ \A at \in Places : [worker[w] EXCEPT !.at = at] \in Workers
    BY <1>2 DEF Workers
  <2>2. CASE Read(w)
    BY <1>2, <2>2 DEF Read, Workers, Places
  <2>3. CASE Dial(w)
    BY <1>2, <2>1, <2>3 DEF Dial, Workers, Places, Loops
  <2>4. CASE \E reported \in BOOLEAN : DialFails(w, reported)
    BY <1>2, <2>1, <2>4 DEF DialFails, Places
  <2>5. CASE Succeed(w)
    BY <1>2, <2>1, <2>5 DEF Succeed, Places
  <2>6. CASE TimeOut(w)
    BY <1>2, <2>1, <2>6 DEF TimeOut, TimedOut, Workers, Places, Loops
  <2>7. QED
    BY <1>3, <2>2, <2>3, <2>4, <2>5, <2>6 DEF Work
<1>4. ASSUME NEW c \in Clients, Accept(c) PROVE Threads' /\ Window' /\ Typing' /\ Counts'
  <2>1. PICK lost \in Displaced(c) :
          /\ loop' = [d \in Clients |-> IF d = c THEN "up" ELSE IF d \in lost THEN "connecting" ELSE loop[d]]
          /\ connected' = (connected \ lost) \cup {c}
    BY <1>4 DEF Accept
  <2>2. \A w \in Clients : [worker[w] EXCEPT !.at = "woken"] \in Workers
    BY <1>2 DEF Workers, Places
  <2>3. worker' \in [Clients -> Workers]
    BY <1>2, <1>4, <2>2 DEF Accept
  <2>4. QED
    BY <1>2, <1>4, <2>1, <2>3 DEF Accept, Loops
<1>5. ASSUME NEW c \in Clients, Drop(c) PROVE Threads' /\ Window' /\ Typing' /\ Counts'
  BY <1>2, <1>5 DEF Drop, Loops
<1>6. ASSUME NEW c \in Clients, NEW kind \in Kinds, Receive(c, kind) PROVE Threads' /\ Window' /\ Typing' /\ Counts'
  BY <1>2, <1>6 DEF Receive
<1>7. ASSUME RunCallback PROVE Threads' /\ Window' /\ Typing' /\ Counts'
  <2>1. PICK m \in Callbacks : m = Head(queue)
    BY <1>7, HeadTailProperties DEF RunCallback, TypeOK
  <2>2. m.kind \in Reports \/ (m.kind \in Kinds /\ m.net \in Networks)
    BY DEF Callbacks
  <2>3. Window'
    BY <1>2, <1>7, <2>1, <2>2
       DEF RunCallback, Handle, Report, HandleChat, HandlePresence, HandleTyping, Reports, Kinds
  <2>4. Typing'
    <3>1. CASE UNCHANGED indicators
      BY <1>2, <3>1
    <3>2. ASSUME NEW n \in Networks, ShowTyping(n) PROVE Typing'
      BY <1>2, <3>2 DEF ShowTyping, SourceRemoved
    <3>3. ASSUME NEW n \in Networks, ClearTyping(n) PROVE Typing'
      BY <1>2, <3>3 DEF ClearTyping, SourceRemoved
    <3>4. UNCHANGED indicators \/ \E n \in Networks : ShowTyping(n) \/ ClearTyping(n)
      BY <1>7, <2>1, <2>2
         DEF RunCallback, Handle, Report, HandleChat, HandlePresence, HandleTyping, Reports, Kinds
    <3>5. QED
      BY <3>1, <3>2, <3>3, <3>4
  <2>5. QED
    BY <1>2, <1>7, <2>3, <2>4 DEF RunCallback
<1>8. ASSUME NEW t \in timers, Expire(t) PROVE Threads' /\ Window' /\ Typing' /\ Counts'
  BY <1>2, <1>8 DEF Expire
<1>9. ASSUME NEW n \in Networks, Switch(n) PROVE Threads' /\ Window' /\ Typing' /\ Counts'
  <2>1. current + 1 \in Clients
    BY <1>2, <1>9, ClientsType DEF Switch
  <2>2. [at |-> "started", on |-> current + 1] \in Workers
    BY <2>1 DEF Workers, Places
  <2>3. Threads'
    BY <1>2, <1>9, <2>1, <2>2 DEF Switch, Disconnected, Loops
  <2>4. UnderWay \subseteq {"dialling", "report", "events"}
    BY DEF UnderWay
  <2>5. QED
    BY <1>2, <1>9, <2>3, <2>4 DEF Switch, NewDirectory
<1>10. ASSUME UNCHANGED vars PROVE Threads' /\ Window' /\ Typing' /\ Counts'
  BY <1>2, <1>10 DEF vars
<1>11. Threads' /\ Window' /\ Typing' /\ Counts'
  BY <1>3, <1>4, <1>5, <1>6, <1>7, <1>8, <1>9, <1>10 DEF Next
<1>12. QED
  BY <1>1, <1>11 DEF TypeOK, Loops, Places, Workers

\* The clients, threads, callbacks and the window have their types, whatever the
\* broker and the user do.
THEOREM TypeCorrect == Spec => []TypeOK
<1>1. Init => TypeOK
  <2> SUFFICES ASSUME Init PROVE TypeOK
    OBVIOUS
  <2>1. 1 \in Clients
    BY DEF Clients
  <2>2. QED
    BY <2>1, EmptySeq DEF Init, TypeOK, NoWorker, Clients
<1>2. QED
  BY <1>1, TypeStep, PTL DEF Spec

-----------------------------------------------------------------------------
\* What a switch finds under way, seen from what is not.
LEMMA NotUnderWay ==
  /\ "dialling" \notin UnderWay => \A w \in Clients : worker[w].at # "dialling"
  /\ "report" \notin UnderWay =>
       /\ \A w \in Clients : worker[w].at \in {"none", "done"}
       /\ \A i \in DOMAIN queue : queue[i].kind \notin Reports
  /\ "events" \notin UnderWay => \A i \in DOMAIN queue : queue[i].kind \notin Kinds
BY DEF UnderWay

\* While no settings were saved during a dial, only the present client runs a
\* loop thread, and only it is being dialled.
OnlyCurrent ==
  "dialling" \notin mishaps =>
    /\ \A c \in Clients : loop[c] # "off" => c = current
    /\ \A w \in Clients : worker[w].at = "dialling" => worker[w].on = current

\* Every step preserves OnlyCurrent.
LEMMA OnlyCurrentStep ==
  ASSUME TypeOK, OnlyCurrent, [Next]_vars
  PROVE  OnlyCurrent'
<1> SUFFICES ASSUME "dialling" \notin mishaps'
             PROVE  /\ \A c \in Clients : loop'[c] # "off" => c = current'
                    /\ \A w \in Clients : worker'[w].at = "dialling" => worker'[w].on = current'
  BY DEF OnlyCurrent
<1>1. "dialling" \notin mishaps
  BY DEF Next, vars, Work, Read, Dial, DialFails, Succeed, TimeOut, Accept, Drop, Receive,
         RunCallback, Expire, Switch
<1>2. /\ \A c \in Clients : loop[c] # "off" => c = current
      /\ \A w \in Clients : worker[w].at = "dialling" => worker[w].on = current
  BY <1>1 DEF OnlyCurrent
<1>3. /\ loop \in [Clients -> Loops] /\ worker \in [Clients -> Workers]
  BY DEF TypeOK, Loops, Places, Workers
<1>4. ASSUME NEW w \in Clients, Work(w)
      PROVE  /\ \A c \in Clients : loop'[c] # "off" => c = current'
             /\ \A v \in Clients : worker'[v].at = "dialling" => worker'[v].on = current'
  <2>1. CASE Read(w)
    BY <1>2, <1>3, <2>1 DEF Read
  <2>2. CASE Dial(w)
    BY <1>2, <1>3, <2>2 DEF Dial, Workers
  <2>3. CASE \E reported \in BOOLEAN : DialFails(w, reported)
    BY <1>2, <1>3, <2>3 DEF DialFails, Workers
  <2>4. CASE Succeed(w)
    BY <1>2, <1>3, <2>4 DEF Succeed, Workers
  <2>5. CASE TimeOut(w)
    BY <1>2, <1>3, <2>5 DEF TimeOut, TimedOut, Workers
  <2>6. QED
    BY <1>4, <2>1, <2>2, <2>3, <2>4, <2>5 DEF Work
<1>5. ASSUME NEW c \in Clients, Accept(c)
      PROVE  /\ \A d \in Clients : loop'[d] # "off" => d = current'
             /\ \A v \in Clients : worker'[v].at = "dialling" => worker'[v].on = current'
  <2>1. PICK lost \in Displaced(c) :
          loop' = [d \in Clients |-> IF d = c THEN "up" ELSE IF d \in lost THEN "connecting" ELSE loop[d]]
    BY <1>5 DEF Accept
  <2>2. \A d \in lost : loop[d] = "up"
    BY DEF Displaced
  <2>3. \A v \in Clients : worker'[v].at = "dialling" => worker'[v] = worker[v]
    BY <1>3, <1>5 DEF Accept, Workers
  <2>4. QED
    BY <1>2, <1>3, <1>5, <2>1, <2>2, <2>3 DEF Accept
<1>6. ASSUME NEW c \in Clients, Drop(c)
      PROVE  /\ \A d \in Clients : loop'[d] # "off" => d = current'
             /\ \A v \in Clients : worker'[v].at = "dialling" => worker'[v].on = current'
  BY <1>2, <1>3, <1>6 DEF Drop
<1>7. ASSUME NEW n \in Networks, Switch(n)
      PROVE  /\ \A d \in Clients : loop'[d] # "off" => d = current'
             /\ \A v \in Clients : worker'[v].at = "dialling" => worker'[v].on = current'
  <2>1. \A v \in Clients : worker[v].at # "dialling"
    BY <1>7, NotUnderWay DEF Switch
  <2>2. QED
    BY <1>2, <1>3, <1>7, <2>1 DEF Switch, Disconnected
<1>8. ASSUME UNCHANGED <<loop, worker, current>>
      PROVE  /\ \A d \in Clients : loop'[d] # "off" => d = current'
             /\ \A v \in Clients : worker'[v].at = "dialling" => worker'[v].on = current'
  BY <1>2, <1>8
<1>9. QED
  BY <1>4, <1>5, <1>6, <1>7, <1>8 DEF Next, vars, Receive, RunCallback, Expire

\* OnlyCurrent holds in every behaviour.
LEMMA OnlyCurrentAlways == Spec => [](TypeOK /\ OnlyCurrent)
<1>1. Init => OnlyCurrent
  BY DEF Init, OnlyCurrent, NoWorker
<1>2. QED
  BY <1>1, OnlyCurrentStep, TypeCorrect, PTL DEF Spec

\* gui.py's "one connection does everything" holds for any number of saves, none
\* of which met a worker inside paho's connect(): a client that was replaced
\* runs no loop thread.
THEOREM SingleConnection == Spec => []OneConnection
<1>1. TypeOK /\ OnlyCurrent => OneConnection
  BY DEF OnlyCurrent, OneConnection
<1>2. QED
  BY <1>1, OnlyCurrentAlways, PTL

-----------------------------------------------------------------------------
\* While nothing of an earlier client was under way at a save: callbacks, peers
\* and what is shown as typing belong to the present network.
OnePlace ==
  mishaps \cap {"dialling", "events"} = {} =>
    /\ \A i \in DOMAIN queue : queue[i].kind \in Kinds => queue[i].net = net[current]
    /\ peers \subseteq {net[current]} /\ Typists \subseteq {net[current]}
    /\ \A entry \in logged : entry[1] = entry[2]

\* Every step preserves OnePlace.
LEMMA OnePlaceStep ==
  ASSUME TypeOK, OnlyCurrent, OnePlace, [Next]_vars
  PROVE  OnePlace'
<1> DEFINE C == {m \in Callbacks : m.kind \in Kinds => m.net = net[current]}
           Kept == /\ peers \subseteq {net[current]} /\ Typists \subseteq {net[current]}
                   /\ \A entry \in logged : entry[1] = entry[2]
<1> SUFFICES ASSUME mishaps' \cap {"dialling", "events"} = {}
             PROVE  /\ \A i \in DOMAIN queue' : queue'[i].kind \in Kinds => queue'[i].net = net'[current']
                    /\ Kept'
  BY DEF OnePlace
<1>1. mishaps \cap {"dialling", "events"} = {}
  BY DEF Next, vars, Work, Read, Dial, DialFails, Succeed, TimeOut, Accept, Drop, Receive,
         RunCallback, Expire, Switch
<1>2. Kept /\ \A i \in DOMAIN queue : queue[i].kind \in Kinds => queue[i].net = net[current]
  BY <1>1 DEF OnePlace
<1>3. \A c \in Clients : loop[c] = "up" => c = current
  BY <1>1 DEF OnlyCurrent
<1>4. queue \in Seq(C)
  <2>1. \A i \in DOMAIN queue : queue[i] \in C
    BY <1>2 DEF TypeOK
  <2>2. QED
    BY <2>1 DEF TypeOK
<1>5. queue' \in Seq(C)
  <2>1. \A s \in Reports : [kind |-> s] \in C
    BY DEF Callbacks, Reports, Kinds
  <2>2. \A c \in Clients, kind \in Kinds : loop[c] = "up" => [kind |-> kind, net |-> net[c]] \in C
    BY <1>3 DEF Callbacks, TypeOK
  <2>3. QED
    BY <1>4, <2>1, <2>2, QueueStep
<1>6. ASSUME UNCHANGED <<net, current>>
      PROVE  \A i \in DOMAIN queue' : queue'[i].kind \in Kinds => queue'[i].net = net'[current']
  BY <1>5, <1>6
<1>7. CASE RunCallback
  <2>1. PICK m \in C : m = Head(queue)
    BY <1>4, <1>7, HeadTailProperties DEF RunCallback
  <2>2. Kept'
    BY <1>2, <1>7, <2>1
       DEF RunCallback, Handle, Report, HandleChat, HandlePresence, HandleTyping, ShowTyping,
           ClearTyping, Typists, TypeOK, Kinds, Reports
  <2>3. QED
    BY <1>6, <1>7, <2>2 DEF RunCallback
<1>8. ASSUME NEW n \in Networks, Switch(n)
      PROVE  /\ \A i \in DOMAIN queue' : queue'[i].kind \in Kinds => queue'[i].net = net'[current']
             /\ Kept'
  <2>1. \A i \in DOMAIN queue : queue[i].kind \notin Kinds
    BY <1>8, NotUnderWay DEF Switch
  <2>2. Kept'
    BY <1>2, <1>8 DEF Switch, NewDirectory, Typists
  <2>3. QED
    BY <1>8, <2>1, <2>2 DEF Switch
<1>9. ASSUME NEW t \in timers, Expire(t)
      PROVE  /\ \A i \in DOMAIN queue' : queue'[i].kind \in Kinds => queue'[i].net = net'[current']
             /\ Kept'
  BY <1>2, <1>6, <1>9 DEF Expire, Typists, TypeOK
<1>10. ASSUME UNCHANGED <<net, current, peers, typing, logged>>
       PROVE  /\ \A i \in DOMAIN queue' : queue'[i].kind \in Kinds => queue'[i].net = net'[current']
              /\ Kept'
  BY <1>2, <1>6, <1>10 DEF Typists
<1>11. QED
  BY <1>7, <1>8, <1>9, <1>10
     DEF Next, vars, Work, Read, Dial, DialFails, Succeed, TimeOut, Accept, Drop, Receive

\* Peers, typing and history of any number of networks are never mixed by a
\* handler, unless one was queued, or a worker was dialling, when the settings
\* were saved.
THEOREM NetworksApart == Spec => []NetworksStayApart
<1>1. Init => OnePlace
  BY DEF Init, OnePlace, Typists
<1>2. OnePlace => NetworksStayApart
  BY DEF OnePlace, NetworksStayApart
<1>3. QED
  BY <1>1, <1>2, OnlyCurrentAlways, OnePlaceStep, PTL DEF Spec

-----------------------------------------------------------------------------
\* While no outcome was pending at a save: the one worker that is not finished
\* is the present client's and works on it, a failure is shown or queued only
\* after it has finished without a connection, and clients to come run nothing.
Pending == \E i \in DOMAIN queue : queue[i].kind = "failed"

Outcome ==
  "report" \notin mishaps =>
    /\ \A w \in Clients : worker[w].at \notin {"none", "done"} => w = current
    /\ \A w \in Clients : worker[w].at \in {"dialling", "waiting", "woken"} => worker[w].on = current
    /\ worker[current].at \in {"started", "dialling"} => loop[current] = "off"
    /\ status = "failed" \/ Pending => worker[current].at = "done" /\ loop[current] = "off"
    /\ \A c \in Clients : c > current => loop[c] = "off"

\* Every step preserves Outcome.
LEMMA OutcomeStep ==
  ASSUME TypeOK, Outcome, [Next]_vars
  PROVE  Outcome'
<1> DEFINE O1 == \A w \in Clients : worker[w].at \notin {"none", "done"} => w = current
           O2 == \A w \in Clients : worker[w].at \in {"dialling", "waiting", "woken"} => worker[w].on = current
           O3 == worker[current].at \in {"started", "dialling"} => loop[current] = "off"
           O4 == status = "failed" \/ Pending => worker[current].at = "done" /\ loop[current] = "off"
           O5 == \A c \in Clients : c > current => loop[c] = "off"
<1> SUFFICES ASSUME "report" \notin mishaps'
             PROVE  O1' /\ O2' /\ O3' /\ O4' /\ O5'
  BY DEF Outcome
<1>1. "report" \notin mishaps
  BY DEF Next, vars, Work, Read, Dial, DialFails, Succeed, TimeOut, Accept, Drop, Receive,
         RunCallback, Expire, Switch
<1>2. O1 /\ O2 /\ O3 /\ O4 /\ O5
  BY <1>1 DEF Outcome
<1>3. /\ loop \in [Clients -> Loops] /\ worker \in [Clients -> Workers]
      /\ current \in Clients /\ queue \in Seq(Callbacks)
  BY DEF TypeOK, Loops, Places, Workers
<1>4. current \in Nat
  BY <1>3 DEF Clients
<1>5. ASSUME NEW w \in Clients, Work(w) PROVE O1' /\ O2' /\ O3' /\ O4' /\ O5'
  <2>1. w = current /\ ~(status = "failed" \/ Pending)
    BY <1>2, <1>3, <1>5 DEF Work, Read, Dial, DialFails, Succeed, TimeOut
  <2>2. CASE Read(w)
    BY <1>2, <1>3, <1>4, <2>1, <2>2 DEF Read, Pending
  <2>3. CASE Dial(w)
    <3>1. worker[w].on = current
      BY <1>2, <2>3 DEF Dial
    <3>2. O1' /\ O2' /\ O3' /\ O5'
      BY <1>2, <1>3, <1>4, <2>1, <2>3, <3>1 DEF Dial, Workers
    <3>3. O4'
      BY <2>1, <2>3 DEF Dial, Pending
    <3>4. QED
      BY <3>2, <3>3
  <2>4. CASE \E reported \in BOOLEAN : DialFails(w, reported)
    BY <1>2, <1>3, <1>4, <2>1, <2>4 DEF DialFails, Workers
  <2>5. CASE Succeed(w)
    <3>1. O1' /\ O2' /\ O3' /\ O5'
      BY <1>2, <1>3, <1>4, <2>1, <2>5 DEF Succeed, Workers
    <3>2. ~Pending'
      BY <1>3, <2>1, <2>5, AppendProperties DEF Succeed, Pending, Callbacks, Reports
    <3>3. QED
      BY <2>1, <2>5, <3>1, <3>2 DEF Succeed
  <2>6. CASE TimeOut(w)
    <3>1. worker[w].on = current
      BY <1>2, <2>6 DEF TimeOut
    <3>2. QED
      BY <1>2, <1>3, <1>4, <2>1, <2>6, <3>1 DEF TimeOut, TimedOut, Workers
  <2>7. QED
    BY <1>5, <2>2, <2>3, <2>4, <2>5, <2>6 DEF Work
<1>6. ASSUME NEW c \in Clients, Accept(c) PROVE O1' /\ O2' /\ O3' /\ O4' /\ O5'
  <2>1. PICK lost \in Displaced(c) :
          loop' = [d \in Clients |-> IF d = c THEN "up" ELSE IF d \in lost THEN "connecting" ELSE loop[d]]
    BY <1>6 DEF Accept
  <2>2. \A d \in lost : loop[d] = "up"
    BY DEF Displaced
  <2>3. \A d \in Clients : loop[d] = "off" => loop'[d] = "off"
    BY <1>6, <2>1, <2>2 DEF Accept
  <2>4. \A v \in Clients :
          worker'[v] = worker[v] \/ (worker[v].at = "waiting" /\ worker'[v].at = "woken" /\ worker'[v].on = worker[v].on)
    BY <1>3, <1>6 DEF Accept, Workers
  <2>5. UNCHANGED <<current, status, queue>>
    BY <1>6 DEF Accept
  <2>6. O1' /\ O2' /\ O3' /\ O5'
    <3>1. O1' /\ O2'
      BY <1>2, <2>4, <2>5
    <3>2. O3'
      BY <1>2, <1>3, <2>3, <2>4, <2>5
    <3>3. O5'
      BY <1>2, <2>3, <2>5
    <3>4. QED
      BY <3>1, <3>2, <3>3
  <2>7. O4'
    BY <1>2, <1>3, <2>3, <2>4, <2>5 DEF Pending
  <2>8. QED
    BY <2>6, <2>7
<1>7. ASSUME NEW c \in Clients, Drop(c) PROVE O1' /\ O2' /\ O3' /\ O4' /\ O5'
  BY <1>2, <1>3, <1>4, <1>7 DEF Drop, Pending
<1>8. ASSUME UNCHANGED <<current, loop, worker>>, status' = "failed" \/ Pending' => status = "failed" \/ Pending
      PROVE  O1' /\ O2' /\ O3' /\ O4' /\ O5'
  BY <1>2, <1>8
<1>9. ASSUME NEW c \in Clients, NEW kind \in Kinds, Receive(c, kind) PROVE O1' /\ O2' /\ O3' /\ O4' /\ O5'
  <2>1. Pending' => Pending
    BY <1>3, <1>9, AppendProperties DEF Receive, Pending, Callbacks, Kinds
  <2>2. QED
    BY <1>8, <1>9, <2>1 DEF Receive
<1>10. ASSUME RunCallback PROVE O1' /\ O2' /\ O3' /\ O4' /\ O5'
  <2>1. \A i \in DOMAIN queue' : i + 1 \in DOMAIN queue /\ queue'[i] = queue[i + 1]
    BY <1>3, <1>10, HeadTailProperties DEF RunCallback
  <2>2. Head(queue) = queue[1] /\ 1 \in DOMAIN queue
    BY <1>3, <1>10 DEF RunCallback
  <2>3. status' = "failed" => status = "failed" \/ Pending
    BY <1>10, <2>2 DEF RunCallback, Handle, Report, HandleChat, HandlePresence, HandleTyping, Pending
  <2>4. QED
    BY <1>8, <1>10, <2>1, <2>3 DEF RunCallback, Pending
<1>11. ASSUME NEW t \in timers, Expire(t) PROVE O1' /\ O2' /\ O3' /\ O4' /\ O5'
  BY <1>8, <1>11 DEF Expire, Pending
<1>12. ASSUME NEW n \in Networks, Switch(n) PROVE O1' /\ O2' /\ O3' /\ O4' /\ O5'
  <2>1. /\ \A v \in Clients : worker[v].at \in {"none", "done"}
        /\ \A i \in DOMAIN queue : queue[i].kind \notin Reports
    BY <1>12, NotUnderWay DEF Switch
  <2>2. current + 1 \in Clients
    BY <1>3, <1>12, ClientsType DEF Switch
  <2>3. O1' /\ O2' /\ O3' /\ O5'
    <3>1. current' = current + 1 /\ loop' = [loop EXCEPT ![current] = "off"]
      BY <1>12 DEF Switch, Disconnected
    <3>2. worker'[current'].at = "started"
          /\ \A v \in Clients : v # current' => worker'[v].at \in {"none", "done"}
      BY <1>3, <1>12, <2>1, <2>2, <3>1 DEF Switch
    <3>3. O1' /\ O2'
      BY <3>2
    <3>4. \A c \in Clients : c > current => loop'[c] = "off"
      BY <1>2, <1>3, <1>4, <3>1
    <3>5. O3' /\ O5'
      BY <1>4, <2>2, <3>1, <3>4 DEF Clients
    <3>6. QED
      BY <3>3, <3>5
  <2>4. O4'
    BY <1>12, <2>1 DEF Switch, Pending, Reports
  <2>5. QED
    BY <2>3, <2>4
<1>13. ASSUME UNCHANGED vars PROVE O1' /\ O2' /\ O3' /\ O4' /\ O5'
  BY <1>8, <1>13 DEF vars, Pending
<1>14. QED
  BY <1>5, <1>6, <1>7, <1>9, <1>10, <1>11, <1>12, <1>13 DEF Next

\* "Not connected" is shown, for any number of saves and drops, only while the
\* present client has no connection and tries none, unless an outcome was
\* pending at a save.
THEOREM TruthfulFailure == Spec => []FailureIsTrue
<1>1. Init => Outcome
  BY BoundsAssumption DEF Init, Outcome, Pending, NoWorker, Clients
<1>2. Outcome => FailureIsTrue
  BY DEF Outcome, FailureIsTrue
<1>3. QED
  BY <1>1, <1>2, OutcomeStep, TypeCorrect, PTL DEF Spec

-----------------------------------------------------------------------------
\* The timers that run are those noted, and each is noted for one peer: a
\* source that is removed for a peer is not another's.
Noted ==
  /\ OneTimerEach
  /\ \A n \in Typists : typing[n] <= made
  /\ \A n, m \in Typists : typing[n] = typing[m] => n = m

\* _clear_typing ends one indicator and its timer.
LEMMA ClearTypingNoted ==
  ASSUME TypeOK, Noted, NEW n \in Networks, ClearTyping(n)
  PROVE  Noted'
<1>1. \A m \in Networks : typing'[m] = IF m = n THEN 0 ELSE typing[m]
  BY DEF ClearTyping, TypeOK
<1>2. Typists' = Typists \ {n}
  BY <1>1 DEF Typists
<1>3. timers' = timers \ {<<typing[n], n>>}
  <2>1. CASE n \in Typists
    BY <2>1 DEF ClearTyping, SourceRemoved, Noted, OneTimerEach
  <2>2. CASE n \notin Typists
    BY <2>2 DEF ClearTyping, Noted, OneTimerEach
  <2>3. QED
    BY <2>1, <2>2
<1>4. OneTimerEach'
  BY <1>1, <1>2, <1>3 DEF Noted, OneTimerEach, Typists
<1>5. QED
  BY <1>1, <1>2, <1>4 DEF Noted, ClearTyping, Typists

\* "typing" replaces the timer of one peer by a new one.
LEMMA ShowTypingNoted ==
  ASSUME TypeOK, Noted, NEW n \in Networks, ShowTyping(n)
  PROVE  Noted'
<1>1. /\ \A m \in Networks : typing'[m] = IF m = n THEN made + 1 ELSE typing[m]
      /\ made' = made + 1 /\ made \in Nat
      /\ \A m \in Networks : typing[m] \in Nat
  BY DEF ShowTyping, TypeOK
<1>2. Typists' = Typists \cup {n}
  BY <1>1 DEF Typists
<1>3. timers' = (timers \ {<<typing[n], n>>}) \cup {<<made + 1, n>>}
  <2>1. CASE n \in Typists
    BY <2>1 DEF ShowTyping, SourceRemoved, Noted, OneTimerEach
  <2>2. CASE n \notin Typists
    BY <2>2 DEF ShowTyping, Noted, OneTimerEach
  <2>3. QED
    BY <2>1, <2>2
<1>4. OneTimerEach'
  BY <1>1, <1>2, <1>3 DEF Noted, OneTimerEach, Typists
<1>5. \A m \in Typists : typing[m] < made + 1
  BY <1>1 DEF Noted, Typists
<1>6. QED
  BY <1>1, <1>2, <1>4, <1>5 DEF Noted, Typists

\* Every step preserves Noted.
LEMMA NotedStep ==
  ASSUME TypeOK, Noted, [Next]_vars
  PROVE  Noted'
<1>1. ASSUME UNCHANGED indicators PROVE Noted'
  BY <1>1 DEF Noted, OneTimerEach, Typists
<1>2. CASE RunCallback
  <2>1. PICK m \in Callbacks : m = Head(queue)
    BY <1>2, HeadTailProperties DEF RunCallback, TypeOK
  <2>2. CASE m.kind \in Reports \/ m.kind = "presence"
    BY <1>1, <1>2, <2>1, <2>2
       DEF RunCallback, Handle, Report, HandlePresence, Reports
  <2>3. CASE m.kind \in {"chat", "typing", "stopped"}
    <3>1. m.net \in Networks
      BY <2>3 DEF Callbacks, Reports
    <3>2. ShowTyping(m.net) \/ ClearTyping(m.net)
      BY <1>2, <2>1, <2>3 DEF RunCallback, Handle, HandleChat, HandleTyping, Reports
    <3>3. QED
      BY <3>1, <3>2, ShowTypingNoted, ClearTypingNoted
  <2>4. QED
    BY <2>2, <2>3 DEF Callbacks, Kinds
<1>3. ASSUME NEW t \in timers, Expire(t) PROVE Noted'
  <2>1. PICK n \in Typists : t = <<typing[n], n>>
    BY DEF Noted, OneTimerEach
  <2>2. \A m \in Networks : typing'[m] = IF m = n THEN 0 ELSE typing[m]
    BY <1>3, <2>1 DEF Expire, TypeOK
  <2>3. Typists' = Typists \ {n}
    BY <2>2 DEF Typists
  <2>4. QED
    BY <1>3, <2>1, <2>2, <2>3 DEF Expire, Noted, OneTimerEach, Typists
<1>4. ASSUME NEW n \in Networks, Switch(n) PROVE Noted'
  <2>1. Typists' = {}
    BY <1>4 DEF Switch, Typists
  <2>2. timers' = {}
    BY <1>4 DEF Switch, Noted, OneTimerEach, Typists
  <2>3. QED
    BY <2>1, <2>2 DEF Noted, OneTimerEach
<1>5. QED
  BY <1>1, <1>2, <1>3, <1>4
     DEF Next, vars, Work, Read, Dial, DialFails, Succeed, TimeOut, Accept, Drop, Receive

\* For any number of "typing" events, replacements, messages and saves: whoever
\* is shown as typing has one timer running, the one that was made last for the
\* peer, and no other runs.
THEOREM IndicatorsAreTimed == Spec => []OneTimerEach
<1>1. Init => Noted
  BY DEF Init, Noted, OneTimerEach, Typists
<1>2. Noted => OneTimerEach
  BY DEF Noted
<1>3. QED
  BY <1>1, <1>2, NotedStep, TypeCorrect, PTL DEF Spec
=============================================================================
