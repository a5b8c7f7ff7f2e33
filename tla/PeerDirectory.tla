-------------------------- MODULE PeerDirectory --------------------------
(***************************************************************************)
(* presence.py: the list of peers, fed by presence signals on one thread   *)
(* (paho's, or GTK's main loop) and emptied by debounce timers, each on a  *)
(* thread of its own.  A presence payload is abstracted to its existence.  *)
(*                                                                         *)
(* threading.Timer.cancel() only stops a timer that is still waiting: one  *)
(* whose interval is over runs _finalize_removal whatever happens next,    *)
(* and may be blocked on the directory's lock while update() holds it.     *)
(***************************************************************************)
CONSTANTS
  Devices,      \* the other devices of the network
  Timers,       \* identities of timer threads: bounds how many live at once
  NoDevice, NoTimer,
  Timings       \* TRUE: a timer that has fired ends before the next signal
                \* about its device is handled (a timing assumption);
                \* FALSE: any interleaving the code allows

ASSUME NoDeviceAssumption == NoDevice \notin Devices
ASSUME NoTimerAssumption == NoTimer \notin Timers
ASSUME TimingsAssumption == Timings \subseteq BOOLEAN

VARIABLES
  prompt,       \* which of the Timings this behaviour has
  listed,       \* keys of _peers
  pending,      \* _pending_removal: device -> its registered timer
  timer,        \* the timer threads
  printing,     \* device the signal thread is about to announce as online
  online,       \* devices whose last signal handled carried data
  shown         \* last line printed about a device: TRUE for "is online"

vars == <<prompt, listed, pending, timer, printing, online, shown>>

Free == [phase |-> "free", dev |-> NoDevice]

Init ==
  /\ prompt \in Timings
  /\ listed = {}
  /\ pending = [d \in Devices |-> NoTimer]
  /\ timer = [t \in Timers |-> Free]
  /\ printing = NoDevice
  /\ online = {}
  /\ shown = [d \in Devices |-> FALSE]

CancelledNever(t) == timer

\* Timer.cancel(): no effect on a timer that is past its wait.
Cancelled(t) ==
  [u \in Timers |-> IF u = t /\ timer[u].phase = "waiting" THEN Free ELSE timer[u]]

RegisteredForever(d) == pending

\* _pending_removal.pop(d): whatever timer it is that is registered.
Unregistered(d) == [pending EXCEPT ![d] = NoTimer]

\* The timing assumption, off unless prompt: no timer of d is between the end
\* of its wait and the end of its thread.
Settled(d) ==
  prompt => \A t \in Timers : timer[t].dev = d => timer[t].phase = "waiting"

-----------------------------------------------------------------------------
AnnounceNobody(d) == NoDevice

\* `changed`: the caller announces a device that was not listed.
Announce(d) == IF d \in listed THEN NoDevice ELSE d

\* update(d, data): lists the device and forgets a registered removal.  The
\* caller prints "is online" after the lock is released.
UpdateOnline(d) ==
  /\ printing = NoDevice
  /\ Settled(d)
  /\ timer' = Cancelled(pending[d])
  /\ pending' = Unregistered(d)
  /\ online' = online \cup {d}
  /\ listed' = listed \cup {d}
  /\ printing' = Announce(d)
  /\ UNCHANGED <<prompt, shown>>

\* update(d, None) of a device already gone: the early return.
UpdateGone(d) ==
  /\ printing = NoDevice
  /\ Settled(d)
  /\ d \notin listed
  /\ online' = online \ {d}
  /\ timer' = Cancelled(pending[d])
  /\ UNCHANGED <<prompt, listed, pending, printing, shown>>

DebounceOnce(d, t) ==
  IF pending[d] # NoTimer
    THEN timer' = Cancelled(pending[d]) /\ pending' = Unregistered(d)
    ELSE /\ timer' = [timer EXCEPT ![t] = [phase |-> "waiting", dev |-> d]]
         /\ pending' = [pending EXCEPT ![d] = t]

\* A new timer takes the place of the registered one, which is cancelled.
Debounce(d, t) ==
  /\ timer' = [Cancelled(pending[d]) EXCEPT ![t] = [phase |-> "waiting", dev |-> d]]
  /\ pending' = [pending EXCEPT ![d] = t]

\* update(d, None) of a listed device.
UpdateOffline(d, t) ==
  /\ printing = NoDevice
  /\ Settled(d)
  /\ d \in listed
  /\ timer[t] = Free
  /\ online' = online \ {d}
  /\ Debounce(d, t)
  /\ UNCHANGED <<prompt, listed, printing, shown>>

\* on_presence prints "* nick is online", after update() has returned.
PrintOnline ==
  /\ printing # NoDevice
  /\ shown' = [shown EXCEPT ![printing] = TRUE]
  /\ printing' = NoDevice
  /\ UNCHANGED <<prompt, listed, pending, timer, online>>

\* DEBOUNCE_SECONDS are over and the timer was not cancelled: its thread now
\* wants the lock.
TimerFires(t) ==
  /\ timer[t].phase = "waiting"
  /\ timer' = [timer EXCEPT ![t].phase = "fired"]
  /\ UNCHANGED <<prompt, listed, pending, printing, online, shown>>

\* _finalize_removal under the lock: pops whatever is registered and listed.
FinalizeRemoval(t) ==
  LET d == timer[t].dev IN
  /\ timer[t].phase = "fired"
  /\ pending' = Unregistered(d)
  /\ listed' = listed \ {d}
  /\ timer' = [timer EXCEPT ![t] = IF d \in listed THEN [@ EXCEPT !.phase = "callback"] ELSE Free]
  /\ UNCHANGED <<prompt, printing, online, shown>>

\* on_removed prints "* nick went offline", after the lock is released.
OnRemoved(t) ==
  /\ timer[t].phase = "callback"
  /\ shown' = [shown EXCEPT ![timer[t].dev] = FALSE]
  /\ timer' = [timer EXCEPT ![t] = Free]
  /\ UNCHANGED <<prompt, listed, pending, printing, online>>

Update(d) == UpdateOnline(d) \/ UpdateGone(d) \/ \E t \in Timers : UpdateOffline(d, t)

TimerStep(t) == TimerFires(t) \/ FinalizeRemoval(t) \/ OnRemoved(t)

Next ==
  \/ \E d \in Devices : Update(d)
  \/ PrintOnline
  \/ \E t \in Timers : TimerStep(t)

Spec == Init /\ [][Next]_vars

\* Threads that can run do run, and a wait of 5 seconds ends.  Nothing is
\* assumed about the signals themselves.
FairSpec == Spec /\ WF_vars(PrintOnline) /\ \A t \in Timers : WF_vars(TimerStep(t))

-----------------------------------------------------------------------------
Phases == {"free", "waiting", "fired", "callback"}

\* Type invariant of the directory's dictionaries, timers and printed lines.
TypeOK ==
  /\ prompt \in Timings
  /\ listed \subseteq Devices
  /\ online \subseteq Devices
  /\ pending \in [Devices -> Timers \cup {NoTimer}]
  /\ timer \in [Timers -> [phase : Phases, dev : Devices \cup {NoDevice}]]
  /\ printing \in Devices \cup {NoDevice}
  /\ shown \in [Devices -> BOOLEAN]

\* A registered removal (_pending_removal) is always one that will still
\* happen: its timer lives, is this device's, and the device is still listed
\* although it has gone offline.
PendingIsLive ==
  \A d \in Devices : pending[d] # NoTimer =>
    /\ timer[pending[d]].phase \in {"waiting", "fired"}
    /\ timer[pending[d]].dev = d
    /\ d \in listed \ online

\* No ghost peers: a listed device that has gone offline has a removal under
\* way, whatever stale timers did to the registrations (presence.py:60).
NoGhostPeers ==
  \A d \in listed \ online : pending[d] # NoTimer

\* From some time on, no signal about d is handled.
Quiet(d) == <>[][~Update(d)]_vars

\* A device whose last signal was the offline one leaves the list: no race of
\* timers, cancellations and registrations loses the removal.  (Each repeated
\* offline signal restarts the 5 seconds, so signals about d must cease.)
OfflinePeersLeave ==
  \A d \in Devices : Quiet(d) => <>[](d \in listed => d \in online)

\* A device whose return is handled within the debounce window is never
\* removed ("If they come back online within that window, nothing visible
\* ever happened", presence.py:11).
RemovedOnlyWhileOffline ==
  [][\A d \in listed : d \in listed' \/ d \notin online]_vars

\* With prompt timers the directory is the abstract one; otherwise its steps
\* map to none.
Abstract == INSTANCE DebouncedPresence WITH
  Devices <- Devices,
  online <- IF prompt THEN online ELSE {},
  listed <- IF prompt THEN listed ELSE {}

\* The directory implements the debounced list its docstring describes,
\* provided a timer that has fired ends before the next signal.
ImplementsDebouncedPresence == Abstract!Spec

\* Every announcement is the latest truth: once no line about d is still to be
\* printed, the last one printed says what the list says, with prompt timers
\* (presence.py:63, the callback outside the lock, against chat.py:232).
LinesMatchList ==
  prompt => \A d \in Devices :
    (printing # d /\ \A t \in Timers : timer[t].dev = d => timer[t].phase # "callback")
      => (shown[d] <=> d \in listed)
=============================================================================
