------------------------ MODULE PeerDirectoryProofs ------------------------
(***************************************************************************)
(* PeerDirectory.tla for any number of devices and timer threads: the      *)
(* bookkeeping of registered removals is sound under every interleaving;   *)
(* when a fired timer ends before the next signal about its device, the    *)
(* directory implements DebouncedPresence.tla and its lines are true.      *)
(***************************************************************************)
EXTENDS PeerDirectory, TLAPS

USE NoDeviceAssumption, NoTimerAssumption, TimingsAssumption

\* TypeOK is an invariant of the directory.
THEOREM TypeCorrect == Spec => []TypeOK
<1>1. Init => TypeOK
  BY DEF Init, TypeOK, Free, Phases
<1>2. TypeOK /\ [Next]_vars => TypeOK'
  <2> SUFFICES ASSUME TypeOK, [Next]_vars PROVE TypeOK'
    OBVIOUS
  <2> USE DEF TypeOK, Phases, Free
  <2>1. ASSUME NEW d \in Devices, UpdateOnline(d) PROVE TypeOK'
    BY <2>1 DEF UpdateOnline, Cancelled, Unregistered, Announce
  <2>2. ASSUME NEW d \in Devices, UpdateGone(d) PROVE TypeOK'
    BY <2>2 DEF UpdateGone, Cancelled
  <2>3. ASSUME NEW d \in Devices, NEW t \in Timers, UpdateOffline(d, t) PROVE TypeOK'
    BY <2>3 DEF UpdateOffline, Debounce, Cancelled
  <2>4. CASE PrintOnline
    BY <2>4 DEF PrintOnline
  <2>5. ASSUME NEW t \in Timers, TimerFires(t) PROVE TypeOK'
    BY <2>5 DEF TimerFires
  <2>6. ASSUME NEW t \in Timers, FinalizeRemoval(t) PROVE TypeOK'
    <3>1. timer' \in [Timers -> [phase : {"free", "waiting", "fired", "callback"}, dev : Devices \cup {NoDevice}]]
      BY <2>6 DEF FinalizeRemoval
    <3>2. pending' \in [Devices -> Timers \cup {NoTimer}]
      BY <2>6 DEF FinalizeRemoval, Unregistered
    <3>3. QED
      BY <2>6, <3>1, <3>2 DEF FinalizeRemoval
  <2>7. ASSUME NEW t \in Timers, OnRemoved(t) PROVE TypeOK'
    BY <2>7 DEF OnRemoved
  <2>8. CASE UNCHANGED vars
    BY <2>8 DEF vars
  <2>9. QED
    BY <2>1, <2>2, <2>3, <2>4, <2>5, <2>6, <2>7, <2>8 DEF Next, Update, TimerStep
<1>3. QED
  BY <1>1, <1>2, PTL DEF Spec

-----------------------------------------------------------------------------
\* Registered removals: each is live, and each listed device that is offline
\* has one.
Registrations == PendingIsLive /\ NoGhostPeers

\* What one step does to the registrations, for any timing.
LEMMA RegistrationsStep ==
  ASSUME TypeOK, TypeOK', Registrations, [Next]_vars
  PROVE  Registrations'
<1> USE DEF TypeOK, Registrations, PendingIsLive, NoGhostPeers
<1>1. ASSUME NEW d \in Devices, UpdateOnline(d) PROVE Registrations'
  BY <1>1 DEF UpdateOnline, Cancelled, Unregistered
<1>2. ASSUME NEW d \in Devices, UpdateGone(d) PROVE Registrations'
  <2>1. pending[d] = NoTimer
    BY <1>2 DEF UpdateGone
  <2>2. timer' = timer
    BY <1>2, <2>1 DEF UpdateGone, Cancelled
  <2>3. QED
    BY <1>2, <2>2 DEF UpdateGone
<1>3. ASSUME NEW d \in Devices, NEW t \in Timers, UpdateOffline(d, t) PROVE Registrations'
  BY <1>3 DEF UpdateOffline, Debounce, Cancelled, Free
<1>4. CASE PrintOnline
  BY <1>4 DEF PrintOnline
<1>5. ASSUME NEW t \in Timers, TimerFires(t) PROVE Registrations'
  BY <1>5 DEF TimerFires
<1>6. ASSUME NEW t \in Timers, FinalizeRemoval(t) PROVE Registrations'
  BY <1>6 DEF FinalizeRemoval, Unregistered
<1>7. ASSUME NEW t \in Timers, OnRemoved(t) PROVE Registrations'
  BY <1>7 DEF OnRemoved
<1>8. CASE UNCHANGED vars
  BY <1>8 DEF vars
<1>9. QED
  BY <1>1, <1>2, <1>3, <1>4, <1>5, <1>6, <1>7, <1>8 DEF Next, Update, TimerStep

\* Whatever the timing of signals and timers, _pending_removal only holds
\* removals that will happen.
THEOREM RegistrationsAreLive == Spec => []PendingIsLive
<1>1. Init => Registrations
  BY DEF Init, Registrations, PendingIsLive, NoGhostPeers
<1>2. TypeOK /\ TypeOK' /\ Registrations /\ [Next]_vars => Registrations'
  BY RegistrationsStep
<1>3. Registrations => PendingIsLive
  BY DEF Registrations
<1>4. QED
  BY <1>1, <1>2, <1>3, TypeCorrect, PTL DEF Spec

\* Whatever the timing, a listed device that is offline has a removal under
\* way: no sequence of signals and late timers leaves a ghost in the list.
THEOREM NoGhosts == Spec => []NoGhostPeers
<1>1. Init => Registrations
  BY DEF Init, Registrations, PendingIsLive, NoGhostPeers
<1>2. TypeOK /\ TypeOK' /\ Registrations /\ [Next]_vars => Registrations'
  BY RegistrationsStep
<1>3. Registrations => NoGhostPeers
  BY DEF Registrations
<1>4. QED
  BY <1>1, <1>2, <1>3, TypeCorrect, PTL DEF Spec

-----------------------------------------------------------------------------
\* With prompt timers, every timer that may still remove its device is the one
\* registered for it: no stale timer is left behind.
NoStaleTimer ==
  \A t \in Timers : timer[t].phase \in {"waiting", "fired"} =>
    timer[t].dev \in Devices /\ pending[timer[t].dev] = t

\* What one step does to the timers that may still remove, when timers are
\* prompt.
LEMMA NoStaleTimerStep ==
  ASSUME prompt, TypeOK, Registrations, NoStaleTimer, [Next]_vars
  PROVE  NoStaleTimer'
<1> USE DEF TypeOK, NoStaleTimer
<1>1. ASSUME NEW d \in Devices, UpdateOnline(d) PROVE NoStaleTimer'
  BY <1>1 DEF UpdateOnline, Cancelled, Unregistered, Settled, Free
<1>2. ASSUME NEW d \in Devices, UpdateGone(d) PROVE NoStaleTimer'
  BY <1>2 DEF UpdateGone, Cancelled, Free
<1>3. ASSUME NEW d \in Devices, NEW t \in Timers, UpdateOffline(d, t) PROVE NoStaleTimer'
  BY <1>3 DEF UpdateOffline, Debounce, Cancelled, Settled, Free
<1>4. CASE PrintOnline
  BY <1>4 DEF PrintOnline
<1>5. ASSUME NEW t \in Timers, TimerFires(t) PROVE NoStaleTimer'
  BY <1>5 DEF TimerFires
<1>6. ASSUME NEW t \in Timers, FinalizeRemoval(t) PROVE NoStaleTimer'
  BY <1>6 DEF FinalizeRemoval, Unregistered, Free
<1>7. ASSUME NEW t \in Timers, OnRemoved(t) PROVE NoStaleTimer'
  BY <1>7 DEF OnRemoved, Free
<1>8. CASE UNCHANGED vars
  BY <1>8 DEF vars
<1>9. QED
  BY <1>1, <1>2, <1>3, <1>4, <1>5, <1>6, <1>7, <1>8 DEF Next, Update, TimerStep

\* With prompt timers, every step of the directory is a step of the debounced
\* list, or none.
LEMMA PromptStep ==
  ASSUME prompt, TypeOK, Registrations, NoStaleTimer, [Next]_vars
  PROVE  [Abstract!Next]_(Abstract!vars)
<1> USE DEF Abstract!Next, Abstract!vars
<1>1. ASSUME NEW d \in Devices, UpdateOnline(d) PROVE [Abstract!Next]_(Abstract!vars)
  BY <1>1 DEF UpdateOnline, Abstract!ComeOnline
<1>2. ASSUME NEW d \in Devices, UpdateGone(d) PROVE [Abstract!Next]_(Abstract!vars)
  BY <1>2 DEF UpdateGone, Abstract!GoOffline
<1>3. ASSUME NEW d \in Devices, NEW t \in Timers, UpdateOffline(d, t)
      PROVE [Abstract!Next]_(Abstract!vars)
  BY <1>3 DEF UpdateOffline, Abstract!GoOffline
<1>4. CASE PrintOnline
  BY <1>4 DEF PrintOnline
<1>5. ASSUME NEW t \in Timers, TimerFires(t) PROVE [Abstract!Next]_(Abstract!vars)
  BY <1>5 DEF TimerFires
<1>6. ASSUME NEW t \in Timers, FinalizeRemoval(t) PROVE [Abstract!Next]_(Abstract!vars)
  <2>1. timer[t].dev \in Devices /\ pending[timer[t].dev] = t
    BY <1>6 DEF FinalizeRemoval, NoStaleTimer
  <2>2. timer[t].dev \in listed \ online
    BY <2>1 DEF Registrations, PendingIsLive
  <2>3. Abstract!Remove(timer[t].dev)
    BY <1>6, <2>2 DEF FinalizeRemoval, Abstract!Remove
  <2>4. QED
    BY <2>1, <2>3
<1>7. ASSUME NEW t \in Timers, OnRemoved(t) PROVE [Abstract!Next]_(Abstract!vars)
  BY <1>7 DEF OnRemoved
<1>8. CASE UNCHANGED vars
  BY <1>8 DEF vars
<1>9. QED
  BY <1>1, <1>2, <1>3, <1>4, <1>5, <1>6, <1>7, <1>8 DEF Next, Update, TimerStep

\* Whether timers are prompt never changes.
LEMMA TimingIsFixed ==
  ASSUME [Next]_vars
  PROVE  prompt' = prompt
BY DEF Next, Update, UpdateOnline, UpdateGone, UpdateOffline, PrintOnline, TimerStep,
       TimerFires, FinalizeRemoval, OnRemoved, vars

\* What holds of the directory behind the refinement.
Refining == Registrations /\ (prompt => NoStaleTimer)

\* The directory implements the debounced list of its docstring, provided a
\* timer that has fired ends before the next signal about its device.
THEOREM RefinesDebouncedPresence == Spec => ImplementsDebouncedPresence
<1>1. Init => Refining
  BY DEF Init, Refining, Registrations, PendingIsLive, NoGhostPeers, NoStaleTimer, Free
<1>2. TypeOK /\ TypeOK' /\ Refining /\ [Next]_vars => Refining'
  BY RegistrationsStep, NoStaleTimerStep, TimingIsFixed DEF Refining
<1>3. Init => Abstract!Init
  BY DEF Init, Abstract!Init
<1>4. TypeOK /\ Refining /\ [Next]_vars => [Abstract!Next]_(Abstract!vars)
  <2>1. CASE prompt
    BY <2>1, PromptStep DEF Refining
  <2>2. ASSUME ~prompt, [Next]_vars PROVE UNCHANGED Abstract!vars
    BY <2>2, TimingIsFixed DEF Abstract!vars
  <2>3. QED
    BY <2>1, <2>2
<1>5. QED
  BY <1>1, <1>2, <1>3, <1>4, TypeCorrect, PTL
  DEF Spec, ImplementsDebouncedPresence, Abstract!Spec
-----------------------------------------------------------------------------
\* With prompt timers: a device about to be announced is there, one about to
\* be taken back has left the list, once, and the lines are true of all others.
Lines ==
  /\ printing # NoDevice => printing \in listed \cap online
  /\ \A t \in Timers : timer[t].phase = "callback" => timer[t].dev \in Devices \ listed
  /\ \A t, u \in Timers :
       timer[t].phase = "callback" /\ timer[u].phase = "callback" /\ timer[t].dev = timer[u].dev => t = u
  /\ \A d \in Devices :
       (printing # d /\ \A t \in Timers : timer[t].dev = d => timer[t].phase # "callback")
         => (shown[d] <=> d \in listed)

\* What one step does to the lines, when timers are prompt.
LEMMA LinesStep ==
  ASSUME prompt, TypeOK, Registrations, NoStaleTimer, Lines, [Next]_vars
  PROVE  Lines'
<1> USE DEF TypeOK, Lines
<1>1. ASSUME NEW d \in Devices, UpdateOnline(d) PROVE Lines'
  <2>1. \A t \in Timers : timer[t].dev = d => timer[t].phase # "callback"
    BY <1>1 DEF UpdateOnline, Settled
  <2>2. \A t \in Timers : timer'[t].phase = "callback" <=> timer[t].phase = "callback"
    BY <1>1 DEF UpdateOnline, Cancelled, Free
  <2>3. \A t \in Timers : timer'[t].phase = "callback" => timer'[t] = timer[t]
    BY <1>1 DEF UpdateOnline, Cancelled, Free
  <2>4. /\ printing = NoDevice /\ printing' = IF d \in listed THEN NoDevice ELSE d
        /\ listed' = listed \cup {d} /\ online' = online \cup {d} /\ shown' = shown
    BY <1>1 DEF UpdateOnline, Announce
  <2>5. \A e \in Devices : (\A t \in Timers : timer'[t].dev = e => timer'[t].phase # "callback")
                             => (\A t \in Timers : timer[t].dev = e => timer[t].phase # "callback")
    BY <2>2, <2>3
  <2>6. \A e \in Devices :
          (printing' # e /\ \A t \in Timers : timer'[t].dev = e => timer'[t].phase # "callback")
            => (shown'[e] <=> e \in listed')
    BY <2>1, <2>4, <2>5
  <2>7. QED
    BY <2>1, <2>2, <2>3, <2>4, <2>6
<1>2. ASSUME UNCHANGED <<listed, printing, shown>>,
             printing # NoDevice => printing \in online',
             \A t \in Timers : timer'[t].phase = "callback" <=> timer[t].phase = "callback",
             \A t \in Timers : timer'[t].phase = "callback" => timer'[t] = timer[t]
      PROVE  Lines'
  <2>1. \A e \in Devices : (\A t \in Timers : timer'[t].dev = e => timer'[t].phase # "callback")
                             => (\A t \in Timers : timer[t].dev = e => timer[t].phase # "callback")
    BY <1>2
  <2>2. QED
    BY <1>2, <2>1
<1>3. ASSUME NEW d \in Devices, UpdateGone(d) PROVE Lines'
  BY <1>2, <1>3 DEF UpdateGone, Cancelled, Free
<1>4. ASSUME NEW d \in Devices, NEW t \in Timers, UpdateOffline(d, t) PROVE Lines'
  BY <1>2, <1>4 DEF UpdateOffline, Debounce, Cancelled, Free
<1>5. CASE PrintOnline
  <2>1. /\ printing \in listed \cap online /\ printing' = NoDevice
        /\ shown' = [shown EXCEPT ![printing] = TRUE] /\ UNCHANGED <<listed, timer, online>>
    BY <1>5 DEF PrintOnline
  <2>2. \A e \in Devices : e # printing => shown'[e] = shown[e]
    BY <2>1
  <2>3. shown'[printing] = TRUE
    BY <2>1
  <2>4. QED
    BY <2>1, <2>2, <2>3
<1>6. ASSUME NEW t \in Timers, TimerFires(t) PROVE Lines'
  BY <1>2, <1>6 DEF TimerFires
<1>7. ASSUME NEW t \in Timers, FinalizeRemoval(t) PROVE Lines'
  <2> DEFINE d == timer[t].dev
  <2>1. d \in Devices /\ pending[d] = t
    BY <1>7 DEF FinalizeRemoval, NoStaleTimer
  <2>2. d \in listed \ online
    BY <2>1 DEF Registrations, PendingIsLive
  <2>3. /\ timer' = [timer EXCEPT ![t] = [@ EXCEPT !.phase = "callback"]]
        /\ listed' = listed \ {d} /\ UNCHANGED <<printing, online, shown>>
    BY <1>7, <2>2 DEF FinalizeRemoval
  <2>4. timer'[t].phase = "callback" /\ timer'[t].dev = d /\ \A u \in Timers : u # t => timer'[u] = timer[u]
    BY <2>3
  <2>5. \A u \in Timers : timer[u].phase = "callback" => timer[u].dev # d /\ u # t
    BY <1>7, <2>2 DEF FinalizeRemoval
  <2>6. \A e \in Devices : e # d =>
          ((\A u \in Timers : timer'[u].dev = e => timer'[u].phase # "callback")
             => (\A u \in Timers : timer[u].dev = e => timer[u].phase # "callback"))
    BY <2>4
  <2> HIDE DEF d
  <2>7. printing' # NoDevice => printing' \in listed' \cap online'
    BY <2>2, <2>3
  <2>8. \A u \in Timers : timer'[u].phase = "callback" => timer'[u].dev \in Devices \ listed'
    BY <2>1, <2>3, <2>4
  <2>9. \A u, v \in Timers :
          timer'[u].phase = "callback" /\ timer'[v].phase = "callback" /\ timer'[u].dev = timer'[v].dev => u = v
    BY <2>4, <2>5
  <2>10. \A e \in Devices :
          (printing' # e /\ \A u \in Timers : timer'[u].dev = e => timer'[u].phase # "callback")
            => (shown'[e] <=> e \in listed')
    BY <2>3, <2>4, <2>6
  <2>11. QED
    BY <2>7, <2>8, <2>9, <2>10
<1>8. ASSUME NEW t \in Timers, OnRemoved(t) PROVE Lines'
  <2> DEFINE d == timer[t].dev
  <2>1. d \in Devices \ listed /\ timer[t].phase = "callback"
    BY <1>8 DEF OnRemoved
  <2>2. /\ timer' = [timer EXCEPT ![t] = Free] /\ shown' = [shown EXCEPT ![d] = FALSE]
        /\ UNCHANGED <<listed, printing, online>>
    BY <1>8 DEF OnRemoved
  <2>3. timer'[t].phase # "callback" /\ \A u \in Timers : u # t => timer'[u] = timer[u]
    BY <2>2 DEF Free
  <2>4. shown'[d] = FALSE /\ \A e \in Devices : e # d => shown'[e] = shown[e]
    BY <2>1, <2>2
  <2>5. \A e \in Devices : e # d =>
          ((\A u \in Timers : timer'[u].dev = e => timer'[u].phase # "callback")
             => (\A u \in Timers : timer[u].dev = e => timer[u].phase # "callback"))
    BY <2>1, <2>3
  <2> HIDE DEF d
  <2>6. \A e \in Devices :
          (printing' # e /\ \A u \in Timers : timer'[u].dev = e => timer'[u].phase # "callback")
            => (shown'[e] <=> e \in listed')
    BY <2>1, <2>2, <2>4, <2>5
  <2>7. QED
    BY <2>2, <2>3, <2>6
<1>9. CASE UNCHANGED vars
  BY <1>2, <1>9 DEF vars
<1>10. QED
  BY <1>1, <1>3, <1>4, <1>5, <1>6, <1>7, <1>8, <1>9 DEF Next, Update, TimerStep

\* With prompt timers the lines printed outside the lock never contradict the
\* list for longer than it takes to print the next one.
THEOREM LinesAreTrue == Spec => []LinesMatchList
<1> DEFINE LinesInv == Refining /\ (prompt => Lines)
<1>1. Init => LinesInv
  <2>1. Init => Refining /\ Lines
    BY DEF Init, Refining, Registrations, PendingIsLive, NoGhostPeers, NoStaleTimer, Lines, Free
  <2>2. QED
    BY <2>1
<1>2. TypeOK /\ TypeOK' /\ LinesInv /\ [Next]_vars => LinesInv'
  <2>1. TypeOK /\ TypeOK' /\ Refining /\ [Next]_vars => Refining'
    BY RegistrationsStep, NoStaleTimerStep, TimingIsFixed DEF Refining
  <2>2. TypeOK /\ Refining /\ prompt /\ Lines /\ [Next]_vars => Lines'
    BY LinesStep DEF Refining
  <2>3. QED
    BY <2>1, <2>2, TimingIsFixed
<1>3. LinesInv => LinesMatchList
  BY DEF Lines, LinesMatchList
<1>4. QED
  BY <1>1, <1>2, <1>3, TypeCorrect, PTL DEF Spec
=============================================================================
