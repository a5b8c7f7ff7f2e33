------------------------ MODULE DebouncedPresence ------------------------
(***************************************************************************)
(* What presence.py promises its callers, without timers, threads or       *)
(* locks: a device is listed as soon as it is known to be online, stays    *)
(* listed for a while after it went offline, and leaves the list only      *)
(* while it is offline (docstring of presence.py, lines 9 to 13).          *)
(***************************************************************************)
CONSTANT Devices    \* the other devices of the network

VARIABLES
  online,           \* devices whose last presence signal carried data
  listed            \* devices the peer list shows

vars == <<online, listed>>

Init ==
  /\ online = {}
  /\ listed = {}

ComeOnline(d) ==
  /\ online' = online \cup {d}
  /\ listed' = listed \cup {d}

GoOffline(d) ==
  /\ online' = online \ {d}
  /\ UNCHANGED listed

Remove(d) ==
  /\ d \in listed \ online
  /\ listed' = listed \ {d}
  /\ UNCHANGED online

Next == \E d \in Devices : ComeOnline(d) \/ GoOffline(d) \/ Remove(d)

Spec == Init /\ [][Next]_vars
=============================================================================
