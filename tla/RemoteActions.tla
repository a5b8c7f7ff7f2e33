--------------------------- MODULE RemoteActions ---------------------------
(***************************************************************************)
(* remote_actions.py with PendingActions of mqttclient.py: calls of        *)
(* run_action on one device, requests and results over the relay, and the  *)
(* RemoteActionHandler of the target device, on its paho thread, one       *)
(* request at a time.  The target's user changes the permissions           *)
(* meanwhile.  What a command prints is abstracted to its outcome.         *)
(***************************************************************************)
EXTENDS Naturals, FiniteSets

CONSTANTS
  Requests,       \* request ids: one call of run_action each
  Devices,        \* requesting devices
  From, Action,   \* request -> device, request -> name of the action
  AlwaysAllowed,  \* _ALWAYS_ALLOWED
  Actions,        \* names of actions
  SeenCap,        \* 1000 in the code: more ids than this are not remembered
  SeenKeep,       \* 500 in the code: ids kept when the cap is passed
  MaxRestarts,    \* bound: times the target's client is recreated
  NoRequest

ASSUME NoRequestAssumption == NoRequest \notin Requests
ASSUME FromAssumption == From \in [Requests -> Devices] /\ Action \in [Requests -> Actions]
ASSUME AlwaysAllowedAssumption == AlwaysAllowed \subseteq Actions
ASSUME CapAssumption == SeenCap \in Nat /\ SeenKeep \in 0 .. SeenCap /\ MaxRestarts \in Nat

VARIABLES
  \* the requesting side
  call,           \* request -> where its run_action is
  events,         \* keys of _events
  signalled,      \* requests whose threading.Event is set
  results,        \* _results: request -> outcome, or "none"
  returned,       \* request -> what run_action returned, "none" before that
  \* the relay: messages not acknowledged yet
  requestsOut,
  resultsOut,
  \* the target
  seen,           \* _seen_requests
  handling,       \* the request being handled and the next check of it
  runs,           \* request -> times its command was started
  enabled, trusted, commands,     \* the permissions in cfg
  allowed,        \* history: permissions that held since handling began
  restarts

caller == <<call, events, signalled, results, returned>>
relay == <<requestsOut, resultsOut>>
permissions == <<enabled, trusted, commands>>
vars == <<caller, relay, seen, handling, runs, permissions, allowed, restarts>>

Refusals == {"disabled", "denied", "unknown-action"}
Outcomes == Refusals \cup {"ok", "error"}
Idle == [req |-> NoRequest, check |-> "none"]

Init ==
  /\ call = [r \in Requests |-> "idle"]
  /\ events = {} /\ signalled = {}
  /\ results = [r \in Requests |-> "none"]
  /\ returned = [r \in Requests |-> "none"]
  /\ requestsOut = {} /\ resultsOut = {}
  /\ seen = {} /\ handling = Idle
  /\ runs = [r \in Requests |-> 0]
  /\ enabled \in BOOLEAN /\ trusted = {} /\ commands = AlwaysAllowed
  /\ allowed = {} /\ restarts = 0

-----------------------------------------------------------------------------
(* The requesting side.                                                    *)

\* register(), before anything is published.
Register(r) ==
  /\ call[r] = "idle"
  /\ call' = [call EXCEPT ![r] = "registered"]
  /\ events' = events \cup {r}
  /\ UNCHANGED <<signalled, results, returned, relay, seen, handling, runs, permissions,
                 allowed, restarts>>

SendRequest(r) ==
  /\ call[r] = "registered"
  /\ call' = [call EXCEPT ![r] = "waiting"]
  /\ requestsOut' = requestsOut \cup {r}
  /\ UNCHANGED <<events, signalled, results, returned, resultsOut, seen, handling, runs,
                 permissions, allowed, restarts>>

WaitEndsAnswered(r) == call[r] = "waiting" /\ r \in signalled

\* event.wait(timeout) may return at any time.
WaitEnds(r) == call[r] = "waiting"

\* The wait is over because the result is there, or else because time is up.
StopWaiting(r) ==
  /\ WaitEnds(r)
  /\ call' = [call EXCEPT ![r] = IF r \in signalled THEN "answered" ELSE "expired"]
  /\ UNCHANGED <<events, signalled, results, returned, relay, seen, handling, runs,
                 permissions, allowed, restarts>>

PopAnsweredOnly(r) ==
  IF call[r] = "expired" THEN UNCHANGED <<events, results>>
  ELSE events' = events \ {r} /\ results' = [results EXCEPT ![r] = "none"]

\* pop_result()
Pop(r) == events' = events \ {r} /\ results' = [results EXCEPT ![r] = "none"]

\* The result is returned, or TimeoutError raised whatever pop_result() found.
Return(r) ==
  /\ call[r] \in {"answered", "expired"}
  /\ call' = [call EXCEPT ![r] = "done"]
  /\ returned' = [returned EXCEPT ![r] = IF call[r] = "expired" THEN "timeout" ELSE results[r]]
  /\ Pop(r)
  /\ UNCHANGED <<signalled, relay, seen, handling, runs, permissions, allowed, restarts>>

\* resolve() ignores a result nobody waits for any more.
Expected(r) == r \in events

\* resolve(), on the requester's paho thread.
DeliverResult(m, acked) ==
  /\ m \in resultsOut
  /\ resultsOut' = IF acked THEN resultsOut \ {m} ELSE resultsOut
  /\ IF Expected(m.req)
       THEN /\ results' = [results EXCEPT ![m.req] = m.outcome]
            /\ signalled' = signalled \cup {m.req}
       ELSE UNCHANGED <<results, signalled>>
  /\ UNCHANGED <<call, events, returned, requestsOut, seen, handling, runs, permissions,
                 allowed, restarts>>

-----------------------------------------------------------------------------
(* The target.                                                             *)

\* The permissions of the request being handled that hold in the present cfg.
Holding(r) ==
  {p \in {"enabled", "trust", "command"} :
     \/ p = "enabled" /\ enabled
     \/ p = "trust" /\ (Action[r] \in AlwaysAllowed \/ From[r] \in trusted)
     \/ p = "command" /\ Action[r] \in commands}

NeverSeen(r) == FALSE

\* seen(): was it handled before?
Seen(r) == r \in seen

\* seen() remembers the id; past the cap an arbitrary part of a set is kept.
MarkSeen(r) ==
  LET s == seen \cup {r}
  IN  IF Cardinality(s) > SeenCap
        THEN seen' \in {keep \in SUBSET s : Cardinality(keep) = SeenKeep}
        ELSE seen' = s

\* handle_request begins: a redelivery is dropped.
Receive(r, acked) ==
  /\ handling = Idle
  /\ r \in requestsOut
  /\ requestsOut' = IF acked THEN requestsOut \ {r} ELSE requestsOut
  /\ IF Seen(r)
       THEN UNCHANGED <<seen, handling, allowed>>
       ELSE /\ MarkSeen(r)
            /\ handling' = [req |-> r, check |-> "enabled"]
            /\ allowed' = Holding(r)
  /\ UNCHANGED <<caller, resultsOut, runs, permissions, restarts>>

\* _reply ends the handling of a request.
Reply(r, outcome) ==
  /\ resultsOut' = resultsOut \cup {[req |-> r, outcome |-> outcome]}
  /\ handling' = Idle
  /\ allowed' = {}

PassCheckLoose(r) == handling.check = "trust" \/ handling.check \in Holding(r)

\* Whether the configuration read now lets the request pass its next check.
PassCheck(r) == handling.check \in Holding(r)

NextCheck == [enabled |-> "trust", trust |-> "command"]
Refusal == [enabled |-> "disabled", trust |-> "denied", command |-> "unknown-action"]

\* The three checks of handle_request, each of which reads cfg when its turn
\* comes; the last one passed starts the command.
Check ==
  LET r == handling.req
      c == handling.check
  IN  /\ c \in {"enabled", "trust", "command"}
      /\ \/ /\ ~PassCheck(r)
            /\ Reply(r, Refusal[c])
            /\ UNCHANGED runs
         \/ /\ PassCheck(r) /\ c # "command"
            /\ handling' = [handling EXCEPT !.check = NextCheck[c]]
            /\ UNCHANGED <<resultsOut, runs, allowed>>
         \/ /\ PassCheck(r) /\ c = "command"
            /\ handling' = [handling EXCEPT !.check = "running"]
            /\ runs' = [runs EXCEPT ![r] = @ + 1]
            /\ UNCHANGED <<resultsOut, allowed>>
      /\ UNCHANGED <<caller, requestsOut, seen, permissions, restarts>>

\* subprocess.run returns, or raises (the command's own timeout included).
Finish ==
  /\ handling.check = "running"
  /\ \E outcome \in {"ok", "error"} : Reply(handling.req, outcome)
  /\ UNCHANGED <<caller, requestsOut, seen, runs, permissions, restarts>>

\* The user grants or revokes, from the settings, on another thread.
ChangePermissions ==
  /\ \/ enabled' = ~enabled /\ UNCHANGED <<trusted, commands>>
     \/ \E d \in Devices : trusted' \in {trusted \cup {d}, trusted \ {d}}
                           /\ UNCHANGED <<enabled, commands>>
     \/ \E a \in Actions : commands' \in {commands \cup {a}, commands \ {a}}
                           /\ UNCHANGED <<enabled, trusted>>
  /\ UNCHANGED <<caller, relay, seen, handling, runs, restarts>>
  /\ allowed' = IF handling = Idle THEN {} ELSE allowed \cup Holding(handling.req)'

\* The target's application restarts, or makes a new client for changed
\* settings: what PendingActions remembered is gone.
Restart ==
  /\ restarts < MaxRestarts
  /\ restarts' = restarts + 1
  /\ seen' = {}
  /\ handling' = Idle
  /\ allowed' = {}
  /\ UNCHANGED <<caller, relay, runs, permissions>>

Next ==
  \/ \E r \in Requests : Register(r) \/ SendRequest(r) \/ StopWaiting(r) \/ Return(r)
  \/ \E m \in resultsOut, acked \in BOOLEAN : DeliverResult(m, acked)
  \/ \E r \in Requests, acked \in BOOLEAN : Receive(r, acked)
  \/ Check
  \/ Finish
  \/ ChangePermissions
  \/ Restart

Spec == Init /\ [][Next]_vars

\* The requester's threads go on, waits end, and the target's handler runs on
\* (subprocess.run has a timeout).  The user need not do anything, and the
\* relay need not deliver anything.
FairSpec ==
  /\ Spec
  /\ \A r \in Requests : WF_vars(SendRequest(r) \/ StopWaiting(r) \/ Return(r))
  /\ WF_vars(Check \/ Finish)

-----------------------------------------------------------------------------
Phases == {"idle", "registered", "waiting", "answered", "expired", "done"}

\* Type invariant of both sides and the messages between them.
TypeOK ==
  /\ call \in [Requests -> Phases]
  /\ events \subseteq Requests /\ signalled \subseteq Requests
  /\ results \in [Requests -> Outcomes \cup {"none"}]
  /\ returned \in [Requests -> Outcomes \cup {"none", "timeout"}]
  /\ requestsOut \subseteq Requests
  /\ resultsOut \subseteq [req : Requests, outcome : Outcomes]
  /\ seen \subseteq Requests
  /\ handling \in {Idle} \cup
       [req : Requests, check : {"enabled", "trust", "command", "running"}]
  /\ runs \in [Requests -> Nat]
  /\ enabled \in BOOLEAN /\ trusted \subseteq Devices /\ commands \subseteq Actions
  /\ allowed \subseteq {"enabled", "trust", "command"}
  /\ restarts \in 0 .. MaxRestarts

\* A redelivered request never runs its command again, unless the target has
\* been restarted in between: each client runs it once at most (mqttclient.py:59).
RunsOncePerClient == \A r \in Requests : runs[r] <= 1 + restarts

\* run_action tells the truth: a command that was answered for has run, one
\* that was refused has not (while the target is not restarted and asked again),
\* and there is always an answer or a timeout (remote_actions.py:116,
\* mqttclient.py:47).
AnswersAreTrue ==
  \A r \in Requests :
    /\ returned[r] \in {"ok", "error"} => runs[r] > 0
    /\ returned[r] \in Refusals /\ restarts = 0 => runs[r] = 0
    /\ call[r] = "done" => returned[r] # "none"

\* Neither an answer that comes late nor one that comes twice stays behind in
\* _events or _results (mqttclient.py:49, remote_actions.py:114).
NothingLeftBehind ==
  \A r \in Requests :
    /\ r \in events <=> call[r] \in {"registered", "waiting", "answered", "expired"}
    /\ results[r] # "none" => r \in events

\* A command never runs for a request that came after its permission was taken
\* away: each of the three permissions held at some time while the request was
\* handled (remote_actions.py:63, 69, 75).
RunsArePermitted ==
  handling.check = "running" => allowed = {"enabled", "trust", "command"}

\* Every call of run_action ends, whatever the relay and the target do
\* (remote_actions.py:113).
CallsEnd == \A r \in Requests : call[r] = "registered" ~> call[r] = "done"
=============================================================================
