------------------------ MODULE RemoteActionsProofs ------------------------
(***************************************************************************)
(* RemoteActions.tla for any number of calls, devices and actions.         *)
(***************************************************************************)
EXTENDS RemoteActions, FiniteSetTheorems, TLAPS

USE NoRequestAssumption, FromAssumption, CapAssumption

\* Every step preserves TypeOK.
LEMMA TypeStep ==
  ASSUME TypeOK, [Next]_vars
  PROVE  TypeOK'
<1> USE DEF TypeOK, Phases, caller, relay, permissions
<1>1. ASSUME NEW r \in Requests, Register(r) \/ SendRequest(r) \/ StopWaiting(r) \/ Return(r)
      PROVE  TypeOK'
  <2>1. CASE Register(r)
    BY <2>1 DEF Register
  <2>2. CASE SendRequest(r)
    BY <2>2 DEF SendRequest
  <2>3. CASE StopWaiting(r)
    BY <2>3 DEF StopWaiting
  <2>4. CASE Return(r)
    BY <2>4 DEF Return, Pop
  <2>5. QED
    BY <1>1, <2>1, <2>2, <2>3, <2>4
<1>2. ASSUME NEW m \in resultsOut, NEW acked \in BOOLEAN, DeliverResult(m, acked) PROVE TypeOK'
  BY <1>2 DEF DeliverResult
<1>3. ASSUME NEW r \in Requests, NEW acked \in BOOLEAN, Receive(r, acked) PROVE TypeOK'
  <2>1. seen' \subseteq Requests
    BY <1>3 DEF Receive, MarkSeen
  <2>2. Holding(r) \subseteq {"enabled", "trust", "command"}
    BY DEF Holding
  <2>3. handling' \in {Idle} \cup [req : Requests, check : {"enabled", "trust", "command", "running"}]
    BY <1>3 DEF Receive
  <2>4. allowed' \subseteq {"enabled", "trust", "command"}
    BY <1>3, <2>2 DEF Receive
  <2>5. QED
    BY <1>3, <2>1, <2>3, <2>4 DEF Receive
<1>4. ASSUME NEW outcome \in Outcomes, handling # Idle, Reply(handling.req, outcome)
      PROVE  /\ resultsOut' \subseteq [req : Requests, outcome : Outcomes]
             /\ handling' = Idle /\ allowed' \subseteq {"enabled", "trust", "command"}
  BY <1>4 DEF Reply
<1>5. CASE Check
  <2>1. handling # Idle /\ handling.req \in Requests
    BY <1>5 DEF Check, Idle
  <2>2. Refusal[handling.check] \in Outcomes
    BY <1>5 DEF Check, Refusal, Outcomes, Refusals
  <2>3. CASE Reply(handling.req, Refusal[handling.check]) /\ UNCHANGED runs
    BY <1>4, <1>5, <2>1, <2>2, <2>3 DEF Check
  <2>4. CASE /\ handling.check # "command" /\ UNCHANGED <<resultsOut, runs, allowed>>
             /\ handling' = [handling EXCEPT !.check = NextCheck[handling.check]]
    BY <1>5, <2>1, <2>4 DEF Check, NextCheck
  <2>5. CASE /\ handling' = [handling EXCEPT !.check = "running"]
             /\ runs' = [runs EXCEPT ![handling.req] = @ + 1]
             /\ UNCHANGED <<resultsOut, allowed>>
    BY <1>5, <2>1, <2>5 DEF Check
  <2>6. QED
    BY <1>5, <2>3, <2>4, <2>5 DEF Check
<1>6. CASE Finish
  <2>1. handling # Idle
    BY <1>6 DEF Finish, Idle
  <2>2. PICK outcome \in Outcomes : Reply(handling.req, outcome)
    BY <1>6 DEF Finish, Outcomes
  <2>3. QED
    BY <1>4, <1>6, <2>1, <2>2 DEF Finish
<1>7. CASE ChangePermissions
  <2>1. Holding(handling.req)' \subseteq {"enabled", "trust", "command"}
    BY DEF Holding
  <2>2. QED
    BY <1>7, <2>1 DEF ChangePermissions
<1>8. CASE Restart
  BY <1>8 DEF Restart
<1>9. CASE UNCHANGED vars
  BY <1>9 DEF vars
<1>10. QED
  BY <1>1, <1>2, <1>3, <1>5, <1>6, <1>7, <1>8, <1>9 DEF Next

\* The state of both sides and of the relay has its types, whatever is asked,
\* answered, redelivered, granted and restarted.
THEOREM TypeCorrect == Spec => []TypeOK
<1>1. Init => TypeOK
  BY AlwaysAllowedAssumption DEF Init, TypeOK, Phases
<1>2. QED
  BY <1>1, TypeStep, PTL DEF Spec

-----------------------------------------------------------------------------
\* A request whose turn for a check has come passed the ones before it, each
\* with the configuration of that moment.
PassedInv ==
  /\ handling.check \in {"none", "enabled", "trust", "command", "running"}
  /\ handling.check \in {"trust", "command", "running"} => "enabled" \in allowed
  /\ handling.check \in {"command", "running"} => "trust" \in allowed
  /\ handling.check = "running" => "command" \in allowed

\* Nothing that holds now is missing from what has held since handling began.
HeldInv == handling # Idle => handling.req \in Requests /\ Holding(handling.req) \subseteq allowed

\* No command runs without the three permissions, each held at some time while
\* the request was handled, whatever the user changes between the checks.
THEOREM OnlyPermittedRuns == Spec => []RunsArePermitted
<1>1. Init => PassedInv /\ HeldInv
  BY DEF Init, PassedInv, HeldInv, Idle
<1>2. TypeOK /\ PassedInv /\ HeldInv /\ [Next]_vars => PassedInv' /\ HeldInv'
  <2> SUFFICES ASSUME TypeOK, PassedInv, HeldInv, [Next]_vars PROVE PassedInv' /\ HeldInv'
    OBVIOUS
  <2> USE DEF PassedInv, HeldInv
  <2>1. ASSUME UNCHANGED <<handling, permissions, allowed>> PROVE PassedInv' /\ HeldInv'
    BY <2>1 DEF permissions, Holding
  <2>2. ASSUME NEW r \in Requests, NEW acked \in BOOLEAN, Receive(r, acked)
        PROVE  PassedInv' /\ HeldInv'
    BY <2>1, <2>2 DEF Receive, permissions, Holding
  <2>3. ASSUME handling' = Idle PROVE PassedInv' /\ HeldInv'
    BY <2>3 DEF Idle
  <2>4. CASE Check
    <3>1. handling # Idle
      BY <2>4 DEF Check, Idle
    <3>2. CASE handling' = Idle
      BY <2>3, <3>2
    <3>3. CASE /\ PassCheck(handling.req) /\ handling.check # "command" /\ UNCHANGED allowed
               /\ handling' = [handling EXCEPT !.check = NextCheck[handling.check]]
      BY <2>4, <3>1, <3>3 DEF Check, NextCheck, PassCheck, permissions, Holding, TypeOK
    <3>4. CASE /\ PassCheck(handling.req) /\ handling.check = "command" /\ UNCHANGED allowed
               /\ handling' = [handling EXCEPT !.check = "running"]
      BY <2>4, <3>1, <3>4 DEF Check, PassCheck, permissions, Holding, TypeOK
    <3>5. QED
      BY <2>4, <3>2, <3>3, <3>4 DEF Check, Reply
  <2>5. CASE Finish
    BY <2>3, <2>5 DEF Finish, Reply
  <2>6. CASE ChangePermissions
    BY <2>6 DEF ChangePermissions, Idle
  <2>7. CASE Restart
    BY <2>3, <2>7 DEF Restart
  <2>8. QED
    BY <2>1, <2>2, <2>4, <2>5, <2>6, <2>7
       DEF Next, vars, Register, SendRequest, StopWaiting, Return, DeliverResult
<1>3. TypeOK /\ PassedInv => RunsArePermitted
  <2> SUFFICES ASSUME TypeOK, PassedInv, handling.check = "running"
               PROVE  allowed = {"enabled", "trust", "command"}
    BY DEF RunsArePermitted
  <2>1. allowed \subseteq {"enabled", "trust", "command"}
    BY DEF TypeOK
  <2>2. "enabled" \in allowed /\ "trust" \in allowed /\ "command" \in allowed
    BY DEF PassedInv
  <2>3. QED
    BY <2>1, <2>2
<1>4. QED
  BY <1>1, <1>2, <1>3, TypeCorrect, PTL DEF Spec

-----------------------------------------------------------------------------
\* Where a call is and what _events and _results hold of it.
CallsInv ==
  /\ call \in [Requests -> Phases]
  /\ events \subseteq Requests
  /\ results \in [Requests -> Outcomes \cup {"none"}]
  /\ resultsOut \subseteq [req : Requests, outcome : Outcomes]
  /\ handling = Idle \/ handling.req \in Requests
  /\ NothingLeftBehind

\* _events and _results hold nothing of a call that has ended, whatever is
\* late, repeated or lost, and however often the target restarts.
THEOREM NoLeaks == Spec => []NothingLeftBehind
<1>1. Init => CallsInv
  BY DEF Init, CallsInv, NothingLeftBehind, Phases
<1>2. CallsInv /\ [Next]_vars => CallsInv'
  <2> SUFFICES ASSUME CallsInv, [Next]_vars PROVE CallsInv'
    OBVIOUS
  <2> USE DEF CallsInv, NothingLeftBehind, Phases, caller, relay
  <2>1. ASSUME NEW r \in Requests, Register(r) PROVE CallsInv'
    BY <2>1 DEF Register
  <2>2. ASSUME NEW r \in Requests, SendRequest(r) PROVE CallsInv'
    BY <2>2 DEF SendRequest
  <2>3. ASSUME NEW r \in Requests, StopWaiting(r) PROVE CallsInv'
    BY <2>3 DEF StopWaiting, WaitEnds
  <2>4. ASSUME NEW r \in Requests, Return(r) PROVE CallsInv'
    BY <2>4 DEF Return, Pop
  <2>5. ASSUME NEW m \in resultsOut, NEW acked \in BOOLEAN, DeliverResult(m, acked)
        PROVE  CallsInv'
    BY <2>5 DEF DeliverResult, Expected
  <2>6. ASSUME NEW r \in Requests, NEW acked \in BOOLEAN, Receive(r, acked) PROVE CallsInv'
    BY <2>6 DEF Receive
  <2>7. ASSUME NEW outcome \in Outcomes, handling # Idle, Reply(handling.req, outcome),
               UNCHANGED caller
        PROVE  CallsInv'
    BY <2>7 DEF Reply
  <2>8. CASE Check
    <3>1. handling # Idle
      BY <2>8 DEF Check, Idle
    <3>2. Refusal[handling.check] \in Outcomes
      BY <2>8 DEF Check, Refusal, Outcomes, Refusals
    <3>3. CASE Reply(handling.req, Refusal[handling.check])
      BY <2>7, <2>8, <3>1, <3>2, <3>3 DEF Check
    <3>4. CASE UNCHANGED resultsOut /\ \E c : handling' = [handling EXCEPT !.check = c]
      BY <2>8, <3>1, <3>4 DEF Check, Idle
    <3>5. QED
      BY <2>8, <3>3, <3>4 DEF Check
  <2>9. CASE Finish
    BY <2>7, <2>9 DEF Finish, Idle, Outcomes
  <2>10. CASE ChangePermissions
    BY <2>10 DEF ChangePermissions
  <2>11. CASE Restart
    BY <2>11 DEF Restart
  <2>12. CASE UNCHANGED vars
    BY <2>12 DEF vars
  <2>13. QED
    BY <2>1, <2>2, <2>3, <2>4, <2>5, <2>6, <2>8, <2>9, <2>10, <2>11, <2>12 DEF Next
<1>3. CallsInv => NothingLeftBehind
  BY DEF CallsInv
<1>4. QED
  BY <1>1, <1>2, <1>3, PTL DEF Spec

-----------------------------------------------------------------------------
\* A request is remembered from the moment its handling begins, and its command
\* is started by the last check of that handling only.
OnceInv ==
  /\ restarts \in Nat
  /\ seen \subseteq Requests
  /\ runs \in [Requests -> Nat]
  /\ handling # Idle =>
       /\ handling \in [req : Requests, check : {"enabled", "trust", "command", "running"}]
       /\ handling.req \in seen
       /\ handling.check # "running" => runs[handling.req] <= restarts
  /\ \A r \in Requests : runs[r] <= 1 + restarts /\ (r \notin seen => runs[r] <= restarts)

\* Below the cap, seen() forgets nothing.
LEMMA NothingForgotten ==
  ASSUME IsFiniteSet(Requests), Cardinality(Requests) <= SeenCap,
         seen \subseteq Requests, NEW r \in Requests, MarkSeen(r)
  PROVE  seen' = seen \cup {r}
<1>1. seen \cup {r} \in SUBSET Requests
  OBVIOUS
<1>2. Cardinality(seen \cup {r}) <= Cardinality(Requests)
  BY <1>1, FS_Subset
<1>3. Cardinality(seen \cup {r}) \in Nat /\ Cardinality(Requests) \in Nat
  BY <1>1, FS_Subset, FS_CardinalityType
<1>4. ~(Cardinality(seen \cup {r}) > SeenCap)
  BY <1>2, <1>3
<1>5. QED
  BY <1>4 DEF MarkSeen

\* No id is forgotten while no more requests are made than seen() remembers.
LEMMA Once ==
  ASSUME IsFiniteSet(Requests), Cardinality(Requests) <= SeenCap
  PROVE  Spec => []OnceInv
<1>1. Init => OnceInv
  BY DEF Init, OnceInv
<1>2. OnceInv /\ [Next]_vars => OnceInv'
  <2> SUFFICES ASSUME OnceInv, [Next]_vars PROVE OnceInv'
    OBVIOUS
  <2> USE DEF OnceInv, caller, relay, permissions
  <2>1. ASSUME NEW r \in Requests, NEW acked \in BOOLEAN, Receive(r, acked) PROVE OnceInv'
    <3>1. CASE Seen(r)
      BY <2>1, <3>1 DEF Receive
    <3>2. CASE ~Seen(r)
      <4>1. seen' = seen \cup {r}
        BY <2>1, <3>2, NothingForgotten DEF Receive
      <4>2. QED
        BY <2>1, <3>2, <4>1 DEF Receive, Seen
    <3>3. QED
      BY <3>1, <3>2
  <2>2. CASE Check
    <3>1. handling # Idle
      BY <2>2 DEF Check, Idle
    <3>2. CASE UNCHANGED runs /\ handling' = Idle
      BY <2>2, <3>2 DEF Check
    <3>3. CASE UNCHANGED runs /\ handling.check # "command"
               /\ handling' = [handling EXCEPT !.check = NextCheck[handling.check]]
      BY <2>2, <3>1, <3>3 DEF Check, NextCheck
    <3>4. CASE /\ handling' = [handling EXCEPT !.check = "running"]
               /\ runs' = [runs EXCEPT ![handling.req] = @ + 1]
      BY <2>2, <3>1, <3>4 DEF Check
    <3>5. QED
      BY <2>2, <3>2, <3>3, <3>4 DEF Check, Reply
  <2>3. CASE Finish
    BY <2>3 DEF Finish, Reply
  <2>4. CASE Restart
    BY <2>4 DEF Restart
  <2>5. CASE UNCHANGED <<seen, handling, runs, restarts>>
    BY <2>5
  <2>6. QED
    BY <2>1, <2>2, <2>3, <2>4, <2>5 DEF Next, vars, Register, SendRequest, StopWaiting, Return,
                                        DeliverResult, ChangePermissions
<1>3. QED
  BY <1>1, <1>2, PTL DEF Spec

\* As long as no more requests are made than seen() remembers, no redelivery runs
\* a command twice on one client, however often the client is made anew.
THEOREM AtMostOneRun ==
  ASSUME IsFiniteSet(Requests), Cardinality(Requests) <= SeenCap
  PROVE  Spec => []RunsOncePerClient
<1>1. OnceInv => RunsOncePerClient
  BY DEF OnceInv, RunsOncePerClient
<1>2. QED
  BY <1>1, Once, PTL

-----------------------------------------------------------------------------
\* What an answer for r, on its way or delivered, says.
Truth(r, outcome) ==
  /\ outcome \in {"ok", "error"} => runs[r] > 0
  /\ outcome \in Refusals /\ restarts = 0 => r \in seen /\ runs[r] = 0 /\ handling.req # r

AnswersInv ==
  /\ handling.check = "running" => runs[handling.req] > 0
  /\ \A m \in resultsOut : Truth(m.req, m.outcome)
  /\ \A r \in Requests : Truth(r, results[r]) /\ Truth(r, returned[r])
  /\ \A r \in Requests : r \in signalled /\ call[r] # "done" => results[r] # "none"
  /\ \A r \in Requests : call[r] = "answered" => r \in signalled
  /\ \A r \in Requests : call[r] = "done" => returned[r] # "none"

\* An outcome that is returned is true of the command, whatever is redelivered,
\* as long as no id is forgotten.
THEOREM TrueAnswers ==
  ASSUME IsFiniteSet(Requests), Cardinality(Requests) <= SeenCap
  PROVE  Spec => []AnswersAreTrue
<1>1. Init => AnswersInv
  BY DEF Init, AnswersInv, Truth, Refusals, Idle
<1>2. TypeOK /\ OnceInv /\ AnswersInv /\ [Next]_vars => AnswersInv'
  <2> SUFFICES ASSUME TypeOK, OnceInv, AnswersInv, [Next]_vars PROVE AnswersInv'
    OBVIOUS
  <2> USE DEF AnswersInv, caller, relay, permissions
  <2>1. ASSUME UNCHANGED <<caller, seen, handling, runs, restarts>>, UNCHANGED resultsOut
        PROVE  AnswersInv'
    BY <2>1 DEF Truth
  <2>2. ASSUME NEW r \in Requests, Register(r) \/ SendRequest(r) \/ StopWaiting(r) \/ Return(r)
        PROVE  AnswersInv'
    <3>1. CASE Register(r)
      BY <3>1 DEF Register, Truth, TypeOK
    <3>2. CASE SendRequest(r)
      BY <3>2 DEF SendRequest, Truth, TypeOK
    <3>3. CASE StopWaiting(r)
      BY <3>3 DEF StopWaiting, WaitEnds, Truth, TypeOK
    <3>4. CASE Return(r)
      <4>1. UNCHANGED <<signalled, resultsOut, seen, handling, runs, restarts>>
        BY <3>4 DEF Return
      <4>2. ASSUME NEW q \in Requests, NEW o, Truth(q, o) PROVE Truth(q, o)'
        BY <4>1, <4>2 DEF Truth
      <4>3. Truth(r, "none") /\ Truth(r, "timeout")
        BY DEF Truth, Refusals
      <4>4. call' = [call EXCEPT ![r] = "done"] /\ results' = [results EXCEPT ![r] = "none"]
        BY <3>4 DEF Return, Pop
      <4>5. \A q \in Requests :
              \/ returned'[q] = returned[q]
              \/ q = r /\ returned'[q] = "timeout"
              \/ q = r /\ returned'[q] = results[q] /\ results[q] # "none"
        BY <3>4 DEF Return, TypeOK
      <4>6. returned'[r] # "none"
        BY <3>4 DEF Return, TypeOK
      <4>7. QED
        BY <4>1, <4>2, <4>3, <4>4, <4>5, <4>6 DEF TypeOK
    <3>5. QED
      BY <2>2, <3>1, <3>2, <3>3, <3>4
  <2>3. ASSUME NEW m \in resultsOut, NEW acked \in BOOLEAN, DeliverResult(m, acked)
        PROVE  AnswersInv'
    <3>1. m.req \in Requests /\ m.outcome \in Outcomes /\ m.outcome # "none" /\ Truth(m.req, m.outcome)
      BY DEF TypeOK, Outcomes, Refusals
    <3>2. UNCHANGED <<call, returned, seen, handling, runs, restarts>> /\ resultsOut' \subseteq resultsOut
      BY <2>3 DEF DeliverResult
    <3>3. ASSUME NEW q \in Requests, NEW o, Truth(q, o) PROVE Truth(q, o)'
      BY <3>2, <3>3 DEF Truth
    <3>4. \A q \in Requests : results'[q] = results[q] \/ (q = m.req /\ results'[q] = m.outcome)
      BY <2>3, <3>1 DEF DeliverResult, TypeOK
    <3>5. \A q \in signalled' : q \in signalled \/ (q = m.req /\ results'[q] = m.outcome)
      BY <2>3, <3>1 DEF DeliverResult, TypeOK
    <3>6. signalled \subseteq signalled'
      BY <2>3 DEF DeliverResult
    <3>7. QED
      BY <3>1, <3>2, <3>3, <3>4, <3>5, <3>6 DEF TypeOK
  <2>4. ASSUME NEW r \in Requests, NEW acked \in BOOLEAN, Receive(r, acked) PROVE AnswersInv'
    <3>1. CASE Seen(r)
      BY <2>1, <2>4, <3>1 DEF Receive
    <3>2. CASE ~Seen(r)
      <4>1. seen' = seen \cup {r} /\ r \notin seen /\ handling' = [req |-> r, check |-> "enabled"]
        BY <2>4, <3>2, NothingForgotten DEF Receive, OnceInv, Seen
      <4>2. UNCHANGED <<caller, resultsOut, runs, restarts>>
        BY <2>4 DEF Receive
      <4>3. ASSUME NEW q \in Requests, NEW o, Truth(q, o) PROVE Truth(q, o)'
        BY <4>1, <4>2, <4>3 DEF Truth
      <4>4. QED
        BY <4>1, <4>2, <4>3 DEF TypeOK
    <3>3. QED
      BY <3>1, <3>2
  <2>5. CASE Check
    <3>1. /\ handling \in [req : Requests, check : {"enabled", "trust", "command", "running"}]
          /\ handling.check # "running" /\ UNCHANGED <<caller, seen, restarts>>
      BY <2>5 DEF Check, Idle, TypeOK
    <3>2. CASE Reply(handling.req, Refusal[handling.check]) /\ UNCHANGED runs
      <4>1. ASSUME NEW q \in Requests, NEW o, Truth(q, o) PROVE Truth(q, o)'
        BY <3>1, <3>2, <4>1 DEF Reply, Truth, Idle
      <4>2. PICK r \in Requests, c \in {"enabled", "trust", "command"} :
              r = handling.req /\ c = handling.check
        BY <3>1
      <4>3. Refusal[c] \in Refusals /\ Refusal[c] \notin {"ok", "error"}
        BY DEF Refusal, Refusals
      <4>4. r \in seen /\ (restarts = 0 => runs[r] = 0) /\ handling'.req # r
        BY <3>1, <3>2, <4>2 DEF Reply, OnceInv, TypeOK, Idle
      <4>5. Truth(r, Refusal[c])'
        BY <3>1, <3>2, <4>3, <4>4 DEF Truth, Refusal
      <4>6. resultsOut' = resultsOut \cup {[req |-> r, outcome |-> Refusal[c]]} /\ handling' = Idle
        BY <3>2, <4>2 DEF Reply
      <4>7. QED
        BY <3>1, <3>2, <4>1, <4>5, <4>6 DEF TypeOK, Idle
    <3>3. CASE /\ handling.check # "command" /\ UNCHANGED <<resultsOut, runs>>
               /\ handling' = [handling EXCEPT !.check = NextCheck[handling.check]]
      BY <3>1, <3>3 DEF Truth, NextCheck
    <3>4. CASE /\ handling' = [handling EXCEPT !.check = "running"] /\ UNCHANGED resultsOut
               /\ runs' = [runs EXCEPT ![handling.req] = @ + 1]
      <4>1. ASSUME NEW q \in Requests, NEW o, Truth(q, o) PROVE Truth(q, o)'
        BY <3>1, <3>4, <4>1 DEF Truth, TypeOK
      <4>2. QED
        BY <3>1, <3>4, <4>1 DEF TypeOK
    <3>5. QED
      BY <2>5, <3>2, <3>3, <3>4 DEF Check
  <2>6. CASE Finish
    <3>1. handling.req \in Requests /\ handling.check = "running"
          /\ UNCHANGED <<caller, seen, runs, restarts>>
      BY <2>6 DEF Finish, Idle, TypeOK
    <3>2. PICK r \in Requests, o \in {"ok", "error"} : r = handling.req /\ Reply(r, o)
      BY <2>6, <3>1 DEF Finish
    <3>3. ASSUME NEW q \in Requests, NEW p, Truth(q, p) PROVE Truth(q, p)'
      BY <3>1, <3>2, <3>3 DEF Reply, Truth, Idle
    <3>4. Truth(r, o)'
      BY <3>1, <3>2 DEF Reply, Truth, Refusals
    <3>5. QED
      BY <3>1, <3>2, <3>3, <3>4 DEF Reply, TypeOK, Idle
  <2>7. CASE Restart
    <3>1. restarts' # 0 /\ handling' = Idle /\ UNCHANGED <<caller, resultsOut, runs>>
      BY <2>7 DEF Restart, TypeOK
    <3>2. QED
      BY <3>1 DEF Truth, TypeOK, Idle
  <2>8. QED
    BY <2>1, <2>2, <2>3, <2>4, <2>5, <2>6, <2>7 DEF Next, vars, ChangePermissions
<1>3. TypeOK /\ AnswersInv => AnswersAreTrue
  BY DEF TypeOK, AnswersInv, AnswersAreTrue, Truth, Refusals
<1>4. QED
  BY <1>1, <1>2, <1>3, TypeCorrect, Once, PTL DEF Spec
=============================================================================
