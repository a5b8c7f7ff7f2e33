--------------------------- MODULE SettingsProofs ---------------------------
(***************************************************************************)
(* Settings.tla for any devices, networks, terminals, saves and commands:  *)
(* all Config objects of the window's process share one dictionary, and    *)
(* only a writer that had not read a change takes it back.                 *)
(***************************************************************************)
EXTENDS Settings, TLAPS

USE BoundsAssumption, NoFileAssumption DEF process

\* What load_config() makes of a file is a Config and a set of trusted devices.
LEMMA ReadTypes ==
  ASSUME NEW f \in Contents
  PROVE  Loaded(f) \in Objects /\ f.peers \in SUBSET Devices
BY DEF Loaded, Contents, Objects, Ids

\* What save_config() writes is a file's contents.
LEMMA WrittenType ==
  ASSUME NEW o \in Objects, NEW t \in [Ids -> SUBSET Devices]
  PROVE  Written(o, t) \in Contents
BY DEF Written, Contents, Objects

\* A command's change to a file's contents leaves contents of a file.
LEMMA ChangedType ==
  ASSUME NEW f \in Contents, NEW op \in Ops, NEW d \in Devices
  PROVE  Changed(f, op, d) \in Contents
BY DEF Changed, Contents, Ops

\* A process and a command exist only once there is a file, which nobody
\* removes.
FileInv ==
  /\ TypeOK
  /\ wanted = NoFile <=> file = NoFile
  /\ running => file # NoFile
  /\ \A s \in Shells : shell[s] # IdleShell =>
       file # NoFile /\ shell[s] \in [copy : Contents, op : Ops, dev : Devices]

\* What a save of the window's process leaves: the objects and dictionaries
\* after it have their types, and so has what is written.
LEMMA SavedTypes ==
  ASSUME FileInv, running, object' \in [Ids -> Objects], table' \in [Ids -> SUBSET Devices],
         NEW i \in Ids, SaveWindow(i), UNCHANGED <<running, shell, commands, starts>>,
         wanted' \in Contents,
         made' \in 0 .. MaxSaves + 1, cfg' \in Ids, handlerCfg' \in Ids, receiverCfg' \in Ids
  PROVE  FileInv'
<1>1. file' \in Contents
  BY WrittenType DEF SaveWindow
<1>2. stale' \in BOOLEAN
  BY DEF SaveWindow, FileInv, TypeOK
<1>3. TypeOK'
  BY <1>1, <1>2 DEF FileInv, TypeOK
<1>4. QED
  BY <1>1, <1>3 DEF FileInv

\* Every step preserves FileInv.
LEMMA FileStep ==
  ASSUME FileInv, [Next]_vars
  PROVE  FileInv'
<1> USE DEF FileInv
<1>1. CASE Start
  <2>1. file \in Contents /\ 1 \in Ids
    BY <1>1 DEF Start, TypeOK, Ids
  <2>2. object' \in [Ids -> Objects] /\ table' \in [Ids -> SUBSET Devices]
    BY <1>1, <2>1, ReadTypes DEF Start, TypeOK, Nobody
  <2>3. QED
    BY <1>1, <2>1, <2>2 DEF Start, TypeOK
<1>2. CASE Quit
  BY <1>2 DEF Quit, TypeOK
<1>3. ASSUME running PROVE wanted \in Contents /\ cfg \in Ids /\ object[cfg] \in Objects
  BY <1>3 DEF TypeOK
<1>4. ASSUME NEW n \in Networks, NEW p \in BOOLEAN, SaveSettings(n, p) PROVE FileInv'
  <2>1. made + 1 \in Ids /\ running
    BY <1>4 DEF SaveSettings, TypeOK, Ids
  <2>2. [object[cfg] EXCEPT !.net = n, !.pref = p] \in Objects
    BY <1>3, <2>1 DEF Objects
  <2>3. object' \in [Ids -> Objects] /\ table' \in [Ids -> SUBSET Devices]
    BY <1>4, <2>1, <2>2 DEF SaveSettings, Replaced, TypeOK
  <2>4. wanted' \in Contents
    BY <1>3, <1>4, <2>1 DEF SaveSettings, Contents
  <2>5. /\ made' \in 0 .. MaxSaves + 1 /\ cfg' \in Ids /\ handlerCfg' \in Ids /\ receiverCfg' \in Ids
        /\ SaveWindow(made + 1) /\ UNCHANGED <<running, shell, commands, starts>>
    BY <1>4, <2>1 DEF SaveSettings, TypeOK, Ids
  <2>6. QED
    BY <2>1, <2>3, <2>4, <2>5, SavedTypes
<1>5. ASSUME running, SaveWindow(cfg), UNCHANGED <<running, made, cfg, handlerCfg, receiverCfg, shell, commands, starts>>,
             object' \in [Ids -> Objects], table' \in [Ids -> SUBSET Devices], wanted' \in Contents
      PROVE  FileInv'
  <2>1. /\ made' \in 0 .. MaxSaves + 1 /\ cfg \in Ids
        /\ cfg' \in Ids /\ handlerCfg' \in Ids /\ receiverCfg' \in Ids
    BY <1>5 DEF TypeOK
  <2>2. QED
    BY <1>5, <2>1, SavedTypes
<1>6. ASSUME NEW on \in BOOLEAN, Toggle(on) PROVE FileInv'
  <2>1. running /\ [object[cfg] EXCEPT !.on = on] \in Objects
    BY <1>3, <1>6 DEF Toggle, Objects
  <2>2. object' = [object EXCEPT ![cfg] = [object[cfg] EXCEPT !.on = on]]
    BY <1>6 DEF Toggle
  <2>3. object' \in [Ids -> Objects] /\ table' \in [Ids -> SUBSET Devices] /\ wanted' \in Contents
    BY <1>3, <1>6, <2>1, <2>2 DEF Toggle, TypeOK, Contents
  <2>4. QED
    BY <1>5, <1>6, <2>1, <2>3 DEF Toggle
<1>7. ASSUME NEW peers \in SUBSET Devices, SetPeers(peers) PROVE FileInv'
  <2>1. object' \in [Ids -> Objects] /\ table' \in [Ids -> SUBSET Devices] /\ wanted' \in Contents
    BY <1>3, <1>7 DEF SetPeers, TypeOK, Contents
  <2>2. QED
    BY <1>5, <1>7, <2>1 DEF SetPeers
<1>8. ASSUME NEW d \in Devices, AddTrust(d) \/ RemoveTrust(d) PROVE FileInv'
  <2>1. running
    BY <1>8 DEF AddTrust, RemoveTrust, SetPeers
  <2>2. table[object[cfg].table] \in SUBSET Devices
    BY <1>3, <2>1 DEF TypeOK, Objects
  <2>3. QED
    BY <1>7, <1>8, <2>2 DEF AddTrust, RemoveTrust
<1>9. CASE ShowNotes
  <2>1. running /\ [object[cfg] EXCEPT !.seen = TRUE] \in Objects
    BY <1>3, <1>9 DEF ShowNotes, Objects
  <2>2. object' = [object EXCEPT ![cfg] = [object[cfg] EXCEPT !.seen = TRUE]]
    BY <1>9 DEF ShowNotes
  <2>3. object' \in [Ids -> Objects] /\ table' \in [Ids -> SUBSET Devices] /\ wanted' \in Contents
    <3>1. wanted' = [wanted EXCEPT !.seen = TRUE] /\ table' = table
      BY <1>9 DEF ShowNotes
    <3>2. wanted' \in Contents
      BY <1>3, <2>1, <3>1 DEF Contents
    <3>3. QED
      BY <1>3, <2>1, <2>2, <3>1, <3>2 DEF TypeOK
  <2>4. QED
    BY <1>5, <1>9, <2>1, <2>3 DEF ShowNotes
<1>10. ASSUME NEW s \in Shells, NEW op \in Ops, NEW d \in Devices, LoadCommand(s, op, d) PROVE FileInv'
  <2>1. file \in Contents
    BY <1>10 DEF LoadCommand, TypeOK
  <2>2. QED
    BY <1>10, <2>1 DEF LoadCommand, TypeOK
<1>11. ASSUME NEW s \in Shells, SaveCommand(s) PROVE FileInv'
  <2>1. shell[s] \in [copy : Contents, op : Ops, dev : Devices] /\ wanted \in Contents
    BY <1>11 DEF SaveCommand, TypeOK
  <2>2. file' \in Contents /\ wanted' \in Contents
    BY <1>11, <2>1, ChangedType DEF SaveCommand
  <2>3. QED
    BY <1>11, <2>2 DEF SaveCommand, TypeOK, IdleShell
<1>12. ASSUME NEW n \in Networks, Initialise(n) PROVE FileInv'
  <2>1. file' \in Contents /\ wanted' \in Contents
    BY <1>12 DEF Initialise, Contents
  <2>2. file' # NoFile /\ wanted' # NoFile
    BY <2>1
  <2>3. commands' \in 0 .. MaxCommands
    BY <1>12 DEF Initialise, TypeOK
  <2>4. UNCHANGED <<process, shell, stale, starts>>
    BY <1>12 DEF Initialise
  <2>5. TypeOK'
    BY <2>1, <2>3, <2>4 DEF TypeOK
  <2>6. QED
    BY <2>2, <2>4, <2>5
<1>13. CASE UNCHANGED vars
  BY <1>13 DEF vars, TypeOK
<1>14. QED
  BY <1>1, <1>2, <1>4, <1>6, <1>8, <1>9, <1>10, <1>11, <1>12, <1>13 DEF Next

\* FileInv holds in every behaviour.
LEMMA FileInvariant == Spec => []FileInv
<1>1. Init => FileInv
  <2> SUFFICES ASSUME Init PROVE FileInv
    OBVIOUS
  <2>1. 1 \in Ids /\ 0 \in 0 .. MaxSaves + 1
    BY DEF Ids
  <2>2. object \in [Ids -> Objects] /\ table \in [Ids -> SUBSET Devices]
    BY <2>1 DEF Init, Objects, Nobody
  <2>3. shell \in [Shells -> [copy : Contents \cup {NoFile}, op : Ops \cup {"none"}, dev : Devices \cup {"none"}]]
    BY DEF Init, IdleShell
  <2>4. commands \in 0 .. MaxCommands /\ starts \in 0 .. MaxStarts
    BY DEF Init
  <2>5. TypeOK
    BY <2>1, <2>2, <2>3, <2>4 DEF Init, TypeOK
  <2>6. QED
    BY <2>5 DEF Init, FileInv
<1>2. QED
  BY <1>1, FileStep, PTL DEF Spec

\* The file, the process and the terminals have their types, whoever saves.
THEOREM TypeCorrect == Spec => []TypeOK
BY FileInvariant, PTL DEF FileInv

-----------------------------------------------------------------------------
\* Every Config of the process refers to the dictionary it was loaded with.
SharedInv ==
  running => object[cfg].table = 1 /\ object[handlerCfg].table = 1

\* However often settings are saved, with or without new handlers, the window
\* and the handlers have the same dictionary of trusted devices.
THEOREM TrustIsShared == Spec => []TrustReachesHandlers
<1>1. Init => SharedInv
  BY DEF Init, SharedInv
<1>2. TypeOK /\ SharedInv /\ [Next]_vars => SharedInv'
  <2> SUFFICES ASSUME TypeOK, SharedInv, [Next]_vars PROVE SharedInv'
    OBVIOUS
  <2> USE DEF SharedInv, TypeOK
  <2>1. CASE Start
    BY <2>1 DEF Start, Loaded, Ids
  <2>2. ASSUME NEW n \in Networks, NEW p \in BOOLEAN, SaveSettings(n, p) PROVE SharedInv'
    <3>1. made + 1 \in Ids /\ running /\ object[cfg] \in Objects
      BY <2>2 DEF SaveSettings, Ids
    <3>2. object' = [object EXCEPT ![made + 1] = [object[cfg] EXCEPT !.net = n, !.pref = p]]
      BY <2>2 DEF SaveSettings, Replaced
    <3>3. [object[cfg] EXCEPT !.net = n, !.pref = p].table = 1
      BY <3>1 DEF Objects
    <3>4. \A i \in Ids : object[i].table = 1 => object'[i].table = 1
      BY <3>1, <3>2, <3>3
    <3>5. object'[made + 1].table = 1
      BY <3>1, <3>2, <3>3
    <3>6. cfg' = made + 1 /\ handlerCfg' \in {made + 1, handlerCfg}
      BY <2>2 DEF SaveSettings
    <3>7. QED
      BY <3>1, <3>4, <3>5, <3>6
  <2>3. ASSUME NEW on \in BOOLEAN, Toggle(on) PROVE SharedInv'
    BY <2>3 DEF Toggle, Objects
  <2>4. CASE ShowNotes
    BY <2>4 DEF ShowNotes, Objects
  <2>5. CASE running' = running /\ UNCHANGED <<object, cfg, handlerCfg>>
    BY <2>5
  <2>6. CASE Quit
    BY <2>6 DEF Quit
  <2>7. QED
    BY <2>1, <2>2, <2>3, <2>4, <2>5, <2>6
       DEF Next, vars, AddTrust, RemoveTrust, SetPeers, LoadCommand, SaveCommand, Initialise
<1>3. SharedInv => TrustReachesHandlers
  BY DEF SharedInv, TrustReachesHandlers
<1>4. QED
  BY <1>1, <1>2, <1>3, TypeCorrect, PTL DEF Spec

-----------------------------------------------------------------------------
\* Files that agree in every field are the same.
LEMMA SameContents ==
  ASSUME NEW f \in Contents, NEW g \in Contents,
         f.net = g.net, f.pref = g.pref, f.on = g.on, f.seen = g.seen, f.peers = g.peers
  PROVE  f = g
BY DEF Contents

\* A save whose writer held what the file said changes nothing else in it.
LEMMA SaveKeeps ==
  ASSUME FileInv, running, ~stale', file = wanted, NEW i \in Ids, SaveWindow(i)
  PROVE  /\ file' = Written(object'[i], table')
         /\ wanted = Written(object[cfg], table)
BY DEF SaveWindow, FileInv, TypeOK

\* The file says what was last asked for, whichever dialog, page or command
\* wrote it, until one of them writes over a change it had not read.
THEOREM ChangesStay == Spec => []ChangesAreKept
<1>1. Init => ChangesAreKept
  BY DEF Init, ChangesAreKept
<1>2. FileInv /\ ChangesAreKept /\ [Next]_vars => ChangesAreKept'
  <2> SUFFICES ASSUME FileInv, ChangesAreKept, [Next]_vars, ~stale' PROVE file' = wanted'
    BY DEF ChangesAreKept
  <2>1. ASSUME running PROVE object[cfg] \in Objects /\ cfg \in Ids /\ table \in [Ids -> SUBSET Devices]
    BY DEF FileInv, TypeOK
  <2>2. ASSUME ~stale PROVE file = wanted
    BY <2>2 DEF ChangesAreKept
  <2>3. ASSUME running, NEW i \in Ids, SaveWindow(i) PROVE /\ file' = Written(object'[i], table')
                                                      /\ wanted = Written(object[cfg], table)
                                                      /\ wanted \in Contents
    <3>1. ~stale
      BY <2>3 DEF SaveWindow
    <3>2. QED
      BY <2>2, <2>3, <3>1, SaveKeeps DEF FileInv, TypeOK
  <2>4. ASSUME running, file' \in Contents, wanted' \in Contents,
               file'.net = wanted'.net, file'.pref = wanted'.pref, file'.on = wanted'.on,
               file'.seen = wanted'.seen, file'.peers = wanted'.peers
        PROVE  file' = wanted'
    BY <2>4, SameContents
  <2>5. ASSUME running, running' PROVE file' \in Contents /\ wanted' \in Contents
    BY <2>5, FileStep DEF FileInv, TypeOK
  <2>6. ASSUME NEW n \in Networks, NEW p \in BOOLEAN, SaveSettings(n, p) PROVE file' = wanted'
    <3>1. /\ made + 1 \in Ids /\ running /\ running' /\ SaveWindow(made + 1)
          /\ object' = [object EXCEPT ![made + 1] = [object[cfg] EXCEPT !.net = n, !.pref = p]]
          /\ table' = table /\ wanted' = [wanted EXCEPT !.net = n, !.pref = p]
      BY <2>6 DEF SaveSettings, Replaced, FileInv, TypeOK, Ids
    <3>2. object'[made + 1] = [object[cfg] EXCEPT !.net = n, !.pref = p]
      BY <3>1 DEF FileInv, TypeOK
    <3>3. /\ object'[made + 1].net = n /\ object'[made + 1].pref = p
          /\ object'[made + 1].on = object[cfg].on /\ object'[made + 1].seen = object[cfg].seen
          /\ object'[made + 1].table = object[cfg].table
      BY <2>1, <3>1, <3>2 DEF Objects
    <3>4. /\ wanted'.net = n /\ wanted'.pref = p /\ wanted'.on = wanted.on /\ wanted'.seen = wanted.seen
          /\ wanted'.peers = wanted.peers
      BY <2>3, <3>1 DEF Contents
    <3>5. QED
      BY <2>3, <2>4, <2>5, <3>1, <3>3, <3>4 DEF Written
  <2>7. ASSUME NEW on \in BOOLEAN, Toggle(on) PROVE file' = wanted'
    <3>1. /\ cfg \in Ids /\ running /\ running' /\ SaveWindow(cfg)
          /\ object'[cfg] = [object[cfg] EXCEPT !.on = on] /\ table' = table
          /\ wanted' = [wanted EXCEPT !.on = on]
      BY <2>7 DEF Toggle, FileInv, TypeOK
    <3>2. QED
      BY <2>1, <2>3, <2>4, <2>5, <3>1 DEF Written, Objects, Contents
  <2>8. CASE ShowNotes
    <3>1. /\ cfg \in Ids /\ running /\ running' /\ SaveWindow(cfg)
          /\ object'[cfg] = [object[cfg] EXCEPT !.seen = TRUE] /\ table' = table
          /\ wanted' = [wanted EXCEPT !.seen = TRUE]
      BY <2>8 DEF ShowNotes, FileInv, TypeOK
    <3>2. QED
      BY <2>1, <2>3, <2>4, <2>5, <3>1 DEF Written, Objects, Contents
  <2>9. ASSUME NEW peers, SetPeers(peers) PROVE file' = wanted'
    <3>1. /\ cfg \in Ids /\ running /\ running' /\ SaveWindow(cfg)
          /\ object' = object /\ table'[object[cfg].table] = peers
          /\ wanted' = [wanted EXCEPT !.peers = peers]
      BY <2>1, <2>9 DEF SetPeers, FileInv, TypeOK, Objects
    <3>2. QED
      BY <2>1, <2>3, <2>4, <2>5, <3>1 DEF Written, Objects, Contents
  <2>10. ASSUME NEW s \in Shells, SaveCommand(s) PROVE file' = wanted'
    BY <2>2, <2>10 DEF SaveCommand
  <2>11. ASSUME NEW n \in Networks, Initialise(n) PROVE file' = wanted'
    BY <2>11 DEF Initialise
  <2>12. CASE UNCHANGED <<file, wanted, stale>>
    BY <2>2, <2>12
  <2>13. QED
    BY <2>6, <2>7, <2>8, <2>9, <2>10, <2>11, <2>12
       DEF Next, vars, Start, Quit, AddTrust, RemoveTrust, LoadCommand
<1>3. QED
  BY <1>1, <1>2, FileInvariant, PTL DEF Spec
=============================================================================
