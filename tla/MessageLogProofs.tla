-------------------------- MODULE MessageLogProofs --------------------------
(***************************************************************************)
(* Proofs about MessageLog: type correctness; windows agree with their     *)
(* history, for texts and for files in windows that stay open; without     *)
(* retention limits a deletion is final; in a window that stays open no    *)
(* edit takes its text back.                                               *)
(***************************************************************************)
EXTENDS MessageLog, FiniteSetTheorems, TLAPS

USE AuthorAssumption, SetupsAssumption, BoundsAssumption DEF fixed

\* The number of edits published is a natural number.
LEMMA EditsType == TypeOK => Edits \in Nat
<1> SUFFICES ASSUME TypeOK PROVE Edits \in Nat
  OBVIOUS
<1> DEFINE E == {i \in DOMAIN log : log[i].op = "edit"}
<1>1. Len(log) \in Nat /\ DOMAIN log = 1 .. Len(log)
  BY DEF TypeOK
<1>2. IsFiniteSet(1 .. Len(log))
  BY <1>1, FS_Interval
<1>3. E \subseteq 1 .. Len(log)
  BY <1>1
<1>4. IsFiniteSet(E)
  BY <1>2, <1>3, FS_Subset
<1>5. Cardinality(E) \in Nat
  BY <1>4, FS_CardinalityType
<1> QED BY <1>5 DEF Edits

\* A row that history writes has the type of a row, and so do the bubbles made
\* from rows.
LEMMA RowsType ==
  ASSUME TypeOK, NEW w \in Windows
  PROVE  /\ Remembered(w) \subseteq Rows
         /\ RowDeleted(w) \in Rows /\ RowHidden(w) \in Rows /\ Absent \in Rows
         /\ Loaded(w) \in Bubbles /\ ShowDeleted(w) \in Bubbles /\ None \in Bubbles
         /\ Shown(0) \in Bubbles
         /\ \A v \in 0 .. MaxEdits :
              /\ RowEdited(w, v) \in Rows
              /\ [st |-> "shown", ver |-> v, edited_ts |-> v] \in Bubbles
<1>1. row[w] \in Rows
  BY DEF TypeOK
<1>2. 0 \in 0 .. MaxEdits
  OBVIOUS
<1>3. Absent \in Rows /\ Deleted \in Rows /\ Hidden \in Rows /\ \A v \in 0 .. MaxEdits : Text(v) \in Rows
  BY <1>2 DEF Absent, Deleted, Hidden, Text, Rows
<1>4. Remembered(w) \subseteq Rows
  BY <1>1, <1>2, <1>3 DEF Remembered
<1>5. RowDeleted(w) \in Rows /\ RowHidden(w) \in Rows /\ \A v \in 0 .. MaxEdits : RowEdited(w, v) \in Rows
  BY <1>1, <1>3 DEF RowEdited, RowDeleted, RowHidden
<1>6. None \in Bubbles /\ Marker \in Bubbles /\ Shown(0) \in Bubbles /\ Shown(row[w].ver) \in Bubbles
  BY <1>1, <1>2 DEF None, Marker, Shown, Rows, Bubbles
<1>7. Loaded(w) \in Bubbles /\ ShowDeleted(w) \in Bubbles
  BY <1>6 DEF Loaded, ShowDeleted
<1>8. \A v \in 0 .. MaxEdits : [st |-> "shown", ver |-> v, edited_ts |-> v] \in Bubbles
  BY DEF Bubbles
<1> QED BY <1>3, <1>4, <1>5, <1>6, <1>7, <1>8

\* What the handlers of edits and deletions do to a window stays in its type.
LEMMA ApplyType ==
  ASSUME TypeOK, NEW w \in Windows
  PROVE  /\ \A v \in 0 .. MaxEdits :
              ApplyEdit(w, v) => bubble' \in [Windows -> Bubbles] /\ row' \in [Windows -> Rows]
         /\ ApplyDelete(w) => /\ bubble' \in [Windows -> Bubbles] /\ row' \in [Windows -> Rows]
                              /\ gone' \subseteq Windows
<1>1. ASSUME NEW v \in 0 .. MaxEdits, ApplyEdit(w, v)
      PROVE  bubble' \in [Windows -> Bubbles] /\ row' \in [Windows -> Rows]
  <2>1. /\ RowEdited(w, v) \in Rows
        /\ [st |-> "shown", ver |-> v, edited_ts |-> v] \in Bubbles
    BY RowsType
  <2>2. bubble \in [Windows -> Bubbles] /\ row \in [Windows -> Rows]
    BY DEF TypeOK
  <2> QED BY <1>1, <2>1, <2>2 DEF ApplyEdit
<1>2. ASSUME ApplyDelete(w)
      PROVE  /\ bubble' \in [Windows -> Bubbles] /\ row' \in [Windows -> Rows]
             /\ gone' \subseteq Windows
  <2>1. RowDeleted(w) \in Rows /\ ShowDeleted(w) \in Bubbles
    BY RowsType
  <2>2. bubble \in [Windows -> Bubbles] /\ row \in [Windows -> Rows] /\ gone \subseteq Windows
    BY DEF TypeOK
  <2> QED BY <1>2, <2>1, <2>2 DEF ApplyDelete
<1> QED BY <1>1, <1>2

\* Type correctness, for any windows, flags and bounds.
THEOREM TypeCorrect == Spec => []TypeOK
<1>1. Init => TypeOK
  <2> SUFFICES ASSUME Init PROVE TypeOK
    OBVIOUS
  <2>1. None \in Bubbles /\ Absent \in Rows
    BY DEF None, Absent, Bubbles, Rows
  <2>2. <<>> \in Seq(Changes)
    OBVIOUS
  <2> QED BY <2>1, <2>2 DEF Init, TypeOK
<1>2. TypeOK /\ [Next]_vars => TypeOK'
  <2> SUFFICES ASSUME TypeOK, [Next]_vars PROVE TypeOK'
    OBVIOUS
  <2>0. 0 \in 0 .. MaxEdits
    OBVIOUS
  <2>1. CASE Send
    <3>1. Create \in Changes
      BY <2>0 DEF Create, Change, Changes
    <3>2. log' \in Seq(Changes) /\ Len(log') = 1 /\ Len(log) = 0
      BY <2>1, <3>1 DEF Send
    <3>3. bubble' \in [Windows -> Bubbles] /\ row' \in [Windows -> Rows]
      BY <2>1, RowsType DEF Send, TypeOK
    <3> QED BY <2>1, <3>2, <3>3 DEF Send, TypeOK
  <2>2. CASE SendEdit
    <3>1. Edits + 1 \in 0 .. MaxEdits
      BY <2>2, EditsType DEF SendEdit
    <3>2. Change("edit", Edits + 1) \in Changes
      BY <3>1 DEF Change, Changes
    <3>3. log' \in Seq(Changes) /\ Len(log') = Len(log) + 1
      BY <2>2, <3>2 DEF SendEdit, TypeOK
    <3> QED BY <2>2, <3>1, <3>3, ApplyType DEF SendEdit, TypeOK
  <2>3. CASE DeleteForEveryone
    <3>1. Delete \in Changes
      BY <2>0 DEF Delete, Change, Changes
    <3>2. log' \in Seq(Changes) /\ Len(log') = Len(log) + 1
      BY <2>3, <3>1 DEF DeleteForEveryone, TypeOK
    <3> QED BY <2>3, <2>0, <3>2, ApplyType DEF DeleteForEveryone, TypeOK
  <2>4. ASSUME NEW w \in Windows, DeleteForMe(w) PROVE TypeOK'
    BY <2>4, <2>0, RowsType DEF DeleteForMe, TypeOK, relay
  <2>5. ASSUME NEW w \in Windows, Prune(w) PROVE TypeOK'
    BY <2>5, <2>0, RowsType DEF Prune, TypeOK, relay
  <2>6. ASSUME NEW w \in Windows, Handle(w) PROVE TypeOK'
    <3> DEFINE c == Head(idle[w])
    <3>1. idle[w] \in Seq(Changes) /\ idle[w] # <<>>
      BY <2>6 DEF Handle, TypeOK
    <3>2. c \in Changes /\ Tail(idle[w]) \in Seq(Changes)
      BY <3>1
    <3>3. c.ver \in 0 .. MaxEdits
      BY <3>2 DEF Changes
    <3>4. AppendLater \in Changes
      BY <2>0 DEF AppendLater, Change, Changes
    <3>5. Tail(idle[w]) \o <<AppendLater>> \in Seq(Changes)
      BY <3>2, <3>4
    <3>6. UNCHANGED <<fixed, relay, losses>>
      BY <2>6 DEF Handle
    <3>7. CASE CreateText(w)
      BY <3>7, <3>2, <3>6, <2>0, RowsType DEF CreateText, TypeOK, relay
    <3>8. CASE CreateFile(w)
      BY <3>8, <3>2, <3>5, <3>6, <2>0, RowsType DEF CreateFile, TypeOK, relay
    <3>9. CASE AppendFile(w)
      BY <3>9, <3>2, <3>6, <2>0, RowsType DEF AppendFile, TypeOK, relay
    <3>10. CASE /\ ApplyEdit(w, c.ver)
                /\ idle' = [idle EXCEPT ![w] = Tail(@)]
                /\ UNCHANGED <<finished, gone>>
      BY <3>10, <3>2, <3>3, <3>6, ApplyType DEF TypeOK, relay
    <3>11. CASE /\ ApplyDelete(w)
                /\ idle' = [idle EXCEPT ![w] = Tail(@)]
                /\ UNCHANGED finished
      BY <3>11, <3>2, <3>3, <3>6, ApplyType DEF TypeOK, relay
    <3> QED BY <2>6, <3>7, <3>8, <3>9, <3>10, <3>11 DEF Handle
  <2>7. ASSUME NEW w \in Windows, Receive(w) PROVE TypeOK'
    <3>1. log[next[w] + 1] \in Changes
      BY <2>7 DEF Receive, TypeOK
    <3>2. idle[w] \o <<log[next[w] + 1]>> \in Seq(Changes)
      BY <3>1 DEF TypeOK
    <3> QED BY <2>7, <3>2 DEF Receive, TypeOK
  <2>8. ASSUME NEW w \in Windows, LoseConnection(w) PROVE TypeOK'
    BY <2>8 DEF LoseConnection, TypeOK
  <2>9. ASSUME NEW w \in Windows, Connect(w) PROVE TypeOK'
    <3>1. PICK n \in acked[w] .. next[w] : next' = [next EXCEPT ![w] = n] /\ acked' = [acked EXCEPT ![w] = n]
      BY <2>9 DEF Connect
    <3>2. n \in Nat /\ n <= Len(log)
      BY <3>1 DEF TypeOK
    <3> QED BY <2>9, <3>1, <3>2 DEF Connect, TypeOK
  <2>10. ASSUME NEW w \in Windows, Restart(w) PROVE TypeOK'
    <3>1. <<>> \in Seq(Changes)
      OBVIOUS
    <3> QED BY <2>10, <2>0, <3>1, RowsType DEF Restart, TypeOK
  <2>11. CASE UNCHANGED vars
    BY <2>11 DEF vars, relay, TypeOK
  <2> QED BY <2>1, <2>2, <2>3, <2>4, <2>5, <2>6, <2>7, <2>8, <2>9, <2>10, <2>11 DEF Next
<1> QED BY <1>1, <1>2, PTL DEF Spec

-----------------------------------------------------------------------------
(* Files: the callback that appends a bubble, and what precedes it.        *)

\* A file is shown and deleted in windows that stay open.  One redelivered
\* after a restart is appended whatever history says (gui.py:1967), so that
\* neither theorem below holds of it.
FilesStay == \A s \in Setups : s.file => ~s.restarts

\* The positions in w's main loop of callbacks that append a file's bubble.
Appends(w) == {i \in 1 .. Len(idle[w]) : idle[w][i].op = "append"}

Waiting(w) == Appends(w) # {}

Untouched(w) == bubble[w] = None /\ row[w] = Absent /\ w \notin gone /\ ~Waiting(w)

\* A file's bubble is appended once, by a callback of its own, in a window that
\* has received it and shows nothing of it yet; a window that has not received
\* it, and an author who has not sent it, know nothing of it.
AppendedOnce(w) == \A i, j \in Appends(w) : idle[w][i] = AppendLater /\ i = j

FilesAt(w) ==
  /\ AppendedOnce(w)
  /\ Waiting(w) => /\ file /\ w \in finished /\ w # Author
                   /\ bubble[w] = None /\ row[w] \in {Text(0), Absent} /\ w \notin gone
  /\ file /\ (IF w = Author THEN log = <<>> ELSE w \notin finished) => Untouched(w)

Files ==
  /\ \A i \in 1 .. Len(log) : log[i].op # "append"
  /\ \A w \in Windows : FilesAt(w)

\* A callback that appends nothing leaves the others where they are.
LEMMA AppendsQueued ==
  ASSUME NEW w \in Windows, idle[w] \in Seq(Changes),
         NEW c \in Changes, c.op # "append", idle'[w] = idle[w] \o <<c>>
  PROVE  /\ Appends(w)' = Appends(w)
         /\ \A i \in Appends(w) : idle'[w][i] = idle[w][i]
BY DEF Appends

\* Once the callback at the head is called, the others move up by one.
LEMMA AppendsHandled ==
  ASSUME NEW w \in Windows, idle[w] \in Seq(Changes), idle[w] # <<>>, idle'[w] = Tail(idle[w])
  PROVE  /\ \A i \in Appends(w)' : i + 1 \in Appends(w) /\ idle'[w][i] = idle[w][i + 1]
         /\ Head(idle[w]).op = "append" => 1 \in Appends(w)
         /\ Head(idle[w]).op # "append" => (Waiting(w) => Waiting(w)')
<1>1. /\ Len(idle[w]) \in Nat /\ Len(idle[w]) > 0 /\ Len(Tail(idle[w])) = Len(idle[w]) - 1
      /\ \A i \in 1 .. Len(idle[w]) - 1 : Tail(idle[w])[i] = idle[w][i + 1]
      /\ Head(idle[w]) = idle[w][1]
  OBVIOUS
<1>2. \A i \in Appends(w)' : i + 1 \in Appends(w) /\ idle'[w][i] = idle[w][i + 1]
  BY <1>1 DEF Appends
<1>3. Head(idle[w]).op = "append" => 1 \in Appends(w)
  BY <1>1 DEF Appends
<1>4. ASSUME Head(idle[w]).op # "append", NEW i \in Appends(w) PROVE i - 1 \in Appends(w)'
  <2>1. i \in 1 .. Len(idle[w]) /\ idle[w][i].op = "append"
    BY DEF Appends
  <2>2. i # 1 /\ i - 1 \in 1 .. Len(idle[w]) - 1 /\ (i - 1) + 1 = i
    BY <1>1, <1>4, <2>1
  <2>3. Tail(idle[w])[i - 1] = idle[w][i]
    BY <1>1, <2>2
  <2>4. i - 1 \in 1 .. Len(Tail(idle[w])) /\ Tail(idle[w])[i - 1].op = "append"
    BY <1>1, <2>1, <2>2, <2>3
  <2> QED BY <2>4 DEF Appends
<1> QED BY <1>2, <1>3, <1>4 DEF Waiting

\* The callback that appends a file goes behind those that do not.
LEMMA AppendsLast ==
  ASSUME NEW w \in Windows, idle[w] \in Seq(Changes), idle[w] # <<>>, ~Waiting(w),
         idle'[w] = Tail(idle[w]) \o <<AppendLater>>
  PROVE  /\ Appends(w)' = {Len(idle[w])}
         /\ idle'[w][Len(idle[w])] = AppendLater
<1> DEFINE n == Len(idle[w])
           q == Tail(idle[w]) \o <<AppendLater>>
<1>1. /\ n \in Nat /\ n > 0 /\ Len(q) = n
      /\ \A i \in 1 .. n - 1 : q[i] = idle[w][i + 1]
      /\ q[n] = AppendLater
  OBVIOUS
<1>2. \A i \in 1 .. n - 1 : q[i].op # "append"
  BY <1>1 DEF Waiting, Appends
<1>3. AppendLater.op = "append"
  BY DEF AppendLater, Change
<1> HIDE DEF q
<1>4. idle'[w] = q
  BY DEF q
<1>5. \A i \in 1 .. n : q[i].op = "append" <=> i = n
  BY <1>1, <1>2, <1>3
<1>6. Appends(w)' = {i \in 1 .. n : q[i].op = "append"}
  BY <1>1, <1>4 DEF Appends
<1>7. Appends(w)' = {n}
  BY <1>1, <1>5, <1>6
<1> QED BY <1>1, <1>4, <1>7
\* Nothing changed at w.
Same(w) ==
  /\ idle'[w] = idle[w] /\ bubble'[w] = bubble[w] /\ row'[w] = row[w]
  /\ w \in gone' <=> w \in gone
  /\ w \in finished' <=> w \in finished

\* A step that leaves a window alone leaves its waiting callbacks sound.
LEMMA SameFiles ==
  ASSUME NEW w \in Windows, FilesAt(w), Same(w), file' = file,
         log' = <<>> => log = <<>>
  PROVE  FilesAt(w)'
<1>1. Appends(w)' = Appends(w) /\ Waiting(w)' = Waiting(w)
  BY DEF Appends, Waiting, Same
<1>2. Untouched(w) => Untouched(w)'
  BY <1>1 DEF Untouched, Same
<1> QED BY <1>1, <1>2 DEF FilesAt, Same, AppendedOnce

\* What the topic carries: no callbacks of a window.
LEMMA LogStep ==
  ASSUME TypeOK, \A i \in 1 .. Len(log) : log[i].op # "append", [Next]_vars
  PROVE  /\ \A i \in 1 .. Len(log') : log'[i].op # "append"
         /\ log' = <<>> => log = <<>>
<1>1. ASSUME NEW c, c.op # "append", log' = log \o <<c>>
      PROVE  /\ \A i \in 1 .. Len(log') : log'[i].op # "append"
             /\ log' # <<>>
  <2>1. /\ Len(log') = Len(log) + 1 /\ Len(log) \in Nat
        /\ \A i \in 1 .. Len(log') : log'[i] = IF i = Len(log) + 1 THEN c ELSE log[i]
    BY <1>1 DEF TypeOK
  <2>2. \A i \in 1 .. Len(log') : log'[i].op # "append"
    BY <1>1, <2>1
  <2>3. log' # <<>>
    BY <2>1
  <2> QED BY <2>2, <2>3
<1>2. CASE Send
  <2>1. log' = <<Create>> /\ Create.op # "append"
    BY <1>2 DEF Send, Create, Change
  <2> QED BY <2>1
<1>3. CASE SendEdit
  <2>1. Change("edit", Edits + 1).op # "append"
    BY DEF Change
  <2> QED BY <1>1, <1>3, <2>1 DEF SendEdit
<1>4. CASE DeleteForEveryone
  <2>1. Delete.op # "append"
    BY DEF Delete, Change
  <2> QED BY <1>1, <1>4, <2>1 DEF DeleteForEveryone
<1>5. CASE log' = log
  BY <1>5
<1> QED BY <1>2, <1>3, <1>4, <1>5
        DEF Next, vars, relay, Handle, Receive, DeleteForMe, Prune, LoseConnection, Connect, Restart

\* A callback that shows, changes or takes away what w shows.
LEMMA HandleFiles ==
  ASSUME TypeOK, NEW w \in Windows, FilesAt(w), Handle(w)
  PROVE  FilesAt(w)'
<1> DEFINE c == Head(idle[w])
<1>1. /\ idle[w] \in Seq(Changes) /\ idle[w] # <<>>
      /\ file' = file /\ log' = log
      /\ w \in DOMAIN bubble /\ w \in DOMAIN row /\ w \in DOMAIN idle
  BY DEF Handle, TypeOK, relay
<1>2. ASSUME idle'[w] = Tail(idle[w])
      PROVE  AppendedOnce(w)' /\ (Waiting(w)' => Waiting(w))
  <2>1. \A i \in Appends(w)' : i \in Int /\ i + 1 \in Appends(w) /\ idle'[w][i] = idle[w][i + 1]
    BY <1>1, <1>2, AppendsHandled DEF Appends
  <2>2. Waiting(w)' => Waiting(w)
    BY <2>1 DEF Waiting
  <2>3. ASSUME NEW i \in Appends(w)', NEW j \in Appends(w)' PROVE idle'[w][i] = AppendLater /\ i = j
    <3>1. i \in Int /\ j \in Int /\ i + 1 = j + 1 /\ idle'[w][i] = AppendLater
      BY <2>1 DEF FilesAt, AppendedOnce
    <3> QED BY <3>1
  <2> QED BY <2>2, <2>3 DEF AppendedOnce
<1>3. CASE CreateFile(w) /\ w # Author /\ w \notin finished
  <2>1. Untouched(w)
    BY <1>3 DEF FilesAt, CreateFile
  <2>2. PICK r \in Remembered(w) : row' = [row EXCEPT ![w] = r]
    BY <1>3 DEF CreateFile, HasFile
  <2>3. r \in {Text(0), Absent}
    BY <2>1, <2>2 DEF Remembered, Untouched
  <2>4. /\ idle'[w] = Tail(idle[w]) \o <<AppendLater>>
        /\ w \in finished' /\ bubble'[w] = None /\ w \notin gone' /\ row'[w] = r /\ file'
    BY <1>1, <1>3, <2>1, <2>2 DEF CreateFile, HasFile, Untouched
  <2>5. Appends(w)' = {Len(idle[w])} /\ idle'[w][Len(idle[w])] = AppendLater
    BY <1>1, <2>1, <2>4, AppendsLast DEF Untouched
  <2> QED BY <1>3, <2>3, <2>4, <2>5 DEF FilesAt, AppendedOnce
<1>4. CASE CreateFile(w) /\ (w = Author \/ w \in finished)
  <2>1. /\ idle'[w] = Tail(idle[w])
        /\ UNCHANGED <<bubble, row, finished, gone>>
    BY <1>1, <1>4 DEF CreateFile, HasFile
  <2>2. Untouched(w) => Untouched(w)'
    BY <1>2, <2>1 DEF Untouched
  <2>3. AppendedOnce(w)' /\ (Waiting(w)' => Waiting(w))
    BY <1>2, <2>1
  <2> QED BY <1>1, <2>1, <2>2, <2>3 DEF FilesAt
<1>5. CASE CreateText(w)
  <2>1. ~file' /\ idle'[w] = Tail(idle[w])
    BY <1>1, <1>5 DEF CreateText
  <2> QED BY <1>1, <1>2, <2>1 DEF FilesAt
<1>6. CASE c.op = "append" /\ AppendFile(w)
  <2>1. 1 \in Appends(w) /\ idle'[w] = Tail(idle[w])
    BY <1>1, <1>6, AppendsHandled DEF AppendFile
  <2>2. ~Waiting(w)'
    <3>1. \A i \in Appends(w)' : i \in 1 .. Len(idle'[w]) /\ i + 1 \in Appends(w)
      BY <1>1, <2>1, AppendsHandled DEF Appends
    <3>2. \A i \in Appends(w)' : i + 1 = 1
      BY <2>1, <3>1 DEF FilesAt, AppendedOnce
    <3> QED BY <3>1, <3>2 DEF Waiting
  <2>3. file /\ w \in finished' /\ w # Author
    BY <1>6, <2>1 DEF FilesAt, Waiting, AppendFile
  <2> QED BY <1>2, <2>1, <2>2, <2>3 DEF FilesAt
<1>7. ASSUME idle'[w] = Tail(idle[w]), finished' = finished,
             \/ bubble[w].st # "shown" /\ bubble'[w] = bubble[w] /\ row'[w] = row[w] /\ gone' = gone
             \/ bubble[w].st = "shown"
             \/ UNCHANGED <<bubble, row, gone>>
      PROVE  FilesAt(w)'
  <2>1. CASE bubble'[w] = bubble[w] /\ row'[w] = row[w] /\ gone' = gone
    <3>1. Untouched(w) => Untouched(w)'
      BY <1>2, <1>7, <2>1 DEF Untouched
    <3> QED BY <1>1, <1>2, <1>7, <2>1, <3>1 DEF FilesAt
  <2>2. CASE bubble[w].st = "shown"
    <3>1. bubble[w] # None
      BY <2>2 DEF None
    <3>2. ~Waiting(w) /\ ~Untouched(w)
      BY <3>1 DEF FilesAt, Untouched
    <3> QED BY <1>1, <1>2, <1>7, <3>2 DEF FilesAt
  <2> QED BY <1>7, <2>1, <2>2
<1>8. CASE ApplyEdit(w, c.ver) /\ idle' = [idle EXCEPT ![w] = Tail(@)] /\ UNCHANGED <<finished, gone>>
  BY <1>1, <1>7, <1>8 DEF ApplyEdit
<1>9. CASE ApplyDelete(w) /\ idle' = [idle EXCEPT ![w] = Tail(@)] /\ UNCHANGED finished
  BY <1>1, <1>7, <1>9 DEF ApplyDelete
<1> QED BY <1>3, <1>4, <1>5, <1>6, <1>8, <1>9 DEF Handle, CreateFile

\* A handler changes nothing at the other windows.
LEMMA HandleSame ==
  ASSUME TypeOK, NEW w \in Windows, Handle(w), NEW u \in Windows, u # w
  PROVE  Same(u)
<1> USE DEF TypeOK, Same
<1>1. CASE CreateText(w)
  BY <1>1 DEF CreateText
<1>2. CASE CreateFile(w)
  BY <1>2 DEF CreateFile
<1>3. CASE AppendFile(w)
  BY <1>3 DEF AppendFile
<1>4. ASSUME NEW v, ApplyEdit(w, v), idle' = [idle EXCEPT ![w] = Tail(@)], UNCHANGED <<finished, gone>>
      PROVE  Same(u)
  BY <1>4 DEF ApplyEdit
<1>5. ASSUME ApplyDelete(w), idle' = [idle EXCEPT ![w] = Tail(@)], UNCHANGED finished
      PROVE  Same(u)
  BY <1>5 DEF ApplyDelete
<1> QED BY <1>1, <1>2, <1>3, <1>4, <1>5 DEF Handle

\* What the users and the relay do keeps the order of files and their bubbles.
LEMMA FilesStep ==
  ASSUME TypeOK, Files, ~(file /\ restarts), [Next]_vars
  PROVE  Files'
<1>1. /\ \A i \in 1 .. Len(log') : log'[i].op # "append"
      /\ log' = <<>> => log = <<>>
  BY LogStep DEF Files
<1>2. file' = file
  BY DEF Next, vars, Send, SendEdit, DeleteForEveryone, DeleteForMe, Prune, Handle, Receive,
         LoseConnection, Connect, Restart
<1>3. ASSUME NEW w \in Windows, Same(w) PROVE FilesAt(w)'
  BY <1>1, <1>2, <1>3, SameFiles DEF Files
<1>4. ASSUME NEW w \in Windows, \A u \in Windows : u # w => Same(u),
             idle'[w] = idle[w], \/ ~file \/ w = Author \/ bubble[w].st = "shown",
             w = Author => log' # <<>>, finished' = finished
      PROVE  \A u \in Windows : FilesAt(u)'
  <2>1. FilesAt(w)
    BY DEF Files
  <2>2. ~Waiting(w)
    BY <1>4, <2>1 DEF FilesAt, None
  <2>3. Appends(w)' = Appends(w)
    BY <1>4 DEF Appends
  <2>4. ~(file /\ (IF w = Author THEN log' = <<>> ELSE w \notin finished))
    BY <1>4, <2>1 DEF FilesAt, Untouched, None
  <2>5. FilesAt(w)'
    BY <1>2, <1>4, <2>2, <2>3, <2>4 DEF FilesAt, Waiting, AppendedOnce
  <2> QED BY <1>3, <1>4, <2>5
<1>5. ASSUME NEW c, log' = log \o <<c>> PROVE log' # <<>>
  BY <1>5 DEF TypeOK
<1>6. CASE Send
  <2>1. log' # <<>>
    BY <1>6 DEF Send
  <2>2. \A u \in Windows : u # Author => Same(u)
    BY <1>6 DEF Send, Same, TypeOK
  <2> QED BY <1>1, <1>4, <1>6, <2>1, <2>2 DEF Send, Files
<1>7. CASE SendEdit
  <2>1. \A u \in Windows : u # Author => Same(u)
    BY <1>7 DEF SendEdit, ApplyEdit, Same, TypeOK
  <2>2. log' # <<>>
    BY <1>5, <1>7 DEF SendEdit
  <2> QED BY <1>1, <1>4, <1>7, <2>1, <2>2 DEF SendEdit, Files
<1>8. CASE DeleteForEveryone
  <2>1. \A u \in Windows : u # Author => Same(u)
    BY <1>8 DEF DeleteForEveryone, ApplyDelete, Same, TypeOK
  <2>2. log' # <<>>
    BY <1>5, <1>8 DEF DeleteForEveryone
  <2> QED BY <1>1, <1>4, <1>8, <2>1, <2>2 DEF DeleteForEveryone, Files
<1>9. ASSUME NEW w \in Windows, DeleteForMe(w) PROVE Files'
  <2>1. \A u \in Windows : u # w => Same(u)
    BY <1>9 DEF DeleteForMe, Same, TypeOK
  <2>2. CASE w = Author /\ log = <<>> /\ file
    BY <1>9, <2>2 DEF DeleteForMe, Files, FilesAt, Untouched, None
  <2>3. CASE ~(w = Author /\ log = <<>> /\ file)
    <3>1. bubble[w] # None
      BY <1>9 DEF DeleteForMe, None
    <3>2. ~Waiting(w) /\ ~Untouched(w) /\ FilesAt(w)
      BY <3>1 DEF Files, FilesAt, Untouched
    <3>3. Appends(w)' = Appends(w) /\ finished' = finished /\ log' = log
      BY <1>9 DEF Appends, DeleteForMe, relay
    <3>4. FilesAt(w)'
      BY <1>2, <3>2, <3>3 DEF FilesAt, Waiting, AppendedOnce
    <3> QED BY <1>1, <1>3, <2>1, <3>4 DEF Files
  <2> QED BY <2>2, <2>3
<1>10. ASSUME NEW w \in Windows, Prune(w) PROVE Files'
  <2>1. \A u \in Windows : u # w => Same(u)
    BY <1>10 DEF Prune, Same, TypeOK
  <2>2. /\ Appends(w)' = Appends(w) /\ row'[w] = Absent /\ log' = log
        /\ UNCHANGED <<idle, bubble, finished, gone>>
    BY <1>10 DEF Appends, Prune, TypeOK, relay
  <2>3. Untouched(w) => Untouched(w)'
    BY <2>2 DEF Untouched, Waiting
  <2>4. FilesAt(w)'
    BY <1>2, <2>2, <2>3 DEF Files, FilesAt, Waiting, AppendedOnce
  <2> QED BY <1>1, <1>3, <2>1, <2>4 DEF Files
<1>11. ASSUME NEW w \in Windows, Handle(w) PROVE Files'
  BY <1>1, <1>3, <1>11, HandleFiles, HandleSame DEF Files
<1>12. ASSUME NEW w \in Windows, Receive(w) PROVE Files'
  <2> DEFINE c == log[next[w] + 1]
  <2>1. next[w] + 1 \in 1 .. Len(log)
    BY <1>12 DEF Receive, TypeOK
  <2>2. c \in Changes /\ c.op # "append" /\ idle[w] \in Seq(Changes)
    BY <2>1 DEF Files, TypeOK
  <2>3. /\ idle'[w] = idle[w] \o <<c>> /\ UNCHANGED <<log, bubble, row, finished, gone>>
        /\ \A u \in Windows : u # w => idle'[u] = idle[u]
    BY <1>12 DEF Receive, TypeOK
  <2> HIDE DEF c
  <2>4. Appends(w)' = Appends(w) /\ \A i \in Appends(w) : idle'[w][i] = idle[w][i]
    BY <2>2, <2>3, AppendsQueued
  <2>5. Untouched(w) => Untouched(w)'
    BY <2>3, <2>4 DEF Untouched, Waiting
  <2>6. FilesAt(w)'
    <3>1. FilesAt(w)
      BY DEF Files
    <3>2. AppendedOnce(w)'
      BY <2>4, <3>1 DEF FilesAt, AppendedOnce
    <3>3. Waiting(w)' = Waiting(w)
      BY <2>4 DEF Waiting
    <3> QED BY <1>2, <2>3, <2>5, <3>1, <3>2, <3>3 DEF FilesAt
  <2>7. \A u \in Windows : u # w => Same(u)
    BY <2>3 DEF Same
  <2> QED BY <1>1, <1>3, <2>6, <2>7 DEF Files
<1>13. ASSUME NEW w \in Windows, Restart(w) PROVE Files'
  <2>1. ~file /\ \A u \in Windows : u # w => Same(u)
    BY <1>13 DEF Restart, Same, TypeOK
  <2>2. idle'[w] = <<>>
    BY <1>13 DEF Restart, TypeOK
  <2>3. Appends(w)' = {}
    BY <2>2 DEF Appends
  <2>4. FilesAt(w)'
    BY <1>2, <2>1, <2>3 DEF FilesAt, Waiting, AppendedOnce
  <2> QED BY <1>1, <1>3, <2>1, <2>4 DEF Files
<1>14. ASSUME UNCHANGED <<idle, bubble, row, finished, gone>> PROVE Files'
  BY <1>1, <1>3, <1>14 DEF Files, Same
<1> QED BY <1>6, <1>7, <1>8, <1>9, <1>10, <1>11, <1>12, <1>13, <1>14
        DEF Next, vars, LoseConnection, Connect
-----------------------------------------------------------------------------
(* Windows and their history.                                              *)

\* A row and the bubble that a restart would make of it.
Matches(r, b) ==
  r # Absent =>
    /\ b.st = (IF r.kind = "text" THEN "shown" ELSE IF r.kind = "deleted" THEN "deleted" ELSE "none")
    /\ b.ver = (IF r.kind = "text" THEN r.ver ELSE 0)

MatchesAt(w) == ~Waiting(w) => Matches(row[w], bubble[w])

\* WindowMatchesHistory, of windows with no file to append.
Agree == \A w \in Windows : MatchesAt(w)

\* The effects of edits, deletions and the message itself on one window.
LEMMA EditMatches ==
  ASSUME TypeOK, NEW w \in Windows, NEW v, ApplyEdit(w, v), Matches(row[w], bubble[w])
  PROVE  Matches(row'[w], bubble'[w])
<1>1. CASE bubble[w].st = "shown" /\ Newer(w, v)
  <2>1. row[w] # Absent => row[w].kind = "text"
    BY <1>1 DEF Matches
  <2>2. Matches(RowEdited(w, v), [st |-> "shown", ver |-> v, edited_ts |-> v])
    BY <2>1 DEF Matches, RowEdited, Text
  <2>3. /\ bubble'[w] = [st |-> "shown", ver |-> v, edited_ts |-> v]
        /\ row'[w] = RowEdited(w, v)
    BY <1>1 DEF ApplyEdit, TypeOK
  <2> QED BY <2>2, <2>3
<1>2. CASE ~(bubble[w].st = "shown" /\ Newer(w, v))
  BY <1>2 DEF ApplyEdit
<1> QED BY <1>1, <1>2

\* A deletion that is handled marks bubble and row alike.
LEMMA DeleteMatches ==
  ASSUME TypeOK, NEW w \in Windows, ApplyDelete(w), Matches(row[w], bubble[w])
  PROVE  Matches(row'[w], bubble'[w])
<1>1. CASE bubble[w].st = "shown"
  <2>1. Matches(RowDeleted(w), ShowDeleted(w))
    BY DEF Matches, RowDeleted, ShowDeleted, Marker, None, Deleted
  <2>2. bubble'[w] = ShowDeleted(w) /\ row'[w] = RowDeleted(w)
    BY <1>1 DEF ApplyDelete, TypeOK
  <2> QED BY <2>1, <2>2
<1>2. CASE bubble[w].st # "shown"
  BY <1>2 DEF ApplyDelete
<1> QED BY <1>1, <1>2

\* A text that arrives, or comes again, is shown as its row is written.
LEMMA CreateMatches ==
  ASSUME TypeOK, NEW w \in Windows, CreateText(w), Matches(row[w], bubble[w])
  PROVE  Matches(row'[w], bubble'[w])
<1>1. CASE Seen(w)
  BY <1>1 DEF CreateText
<1>2. CASE ~Seen(w)
  <2>1. PICK r \in Remembered(w) : row' = [row EXCEPT ![w] = r]
    BY <1>2 DEF CreateText
  <2>2. r = Text(0) \/ r = Absent
    BY <1>2, <2>1 DEF Remembered, Seen
  <2>3. Matches(r, Shown(0))
    BY <2>2 DEF Matches, Text, Shown
  <2>4. bubble'[w] = Shown(0) /\ row'[w] = r
    BY <1>2, <2>1 DEF CreateText, TypeOK
  <2> QED BY <2>3, <2>4
<1> QED BY <1>1, <1>2

\* Handling a change keeps window and history in step.
LEMMA HandleMatches ==
  ASSUME TypeOK, Files, Agree, NEW w \in Windows, Handle(w)
  PROVE  MatchesAt(w)'
<1> DEFINE c == Head(idle[w])
<1>1. /\ idle[w] \in Seq(Changes) /\ idle[w] # <<>> /\ FilesAt(w) /\ MatchesAt(w)
      /\ idle \in [Windows -> Seq(Changes)]
  BY DEF Handle, TypeOK, Files, Agree
<1>2. ASSUME idle' = [idle EXCEPT ![w] = Tail(@)], c.op # "append",
             Matches(row[w], bubble[w]) => Matches(row'[w], bubble'[w])
      PROVE  MatchesAt(w)'
  <2>1. Waiting(w) => Waiting(w)'
    BY <1>1, <1>2, AppendsHandled
  <2> QED BY <1>1, <1>2, <2>1 DEF MatchesAt
<1>3. CASE c.op = "create" /\ CreateText(w)
  BY <1>2, <1>3, CreateMatches DEF CreateText
<1>4. CASE c.op = "create" /\ CreateFile(w)
  <2>1. CASE w = Author \/ HasFile(w)
    BY <1>2, <1>4, <2>1 DEF CreateFile
  <2>2. CASE ~(w = Author \/ HasFile(w))
    <3>1. ~Waiting(w) /\ idle'[w] = Tail(idle[w]) \o <<AppendLater>>
      BY <1>1, <1>4, <2>2 DEF CreateFile, HasFile, FilesAt, Untouched
    <3>2. Waiting(w)'
      BY <1>1, <3>1, AppendsLast DEF Waiting
    <3> QED BY <3>2 DEF MatchesAt
  <2> QED BY <2>1, <2>2
<1>5. CASE c.op = "append" /\ AppendFile(w)
  <2>1. Waiting(w)
    BY <1>1, <1>5, AppendsHandled DEF AppendFile, Waiting
  <2>2. row[w] \in {Text(0), Absent}
    BY <1>1, <2>1 DEF FilesAt
  <2>3. bubble'[w] = Shown(0) /\ row'[w] = row[w]
    BY <1>5 DEF AppendFile, TypeOK
  <2> QED BY <2>2, <2>3 DEF MatchesAt, Matches, Text, Shown
<1>6. CASE c.op = "edit" /\ ApplyEdit(w, c.ver) /\ idle' = [idle EXCEPT ![w] = Tail(@)]
  BY <1>2, <1>6, EditMatches
<1>7. CASE c.op = "delete" /\ ApplyDelete(w) /\ idle' = [idle EXCEPT ![w] = Tail(@)]
  BY <1>2, <1>7, DeleteMatches
<1> QED BY <1>3, <1>4, <1>5, <1>6, <1>7 DEF Handle

\* So does every step.
LEMMA AgreeStep ==
  ASSUME TypeOK, Files, Agree, [Next]_vars
  PROVE  Agree'
<1>1. ASSUME NEW w \in Windows, idle'[w] = idle[w], row'[w] = row[w], bubble'[w] = bubble[w]
      PROVE  MatchesAt(w)'
  <2>1. Waiting(w)' = Waiting(w)
    BY <1>1 DEF Waiting, Appends
  <2>2. MatchesAt(w)
    BY DEF Agree
  <2> QED BY <1>1, <2>1, <2>2 DEF MatchesAt
<1>2. ASSUME NEW w \in Windows, \A u \in Windows : u # w => Same(u),
             Waiting(w)' \/ Matches(row'[w], bubble'[w])
      PROVE  Agree'
  BY <1>1, <1>2 DEF Agree, MatchesAt, Same
<1>3. ASSUME NEW w \in Windows, bubble[w].st = "shown" PROVE ~Waiting(w) /\ Matches(row[w], bubble[w])
  BY <1>3 DEF Files, FilesAt, None, Agree, MatchesAt
<1>4. CASE Send
  <2>1. CASE file
    <3>1. row[Author] = Absent
      BY <1>4, <2>1 DEF Send, Files, FilesAt, Untouched
    <3>2. PICK r \in Remembered(Author) : row' = [row EXCEPT ![Author] = r]
      BY <1>4, <2>1 DEF Send
    <3>3. row'[Author] \in {Text(0), Absent} /\ bubble'[Author] = Shown(0)
      BY <1>4, <2>1, <3>1, <3>2 DEF Send, Remembered, TypeOK
    <3>4. \A u \in Windows : u # Author => Same(u)
      BY <1>4 DEF Send, Same, TypeOK
    <3>5. Matches(row'[Author], bubble'[Author])
      BY <3>3 DEF Matches, Text, Shown
    <3> QED BY <1>2, <3>4, <3>5
  <2>2. CASE ~file
    BY <1>1, <1>4, <2>2 DEF Send, Agree
  <2> QED BY <2>1, <2>2
<1>5. CASE SendEdit
  <2>1. \A u \in Windows : u # Author => Same(u)
    BY <1>5 DEF SendEdit, ApplyEdit, Same, TypeOK
  <2>2. Matches(row'[Author], bubble'[Author])
    BY <1>3, <1>5, EditMatches DEF SendEdit
  <2> QED BY <1>2, <2>1, <2>2
<1>6. CASE DeleteForEveryone
  <2>1. \A u \in Windows : u # Author => Same(u)
    BY <1>6 DEF DeleteForEveryone, ApplyDelete, Same, TypeOK
  <2>2. Matches(row'[Author], bubble'[Author])
    BY <1>3, <1>6, DeleteMatches DEF DeleteForEveryone
  <2> QED BY <1>2, <2>1, <2>2
<1>7. ASSUME NEW w \in Windows, DeleteForMe(w) PROVE Agree'
  <2>1. Matches(RowHidden(w), None)
    BY DEF Matches, RowHidden, None, Hidden
  <2>2. row'[w] = RowHidden(w) /\ bubble'[w] = None /\ \A u \in Windows : u # w => Same(u)
    BY <1>7 DEF DeleteForMe, Same, TypeOK
  <2> QED BY <1>2, <2>1, <2>2
<1>8. ASSUME NEW w \in Windows, Prune(w) PROVE Agree'
  <2>1. row'[w] = Absent /\ \A u \in Windows : u # w => Same(u)
    BY <1>8 DEF Prune, Same, TypeOK
  <2> QED BY <1>2, <2>1 DEF Matches
<1>9. ASSUME NEW w \in Windows, Handle(w) PROVE Agree'
  BY <1>1, <1>9, HandleMatches, HandleSame DEF Agree, Same
<1>10. ASSUME NEW w \in Windows, Receive(w) PROVE Agree'
  <2>1. Waiting(w) => Waiting(w)'
    <3> DEFINE c == log[next[w] + 1]
    <3>1. c \in Changes /\ idle[w] \in Seq(Changes) /\ idle'[w] = idle[w] \o <<c>>
      BY <1>10 DEF Receive, TypeOK
    <3> HIDE DEF c
    <3> QED BY <3>1 DEF Waiting, Appends
  <2>2. \A u \in Windows : u # w => Same(u)
    BY <1>10 DEF Receive, Same, TypeOK
  <2>3. Waiting(w)' \/ Matches(row'[w], bubble'[w])
    BY <1>10, <2>1 DEF Receive, Agree, MatchesAt
  <2> QED BY <1>2, <2>2, <2>3
<1>11. ASSUME NEW w \in Windows, Restart(w) PROVE Agree'
  <2>1. Matches(row[w], Loaded(w))
    BY DEF Matches, Loaded, Shown, Marker, None
  <2>2. row'[w] = row[w] /\ bubble'[w] = Loaded(w) /\ \A u \in Windows : u # w => Same(u)
    BY <1>11 DEF Restart, Same, TypeOK
  <2> QED BY <1>2, <2>1, <2>2
<1>12. CASE UNCHANGED <<idle, row, bubble>>
  BY <1>1, <1>12 DEF Agree
<1> QED BY <1>4, <1>5, <1>6, <1>7, <1>8, <1>9, <1>10, <1>11, <1>12
        DEF Next, vars, LoseConnection, Connect

\* The setup of a behaviour never changes.
LEMMA SetupIsFixed ==
  ASSUME [Next]_vars
  PROVE  UNCHANGED <<file, prunes, restarts>>
BY DEF Next, vars, Send, SendEdit, DeleteForEveryone, DeleteForMe, Prune, Handle, Receive,
       LoseConnection, Connect, Restart

\* The inductive invariant of windows where files come only while they stay
\* open.
AgreeInv == ~(file /\ restarts) => Files /\ Agree

\* Callbacks, bubbles and rows agree in every behaviour, unless a file meets
\* restarts.
LEMMA AgreeInvariant == Spec => []AgreeInv
<1>1. Init => AgreeInv
  <2> SUFFICES ASSUME Init PROVE Files /\ Agree
    BY DEF AgreeInv
  <2>1. /\ Len(log) = 0
        /\ \A w \in Windows : Len(idle[w]) = 0 /\ bubble[w] = None /\ row[w] = Absent /\ w \notin gone
    BY DEF Init
  <2>2. \A w \in Windows : Appends(w) = {}
    BY <2>1 DEF Appends
  <2> QED BY <2>1, <2>2 DEF Files, FilesAt, AppendedOnce, Waiting, Untouched, Agree, MatchesAt, Matches
<1>2. TypeOK /\ AgreeInv /\ [Next]_vars => AgreeInv'
  BY FilesStep, AgreeStep, SetupIsFixed DEF AgreeInv
<1> QED BY <1>1, <1>2, TypeCorrect, PTL DEF Spec

\* For a text, and for a file in windows that stay open, whatever is lost,
\* redelivered, pruned or restarted: a window shows what its history holds
\* (gui.py:2841, 2849, 2793).
THEOREM WindowsMatchHistory == ASSUME FilesStay PROVE Spec => []WindowMatchesHistory
<1>1. TypeOK /\ AgreeInv => WindowMatchesHistory
  <2> SUFFICES ASSUME TypeOK, Files, Agree, NEW w \in Windows, row[w] # Absent,
                      \A i \in DOMAIN idle[w] : idle[w][i] # AppendLater
               PROVE  bubble[w].st = Loaded(w).st /\ bubble[w].ver = Loaded(w).ver
    BY DEF TypeOK, FilesStay, AgreeInv, WindowMatchesHistory
  <2>1. idle[w] \in Seq(Changes) /\ DOMAIN idle[w] = 1 .. Len(idle[w])
    BY DEF TypeOK
  <2>2. ~Waiting(w)
    BY <2>1 DEF Files, FilesAt, AppendedOnce, Waiting, Appends
  <2>3. Matches(row[w], bubble[w])
    BY <2>2 DEF Agree, MatchesAt
  <2> QED BY <2>3 DEF Matches, Loaded, Shown, Marker, None
<1> QED BY <1>1, AgreeInvariant, TypeCorrect, PTL
-----------------------------------------------------------------------------
(* Deletions are final, unless retention drops the row.                    *)

\* A window shows nothing that history does not have, or has it to append; and a
\* deleted message has a row that says so.
Kept(w) ==
  /\ bubble[w].st # "none" \/ Waiting(w) => row[w] # Absent
  /\ w \in gone => row[w] \in {Deleted, Hidden}

AllKept == ~prunes => \A w \in Windows : Kept(w)

\* Deleting a row that is there leaves a row that says so.
LEMMA DeletedRow ==
  ASSUME NEW w \in Windows, row[w] # Absent
  PROVE  RowDeleted(w) = Deleted /\ RowHidden(w) = Hidden /\ Deleted # Absent /\ Hidden # Absent
BY DEF RowDeleted, RowHidden, Deleted, Hidden, Absent

\* A handled deletion keeps the row.
LEMMA DeleteKeeps ==
  ASSUME TypeOK, NEW w \in Windows, Kept(w), ApplyDelete(w), Waiting(w)' => Waiting(w)
  PROVE  Kept(w)'
<1>1. CASE bubble[w].st = "shown"
  <2>1. row[w] # Absent
    BY <1>1 DEF Kept
  <2>2. row'[w] = Deleted /\ Deleted # Absent
    BY <1>1, <2>1, DeletedRow DEF ApplyDelete, TypeOK
  <2> QED BY <2>2 DEF Kept
<1>2. CASE bubble[w].st # "shown"
  BY <1>2 DEF ApplyDelete, Kept
<1> QED BY <1>1, <1>2

\* An edit reaches neither a deleted message nor one that history lacks.
LEMMA EditKeeps ==
  ASSUME TypeOK, Files, Agree, NEW w \in Windows, Kept(w), NEW v, ApplyEdit(w, v), gone' = gone,
         Waiting(w)' => Waiting(w)
  PROVE  Kept(w)'
<1>1. CASE bubble[w].st = "shown" /\ Newer(w, v)
  <2>1. row[w] # Absent /\ ~Waiting(w)
    BY <1>1 DEF Kept, Files, FilesAt, None
  <2>2. row[w].kind = "text"
    BY <1>1, <2>1 DEF Agree, MatchesAt, Matches
  <2>3. row'[w] = Text(v) /\ Text(v) # Absent /\ row[w] \notin {Deleted, Hidden}
    BY <1>1, <2>2 DEF ApplyEdit, RowEdited, Text, Absent, Deleted, Hidden, TypeOK
  <2>4. w \notin gone'
    BY <2>3 DEF Kept
  <2> QED BY <2>3, <2>4 DEF Kept
<1>2. CASE ~(bubble[w].st = "shown" /\ Newer(w, v))
  BY <1>2 DEF ApplyEdit, Kept
<1> QED BY <1>1, <1>2

\* The first copy of a message is kept, as nothing was deleted before it.
LEMMA FirstCopy ==
  ASSUME NEW w \in Windows, Kept(w), ~prunes, row[w] = Absent,
         NEW r \in Remembered(w), row'[w] = r, gone' = gone
  PROVE  Kept(w)'
<1>1. w \notin gone
  BY DEF Kept, Absent, Deleted, Hidden
<1>2. r = Text(0) /\ Text(0) # Absent
  BY DEF Remembered, Text, Absent
<1> QED BY <1>1, <1>2 DEF Kept

\* A handler keeps the row that tells of a message, and a deletion in it.
LEMMA HandleKeeps ==
  ASSUME TypeOK, Files, Agree, ~prunes, NEW w \in Windows, Kept(w), Handle(w)
  PROVE  Kept(w)'
<1> DEFINE c == Head(idle[w])
<1>1. /\ idle[w] \in Seq(Changes) /\ idle[w] # <<>> /\ FilesAt(w)
      /\ idle \in [Windows -> Seq(Changes)] /\ row \in [Windows -> Rows]
  BY DEF Handle, TypeOK, Files
<1>2. ASSUME idle' = [idle EXCEPT ![w] = Tail(@)] PROVE Waiting(w)' => Waiting(w)
  BY <1>1, <1>2, AppendsHandled DEF Waiting
<1>3. CASE CreateText(w)
  <2>1. CASE Seen(w)
    BY <1>2, <1>3, <2>1 DEF CreateText, Kept
  <2>2. CASE ~Seen(w)
    BY <1>1, <1>3, <2>2, FirstCopy DEF CreateText, Seen
  <2> QED BY <2>1, <2>2
<1>4. CASE CreateFile(w)
  <2>1. CASE w = Author \/ HasFile(w)
    BY <1>2, <1>4, <2>1 DEF CreateFile, Kept
  <2>2. CASE ~(w = Author \/ HasFile(w))
    <3>1. row[w] = Absent
      BY <1>1, <1>4, <2>2 DEF CreateFile, HasFile, FilesAt, Untouched
    <3> QED BY <1>1, <1>4, <2>2, <3>1, FirstCopy DEF CreateFile
  <2> QED BY <2>1, <2>2
<1>5. CASE c.op = "append" /\ AppendFile(w)
  <2>1. Waiting(w)
    BY <1>1, <1>5, AppendsHandled DEF AppendFile, Waiting
  <2>2. row[w] # Absent /\ w \notin gone
    BY <1>1, <2>1 DEF FilesAt, Kept
  <2> QED BY <1>5, <2>2 DEF AppendFile, Kept
<1>6. CASE ApplyEdit(w, c.ver) /\ idle' = [idle EXCEPT ![w] = Tail(@)] /\ UNCHANGED <<finished, gone>>
  BY <1>2, <1>6, EditKeeps
<1>7. CASE ApplyDelete(w) /\ idle' = [idle EXCEPT ![w] = Tail(@)]
  BY <1>2, <1>7, DeleteKeeps
<1> QED BY <1>3, <1>4, <1>5, <1>6, <1>7 DEF Handle

\* Without retention every step preserves AllKept.
LEMMA KeptStep ==
  ASSUME TypeOK, Files, Agree, AllKept, [Next]_vars
  PROVE  AllKept'
<1> SUFFICES ASSUME ~prunes, \A w \in Windows : Kept(w) PROVE \A w \in Windows : Kept(w)'
  BY SetupIsFixed DEF AllKept
<1>1. ASSUME NEW w \in Windows, row'[w] = row[w], bubble'[w] = bubble[w], w \in gone' <=> w \in gone,
             Waiting(w)' => Waiting(w)
      PROVE  Kept(w)'
  BY <1>1 DEF Kept
<1>2. ASSUME NEW w \in Windows, \A u \in Windows : u # w => Same(u), Kept(w)'
      PROVE  \A u \in Windows : Kept(u)'
  <2>1. \A u \in Windows : Same(u) => Kept(u)'
    BY <1>1 DEF Same, Waiting, Appends
  <2> QED BY <1>2, <2>1
<1>3. CASE Send
  <2>1. CASE file
    <3>1. row[Author] = Absent
      BY <1>3, <2>1 DEF Send, Files, FilesAt, Untouched
    <3>2. PICK r \in Remembered(Author) : row' = [row EXCEPT ![Author] = r]
      BY <1>3, <2>1 DEF Send
    <3>3. row'[Author] = r /\ gone' = gone /\ \A u \in Windows : u # Author => Same(u)
      BY <1>3, <3>2 DEF Send, Same, TypeOK
    <3> QED BY <1>2, <3>1, <3>3, FirstCopy
  <2>2. CASE ~file
    BY <1>1, <1>3, <2>2 DEF Send, Waiting, Appends
  <2> QED BY <2>1, <2>2
<1>4. CASE SendEdit
  <2>1. /\ \A u \in Windows : u # Author => Same(u)
        /\ Waiting(Author)' => Waiting(Author)
    BY <1>4 DEF SendEdit, ApplyEdit, Same, TypeOK, Waiting, Appends
  <2> QED BY <1>2, <1>4, <2>1, EditKeeps DEF SendEdit
<1>5. CASE DeleteForEveryone
  <2>1. /\ \A u \in Windows : u # Author => Same(u)
        /\ Waiting(Author)' => Waiting(Author)
    BY <1>5 DEF DeleteForEveryone, ApplyDelete, Same, TypeOK, Waiting, Appends
  <2> QED BY <1>2, <1>5, <2>1, DeleteKeeps DEF DeleteForEveryone
<1>6. ASSUME NEW w \in Windows, DeleteForMe(w) PROVE \A u \in Windows : Kept(u)'
  <2>1. row[w] # Absent
    BY <1>6 DEF DeleteForMe, Kept
  <2>2. row'[w] = Hidden /\ Hidden # Absent
    BY <1>6, <2>1, DeletedRow DEF DeleteForMe, TypeOK
  <2>3. \A u \in Windows : u # w => Same(u)
    BY <1>6 DEF DeleteForMe, Same, TypeOK
  <2> QED BY <1>2, <2>2, <2>3 DEF Kept
<1>7. ASSUME NEW w \in Windows, Handle(w) PROVE \A u \in Windows : Kept(u)'
  BY <1>2, <1>7, HandleKeeps, HandleSame
<1>8. ASSUME NEW w \in Windows, Receive(w) PROVE \A u \in Windows : Kept(u)'
  <2> DEFINE c == log[next[w] + 1]
  <2>1. c \in Changes /\ c.op # "append" /\ idle[w] \in Seq(Changes) /\ idle'[w] = idle[w] \o <<c>>
    BY <1>8 DEF Receive, Files, TypeOK
  <2> HIDE DEF c
  <2>2. Waiting(w)' => Waiting(w)
    BY <2>1, AppendsQueued DEF Waiting
  <2>3. UNCHANGED <<row, bubble, gone>> /\ \A u \in Windows : u # w => Same(u)
    BY <1>8 DEF Receive, Same, TypeOK
  <2> QED BY <1>1, <1>2, <2>2, <2>3
<1>9. ASSUME NEW w \in Windows, Restart(w) PROVE \A u \in Windows : Kept(u)'
  <2>1. row[w] = Absent => Loaded(w).st = "none"
    BY DEF Loaded, Absent, None
  <2>2. /\ row' = row /\ gone' = gone /\ bubble'[w] = Loaded(w) /\ idle'[w] = <<>>
        /\ \A u \in Windows : u # w => Same(u)
    BY <1>9 DEF Restart, Same, TypeOK
  <2>3. ~Waiting(w)'
    BY <2>2 DEF Waiting, Appends
  <2>4. Kept(w)'
    BY <2>1, <2>2, <2>3 DEF Kept
  <2> QED BY <1>2, <2>2, <2>4
<1>10. CASE UNCHANGED <<idle, row, bubble, gone>>
  BY <1>1, <1>10 DEF Waiting, Appends
<1> QED BY <1>3, <1>4, <1>5, <1>6, <1>7, <1>8, <1>9, <1>10
        DEF Next, vars, Prune, LoseConnection, Connect

\* Where retention leaves the row alone, no redelivery, lost connection or
\* restart brings a deleted text back, and none a deleted file to a window that
\* stays open (gui.py:1650, history.py:172).
THEOREM DeletionsAreFinal == ASSUME FilesStay PROVE Spec => []DeletedStaysGone
<1>1. Init => AllKept
  <2> SUFFICES ASSUME Init, NEW w \in Windows PROVE Kept(w)
    BY DEF AllKept
  <2>1. Len(idle[w]) = 0 /\ bubble[w] = None /\ w \notin gone
    BY DEF Init
  <2> QED BY <2>1 DEF Kept, None, Waiting, Appends
<1>2. TypeOK /\ AgreeInv => Files /\ Agree
  BY DEF TypeOK, FilesStay, AgreeInv
<1>3. TypeOK /\ AgreeInv /\ AllKept /\ [Next]_vars => AllKept'
  BY <1>2, KeptStep
<1>4. TypeOK /\ AgreeInv /\ AllKept => DeletedStaysGone
  <2> SUFFICES ASSUME TypeOK, Files, Agree, \A w \in Windows : Kept(w), NEW w \in gone
               PROVE  bubble[w].st # "shown"
    BY <1>2 DEF DeletedStaysGone, AllKept
  <2>1. w \in Windows /\ row[w] \in {Deleted, Hidden}
    BY DEF TypeOK, Kept
  <2>2. row[w] # Absent /\ row[w].kind # "text" /\ ~Waiting(w)
    BY <2>1 DEF Deleted, Hidden, Absent, Files, FilesAt
  <2> QED BY <2>1, <2>2 DEF Agree, MatchesAt, Matches
<1> QED BY <1>1, <1>3, <1>4, TypeCorrect, AgreeInvariant, PTL DEF Spec

-----------------------------------------------------------------------------
(* Edits, in windows that stay open.                                       *)

\* The text a window shows is that of the edit whose ts it remembers.
InStep == ~restarts => \A w \in Windows : bubble[w].ver = bubble[w].edited_ts

\* Without restarts every step preserves InStep: only an edit changes the text,
\* and it sets edited_ts too.
LEMMA InStepStep ==
  ASSUME TypeOK, InStep, [Next]_vars
  PROVE  InStep'
<1> SUFFICES ASSUME ~restarts, \A w \in Windows : bubble[w].ver = bubble[w].edited_ts
             PROVE  \A w \in Windows : bubble'[w].ver = bubble'[w].edited_ts
  BY SetupIsFixed DEF InStep
<1>1. ASSUME NEW w \in Windows, NEW b, b.ver = b.edited_ts, bubble' = [bubble EXCEPT ![w] = b]
      PROVE  \A u \in Windows : bubble'[u].ver = bubble'[u].edited_ts
  BY <1>1 DEF TypeOK
<1>2. ASSUME NEW w \in Windows, NEW v, ApplyEdit(w, v)
      PROVE  \A u \in Windows : bubble'[u].ver = bubble'[u].edited_ts
  BY <1>1, <1>2 DEF ApplyEdit
<1>3. ASSUME NEW w \in Windows, ApplyDelete(w)
      PROVE  \A u \in Windows : bubble'[u].ver = bubble'[u].edited_ts
  BY <1>1, <1>3 DEF ApplyDelete, ShowDeleted, Marker, None
<1>4. Shown(0).ver = Shown(0).edited_ts /\ None.ver = None.edited_ts
  BY DEF Shown, None
<1>5. CASE Send
  BY <1>1, <1>4, <1>5 DEF Send
<1>6. ASSUME NEW w \in Windows, Handle(w)
      PROVE  \A u \in Windows : bubble'[u].ver = bubble'[u].edited_ts
  BY <1>1, <1>2, <1>3, <1>4, <1>6 DEF Handle, CreateText, CreateFile, AppendFile
<1>7. ASSUME NEW w \in Windows, DeleteForMe(w)
      PROVE  \A u \in Windows : bubble'[u].ver = bubble'[u].edited_ts
  BY <1>1, <1>4, <1>7 DEF DeleteForMe
<1>8. CASE bubble' = bubble
  BY <1>8
<1> QED BY <1>2, <1>3, <1>5, <1>6, <1>7, <1>8
        DEF Next, vars, SendEdit, DeleteForEveryone, Prune, Receive, LoseConnection, Connect, Restart

\* A window that stays open never shows an older text than it has shown.
LEMMA EditsGoOn ==
  ASSUME TypeOK, AgreeInv, InStep, Steady, [Next]_vars, NEW w \in Windows,
         bubble[w].st = "shown", bubble'[w].st = "shown"
  PROVE  bubble'[w].ver >= bubble[w].ver
<1>1. /\ ~restarts /\ Files /\ bubble[w].ver = bubble[w].edited_ts
      /\ bubble \in [Windows -> Bubbles] /\ bubble[w].ver \in Nat
  BY DEF Steady, AgreeInv, InStep, TypeOK, Bubbles
<1>2. bubble[w] # None /\ ~Waiting(w)
  BY <1>1 DEF None, Files, FilesAt
<1>3. CASE bubble'[w] = bubble[w]
  BY <1>1, <1>3
<1>4. ASSUME NEW u \in Windows, NEW v \in Nat, ApplyEdit(u, v) PROVE bubble'[w].ver >= bubble[w].ver
  <2>1. CASE bubble' = [bubble EXCEPT ![u] = [st |-> "shown", ver |-> v, edited_ts |-> v]] /\ Newer(u, v)
    BY <1>1, <2>1 DEF Newer
  <2> QED BY <1>3, <1>4, <2>1 DEF ApplyEdit
<1>5. ASSUME NEW u \in Windows, ApplyDelete(u) PROVE bubble'[w].ver >= bubble[w].ver
  <2>1. u # w \/ bubble' = bubble
    BY <1>1, <1>5 DEF ApplyDelete, ShowDeleted, Marker, None
  <2> QED BY <1>1, <1>3, <1>5, <2>1 DEF ApplyDelete
<1>6. ASSUME NEW u \in Windows, u # w, NEW b, bubble' = [bubble EXCEPT ![u] = b]
      PROVE  bubble'[w].ver >= bubble[w].ver
  BY <1>1, <1>3, <1>6
<1>7. CASE Send
  <2>1. file => w # Author
    BY <1>1, <1>2, <1>7 DEF Send, Files, FilesAt, Untouched
  <2> QED BY <1>3, <1>6, <1>7, <2>1 DEF Send
<1>8. CASE SendEdit
  <2>1. Edits + 1 \in Nat
    BY EditsType
  <2> QED BY <1>4, <1>8, <2>1 DEF SendEdit
<1>9. ASSUME NEW u \in Windows, Handle(u) PROVE bubble'[w].ver >= bubble[w].ver
  <2> DEFINE c == Head(idle[u])
  <2>1. idle[u] \in Seq(Changes) /\ idle[u] # <<>> /\ c.ver \in Nat
    <3>1. idle[u] \in Seq(Changes) /\ idle[u] # <<>>
      BY <1>9 DEF Handle, TypeOK
    <3>2. c \in Changes
      BY <3>1
    <3> QED BY <3>1, <3>2 DEF Changes
  <2>2. CASE CreateText(u)
    <3>1. CASE u = w
      BY <1>3, <2>2, <3>1 DEF CreateText, Seen
    <3> QED BY <1>3, <1>6, <2>2, <3>1 DEF CreateText
  <2>3. CASE CreateFile(u)
    BY <1>3, <2>3 DEF CreateFile
  <2>4. CASE c.op = "append" /\ AppendFile(u)
    <3>1. idle'[u] = Tail(idle[u])
      BY <2>4 DEF AppendFile, TypeOK
    <3>2. Waiting(u)
      BY <2>1, <2>4, <3>1, AppendsHandled DEF Waiting
    <3> QED BY <1>2, <1>6, <2>4, <3>2 DEF AppendFile
  <2>5. CASE ApplyEdit(u, c.ver)
    BY <1>4, <2>1, <2>5
  <2> QED BY <1>5, <1>9, <2>2, <2>3, <2>4, <2>5 DEF Handle
<1>10. ASSUME NEW u \in Windows, DeleteForMe(u) PROVE bubble'[w].ver >= bubble[w].ver
  <2>1. u # w
    BY <1>1, <1>10 DEF DeleteForMe, None
  <2> QED BY <1>6, <1>10, <2>1 DEF DeleteForMe
<1> QED BY <1>1, <1>3, <1>5, <1>7, <1>8, <1>9, <1>10
        DEF Next, vars, DeleteForEveryone, Prune, Receive, LoseConnection, Connect, Restart

\* As long as the windows stay open, no redelivered edit, echo or copy of the
\* message takes back a newer edit.
THEOREM EditsStay == Spec => EditsNeverGoBack
<1>1. Init => InStep
  BY DEF Init, InStep, None
<1>2. TypeOK /\ AgreeInv /\ InStep /\ [Next]_vars =>
        [Steady => \A w \in Windows :
           bubble[w].st = "shown" /\ bubble'[w].st = "shown" => bubble'[w].ver >= bubble[w].ver]_vars
  BY EditsGoOn
<1> QED BY <1>1, <1>2, TypeCorrect, AgreeInvariant, InStepStep, PTL DEF Spec, EditsNeverGoBack
=============================================================================
