--------------------------- MODULE TerminalProofs ---------------------------
(***************************************************************************)
(* The programs of the command line.  TerminalChat.tla for any limit,      *)
(* lines, events and losses: the transcript keeps its limit and each       *)
(* message once, and settles.  AgentMailbox.tla for any number of          *)
(* messages, senders and processes.                                        *)
(***************************************************************************)
EXTENDS TerminalChat, AgentMailbox, FiniteSetTheorems, SequenceTheorems, WellFoundedInduction, TLAPS

USE InterfacesAssumption, LimitAssumption, BoundsAssumption

\* A set of positions has a last one.
LEMMA Maximum ==
  ASSUME NEW n \in Nat, NEW S, S \subseteq 1 .. n, S # {}
  PROVE  \E m \in S : \A s \in S : s <= m
<1> DEFINE D == {n - s : s \in S}
<1>1. D \subseteq Nat
  OBVIOUS
<1>2. D # {}
  BY Zenon
<1> HIDE DEF D
<1> DEFINE R == OpToRel(<, Nat)
<1>3. IsWellFoundedOn(R, Nat)
  BY NatLessThanWellFounded
<1>5. \A d \in Nat, e \in Nat : <<e, d>> \in R <=> e < d
  BY DEF OpToRel
<1> HIDE DEF R
<1>4. PICK d \in D : \A e \in D : ~ (<<e, d>> \in R)
  BY <1>1, <1>2, <1>3, WFMin
<1>6. \A e \in D : d <= e
  <2> SUFFICES ASSUME NEW e \in D PROVE d <= e
    OBVIOUS
  <2>1. d \in Nat /\ e \in Nat /\ ~ (<<e, d>> \in R)
    BY <1>1, <1>4
  <2>2. ~ (e < d)
    BY <1>5, <2>1
  <2>3. QED
    BY <2>1, <2>2
<1>7. PICK m \in S : d = n - m
  BY DEF D
<1>8. \A s \in S : n - m <= n - s
  BY <1>6, <1>7 DEF D
<1>9. \A s \in S : s <= m
  BY <1>8
<1> QED BY <1>9

-----------------------------------------------------------------------------
(* What each method of Transcript does to the sequence.                    *)

\* t and u hold the same messages, at the same places.
SamePlaces(t, u) ==
  /\ Len(u) = Len(t)
  /\ \A i \in 1 .. Len(t) : u[i].id = t[i].id /\ u[i].from = t[i].from

Distinct(t) == \A i, j \in 1 .. Len(t) : t[i].id = t[j].id => i = j

\* set_text changes the text of the message it names, if it is there.
LEMMA WithTextShape ==
  ASSUME NEW t \in Seq(Entries), NEW id, NEW pos \in Nat \ {0}
  PROVE  /\ WithText(t, id, pos) \in Seq(Entries)
         /\ SamePlaces(t, WithText(t, id, pos))
         /\ \A i \in 1 .. Len(t) :
              /\ WithText(t, id, pos)[i].text = IF t[i].id = id THEN pos ELSE t[i].text
              /\ WithText(t, id, pos)[i].reacted = t[i].reacted
<1> DEFINE u == WithText(t, id, pos)
           n(i) == IF t[i].id = id THEN [t[i] EXCEPT !.text = pos] ELSE t[i]
<1>1. DOMAIN t = 1 .. Len(t) /\ \A i \in 1 .. Len(t) : t[i] \in Entries
  BY LenProperties, ElementOfSeq
<1>2. u = [i \in 1 .. Len(t) |-> n(i)]
  BY <1>1 DEF WithText
<1>3. \A i \in 1 .. Len(t) :
         /\ n(i) \in Entries /\ n(i).id = t[i].id /\ n(i).from = t[i].from
         /\ n(i).text = IF t[i].id = id THEN pos ELSE t[i].text
         /\ n(i).reacted = t[i].reacted
  BY <1>1 DEF Entries
<1> HIDE DEF n
<1>4. \A i \in 1 .. Len(t) : u[i] = n(i)
  BY <1>2
<1>5. u \in Seq(Entries) /\ Len(u) = Len(t)
  <2>1. Len(t) \in Nat
    BY LenProperties
  <2>2. u \in Seq(Entries)
    <3>1. \A i \in 1 .. Len(t) : n(i) \in Entries
      BY <1>3
    <3>2. QED
      BY <1>2, <2>1, <3>1
  <2>3. QED
    BY <1>2, <2>1, <2>2, LenProperties
<1> HIDE DEF u
<1>6. QED
  BY <1>3, <1>4, <1>5 DEF SamePlaces, u

\* u is t with a reaction of the device to message id, or without it.
ReactionMade(t, u, id, device, op) ==
  \A i \in 1 .. Len(t) :
    /\ u[i].text = t[i].text
    /\ t[i].id # id => u[i].reacted = t[i].reacted
    /\ t[i].id = id /\ op = "add" => u[i].reacted = t[i].reacted \cup {device}
    /\ t[i].id = id /\ op # "add" => u[i].reacted = t[i].reacted \ {device}

\* react adds or takes back a reaction to the message it names.
LEMMA WithReactionShape ==
  ASSUME NEW t \in Seq(Entries), NEW id, NEW device \in Devices, NEW op
  PROVE  LET u == WithReaction(t, id, device, op = "add") IN
         /\ u \in Seq(Entries)
         /\ SamePlaces(t, u)
         /\ ReactionMade(t, u, id, device, op)
<1> DEFINE present == op = "add"
           u == WithReaction(t, id, device, present)
           r(i) == IF t[i].id # id THEN t[i].reacted
                   ELSE IF present THEN t[i].reacted \cup {device} ELSE t[i].reacted \ {device}
           n(i) == IF t[i].id = id
                     THEN [t[i] EXCEPT !.reacted = IF present THEN @ \cup {device} ELSE @ \ {device}]
                     ELSE t[i]
<1> HIDE DEF present
<1>1. DOMAIN t = 1 .. Len(t) /\ \A i \in 1 .. Len(t) : t[i] \in Entries
  BY LenProperties, ElementOfSeq
<1>2. u = [i \in 1 .. Len(t) |-> n(i)]
  BY <1>1 DEF WithReaction
<1>3. \A i \in 1 .. Len(t) :
         /\ n(i) \in Entries /\ n(i).id = t[i].id /\ n(i).from = t[i].from
         /\ n(i).text = t[i].text
         /\ n(i).reacted = r(i)
  <2> SUFFICES ASSUME NEW i \in 1 .. Len(t)
               PROVE  /\ n(i) \in Entries /\ n(i).id = t[i].id /\ n(i).from = t[i].from
                      /\ n(i).text = t[i].text /\ n(i).reacted = r(i)
    OBVIOUS
  <2>1. t[i] \in Entries
    BY <1>1
  <2>2. CASE t[i].id = id /\ present
    BY <2>1, <2>2 DEF Entries
  <2>3. CASE t[i].id = id /\ ~present
    BY <2>1, <2>3 DEF Entries
  <2>4. CASE t[i].id # id
    BY <2>1, <2>4 DEF Entries
  <2>5. QED
    BY <2>2, <2>3, <2>4
<1> HIDE DEF n
<1>4. \A i \in 1 .. Len(t) : u[i] = n(i)
  BY <1>2
<1>5. u \in Seq(Entries) /\ Len(u) = Len(t)
  <2>1. Len(t) \in Nat
    BY LenProperties
  <2>2. u \in Seq(Entries)
    <3>1. \A i \in 1 .. Len(t) : n(i) \in Entries
      BY <1>3
    <3>2. QED
      BY <1>2, <2>1, <3>1
  <2>3. QED
    BY <1>2, <2>1, <2>2, LenProperties
<1> HIDE DEF u
<1>6. QED
  BY <1>3, <1>4, <1>5 DEF SamePlaces, ReactionMade, u, present

\* u is t without message id, the others in their order.
TakenOut(t, u, id) ==
  \E k \in 1 .. Len(t) :
    /\ t[k].id = id
    /\ \A i \in 1 .. Len(t) - 1 : u[i] = t[IF i < k THEN i ELSE i + 1]

\* forget takes one message out.
LEMMA ForgottenShape ==
  ASSUME NEW t \in Seq(Entries), NEW id, id \in Ids(t)
  PROVE  /\ Forgotten(t, id) \in Seq(Entries)
         /\ Len(Forgotten(t, id)) = Len(t) - 1
         /\ TakenOut(t, Forgotten(t, id), id)
<1> DEFINE k == CHOOSE i \in DOMAIN t : t[i].id = id
<1>1. k \in 1 .. Len(t) /\ t[k].id = id
  BY DEF Ids
<1> HIDE DEF k
<1>2. Forgotten(t, id) = SubSeq(t, 1, k - 1) \o SubSeq(t, k + 1, Len(t))
  BY DEF Forgotten, RemoveAt, k
<1> DEFINE a == SubSeq(t, 1, k - 1)
           b == SubSeq(t, k + 1, Len(t))
<1>3. a \in Seq(Entries) /\ Len(a) = k - 1 /\ \A i \in 1 .. k - 1 : a[i] = t[i]
  BY <1>1, SubSeqProperties
<1>4. b \in Seq(Entries) /\ Len(b) = Len(t) - k /\ \A i \in 1 .. Len(t) - k : b[i] = t[k + i]
  <2>1. \A i \in k + 1 .. Len(t) : t[i] \in Entries
    BY <1>1
  <2>2. /\ b \in Seq(Entries)
        /\ Len(b) = IF k + 1 <= Len(t) THEN Len(t) - (k + 1) + 1 ELSE 0
        /\ \A i \in 1 .. Len(t) - (k + 1) + 1 : b[i] = t[(k + 1) + i - 1]
    BY <1>1, <2>1, SubSeqProperties
  <2> HIDE DEF b
  <2>3. QED
    BY <1>1, <2>2
<1> HIDE DEF a, b
<1>5. /\ Forgotten(t, id) = a \o b /\ a \o b \in Seq(Entries) /\ Len(a \o b) = Len(a) + Len(b)
      /\ \A i \in 1 .. Len(a) + Len(b) : (a \o b)[i] = IF i <= Len(a) THEN a[i] ELSE b[i - Len(a)]
  BY <1>2, <1>3, <1>4, ConcatProperties DEF a, b
<1>6. Forgotten(t, id) \in Seq(Entries) /\ Len(Forgotten(t, id)) = Len(t) - 1
  BY <1>1, <1>3, <1>4, <1>5
<1>7. \A i \in 1 .. Len(t) - 1 : Forgotten(t, id)[i] = t[IF i < k THEN i ELSE i + 1]
  <2> SUFFICES ASSUME NEW i \in 1 .. Len(t) - 1
               PROVE  Forgotten(t, id)[i] = t[IF i < k THEN i ELSE i + 1]
    OBVIOUS
  <2>0. Len(t) \in Nat /\ i \in 1 .. Len(a) + Len(b)
    BY <1>1, <1>3, <1>4, LenProperties
  <2>1. CASE i < k
    BY <1>1, <1>3, <1>5, <2>0, <2>1
  <2>2. CASE i >= k
    <3>1. i - (k - 1) \in 1 .. Len(t) - k /\ k + (i - (k - 1)) = i + 1
      BY <1>1, <2>0, <2>2
    <3>2. Forgotten(t, id)[i] = b[i - (k - 1)]
      BY <1>1, <1>3, <1>5, <2>0, <2>2
    <3>3. QED
      BY <1>1, <1>4, <2>2, <3>1, <3>2
  <2>3. QED
    BY <1>1, <2>1, <2>2
<1>8. QED
  BY <1>1, <1>6, <1>7 DEF TakenOut

\* add of a message that is there replaces it in its place.
LEMMA AddedInPlace ==
  ASSUME NEW t \in Seq(Entries), NEW id, id \in Ids(t), Message(id) \in Entries,
         \A i \in 1 .. Len(t) : t[i].from = topic[t[i].id].by
  PROVE  /\ Added(t, id) \in Seq(Entries)
         /\ SamePlaces(t, Added(t, id))
         /\ \A i \in 1 .. Len(t) : Added(t, id)[i] = IF t[i].id = id THEN Message(id) ELSE t[i]
<1> DEFINE u == Added(t, id)
           n(i) == IF t[i].id = id THEN Message(id) ELSE t[i]
<1>1. DOMAIN t = 1 .. Len(t) /\ Len(t) \in Nat /\ \A i \in 1 .. Len(t) : t[i] \in Entries
  BY LenProperties, ElementOfSeq
<1>2. u = [i \in 1 .. Len(t) |-> n(i)]
  BY <1>1 DEF Added
<1>3. \A i \in 1 .. Len(t) : n(i) \in Entries /\ n(i).id = t[i].id /\ n(i).from = t[i].from
  <2>1. Message(id).id = id /\ Message(id).from = topic[id].by
    BY DEF Message
  <2>2. QED
    BY <1>1, <2>1
<1>4. \A i \in 1 .. Len(t) : u[i] = n(i)
  BY <1>2
<1> HIDE DEF n
<1>5. u \in Seq(Entries)
  <2>1. \A i \in 1 .. Len(t) : n(i) \in Entries
    BY <1>3
  <2>2. QED
    BY <1>1, <1>2, <2>1
<1>6. Len(u) = Len(t)
  BY <1>1, <1>2, <1>5, LenProperties
<1> HIDE DEF u
<1>7. QED
  BY <1>3, <1>4, <1>5, <1>6 DEF SamePlaces, u, n

\* How many are dropped when one is added.
Dropped(t) == IF Len(t) = Limit THEN 1 ELSE 0

\* add of a message that is not there puts it at the end, and drops the oldest
\* if there are too many.
LEMMA AddedAtEnd ==
  ASSUME NEW t \in Seq(Entries), Len(t) <= Limit, NEW id, id \notin Ids(t), Message(id) \in Entries
  PROVE  /\ Added(t, id) \in Seq(Entries)
         /\ Len(Added(t, id)) = Len(t) + 1 - Dropped(t)
         /\ \A i \in 1 .. Len(t) - Dropped(t) : Added(t, id)[i] = t[i + Dropped(t)]
         /\ Added(t, id)[Len(t) + 1 - Dropped(t)] = Message(id)
<1> DEFINE a == Append(t, Message(id))
<1>1. /\ Len(t) \in Nat /\ a \in Seq(Entries) /\ Len(a) = Len(t) + 1
      /\ \A i \in 1 .. Len(t) : a[i] = t[i]
      /\ a[Len(t) + 1] = Message(id)
  BY LenProperties, AppendProperties
<1> HIDE DEF a
<1>2. Added(t, id) = Evicted(a)
  BY DEF Added, a
<1>3. CASE Len(t) = Limit
  <2>1. Added(t, id) = Tail(a) /\ Dropped(t) = 1
    BY <1>1, <1>2, <1>3 DEF Evicted, Dropped
  <2>2. a # <<>>
    BY <1>1
  <2>3. Tail(a) \in Seq(Entries) /\ Len(Tail(a)) = Len(t) /\ \A i \in 1 .. Len(t) : Tail(a)[i] = a[i + 1]
    BY <1>1, <2>2, HeadTailProperties
  <2>4. \A i \in 1 .. Len(t) - 1 : Tail(a)[i] = t[i + 1]
    BY <1>1, <2>3
  <2>5. Len(t) >= 1 /\ Tail(a)[Len(t)] = Message(id)
    BY <1>1, <1>3, <2>3
  <2>6. QED
    BY <1>1, <2>1, <2>3, <2>4, <2>5
<1>4. CASE Len(t) # Limit
  <2>1. Added(t, id) = a /\ Dropped(t) = 0
    BY <1>1, <1>2, <1>4 DEF Evicted, Dropped
  <2>2. QED
    BY <1>1, <2>1
<1>5. QED
  BY <1>3, <1>4

-----------------------------------------------------------------------------
(* What every step does to the topic and the transcript.                   *)

\* A change is of a message before it on the topic, an edit or a deletion of a
\* message of the same device.
Fits(e, pos) ==
  /\ e.op = "text" => e.id = pos
  /\ e.op \in {"edit", "delete", "add", "remove"} => e.id \in 1 .. pos - 1 /\ topic[e.id].op = "text"
  /\ e.op \in {"edit", "delete"} => topic[e.id].by = e.by

Genuine == \A i \in 1 .. Len(topic) : Fits(topic[i], i)

Types ==
  /\ interface \in Interfaces
  /\ topic \in Seq(Events)
  /\ acked \in 0 .. next /\ next \in 0 .. Len(topic)
  /\ transcript \in Seq(Entries) /\ Len(transcript) <= Limit /\ Distinct(transcript)
  /\ net \in [at : {"idle", "calling", "ended"}, pos : 0 .. Len(topic)]
  /\ line \in [Workers -> [at : {"none", "target", "calling"}, mine : BOOLEAN, id : 0 .. Len(topic)]]
  /\ ui \in {"running", "publishing", "joining", "closed"}
  /\ losses \in 0 .. MaxLosses

\* What waits to be printed is what was delivered last.
Places == net.at = "calling" => net.pos = next /\ next > acked

\* The transcript's messages are on the topic, from whom it says.
Known ==
  \A i \in 1 .. Len(transcript) :
    /\ transcript[i].id \in 1 .. Len(topic)
    /\ topic[transcript[i].id].op = "text" /\ transcript[i].from = topic[transcript[i].id].by

\* A line is about to change a message of this device.
Targets ==
  \A w \in Workers :
    line[w].at = "target" /\ line[w].mine /\ line[w].id # 0 =>
      line[w].id \in 1 .. Len(topic) /\ topic[line[w].id].op = "text" /\ topic[line[w].id].by = "me"

BaseInv == Types /\ Genuine /\ Places /\ Known /\ Targets

\* How much of the topic the transcript has taken in.
Handled == IF net.at = "calling" /\ topic[net.pos].op = "text" THEN next - 1 ELSE next

\* What handling the event at pos makes of transcript t.
Effect(t, pos) == After(Before(t, pos), pos)

Publishes ==
  \E e \in Events :
    /\ topic' = Append(topic, e) /\ Fits(e, Len(topic) + 1)
    /\ UNCHANGED <<transcript, acked, Handled>>

Handles ==
  /\ Handled < Len(topic) /\ Handled' = Handled + 1
  /\ transcript' = Effect(transcript, Handled + 1)
  /\ UNCHANGED <<topic, acked>>

Redelivers ==
  /\ Handled' \in acked .. Handled /\ acked' = Handled'
  /\ UNCHANGED <<topic, transcript>>

Rests == UNCHANGED <<topic, transcript, acked, Handled>>

\* An event's effect is that of one method of Transcript.
LEMMA Effects ==
  ASSUME BaseInv, NEW pos \in 1 .. Len(topic)
  PROVE  /\ topic[pos] \in Events
         /\ topic[pos].op = "text" => Effect(transcript, pos) = Added(transcript, pos)
         /\ topic[pos].op = "edit" => Effect(transcript, pos) = WithText(transcript, topic[pos].id, pos)
         /\ topic[pos].op = "delete" => Effect(transcript, pos) = Forgotten(transcript, topic[pos].id)
         /\ topic[pos].op \in {"add", "remove"} =>
              Effect(transcript, pos)
                = WithReaction(transcript, topic[pos].id, topic[pos].by, topic[pos].op = "add")
         /\ topic[pos].op = "presence" => Effect(transcript, pos) = transcript
         /\ topic[pos].op # "text" => Effect(transcript, pos) = Before(transcript, pos)
         /\ topic[pos].op = "text" => Before(transcript, pos) = transcript
<1>1. topic[pos] \in Events
  BY ElementOfSeq DEF BaseInv, Types
<1>2. topic[pos].op \in {"edit", "delete"} => topic[topic[pos].id].by = topic[pos].by
  BY DEF BaseInv, Genuine, Fits
<1>3. QED
  BY <1>1, <1>2 DEF Effect, After, Before, Edited, Deleted, Events

\* Only a message's own event adds it.
LEMMA MessageType ==
  ASSUME BaseInv, NEW pos \in 1 .. Len(topic)
  PROVE  Message(pos) \in Entries
<1>1. topic[pos] \in Events /\ Len(topic) \in Nat
  BY ElementOfSeq, LenProperties DEF BaseInv, Types
<1>2. QED
  BY <1>1 DEF Message, Entries, Events

\* A thread that handles an event leaves a transcript like it found it.
LEMMA EffectType ==
  ASSUME BaseInv, NEW pos \in 1 .. Len(topic)
  PROVE  LET u == Effect(transcript, pos) IN
         /\ u \in Seq(Entries) /\ Len(u) <= Limit /\ Distinct(u)
         /\ \A j \in 1 .. Len(u) :
              \/ \E i \in 1 .. Len(transcript) : u[j].id = transcript[i].id /\ u[j].from = transcript[i].from
              \/ u[j].id = pos /\ u[j].from = topic[pos].by /\ topic[pos].op = "text"
<1> DEFINE t == transcript
           u == Effect(t, pos)
           e == topic[pos]
           Good == /\ u \in Seq(Entries) /\ Len(u) <= Limit /\ Distinct(u)
                   /\ \A j \in 1 .. Len(u) :
                        \/ \E i \in 1 .. Len(t) : u[j].id = t[i].id /\ u[j].from = t[i].from
                        \/ u[j].id = pos /\ u[j].from = topic[pos].by /\ topic[pos].op = "text"
<1>1. t \in Seq(Entries) /\ Len(t) \in Nat /\ Len(t) <= Limit /\ Distinct(t)
  BY LenProperties DEF BaseInv, Types
<1>2. ASSUME u \in Seq(Entries), SamePlaces(t, u) PROVE Good
  BY <1>1, <1>2 DEF SamePlaces, Distinct
<1>3. CASE e.op = "text" /\ pos \in Ids(t)
  <2>1. u = Added(t, pos)
    BY <1>3, Effects
  <2>2. \A i \in 1 .. Len(t) : t[i].from = topic[t[i].id].by
    BY DEF BaseInv, Known
  <2>3. u \in Seq(Entries) /\ SamePlaces(t, u)
    BY <1>1, <1>3, <2>1, <2>2, AddedInPlace, MessageType
  <2>4. QED
    BY <1>2, <2>3
<1>4. CASE e.op = "text" /\ pos \notin Ids(t)
  <2> DEFINE d == Dropped(t)
  <2>1. /\ u \in Seq(Entries) /\ Len(u) = Len(t) + 1 - d
        /\ \A i \in 1 .. Len(t) - d : u[i] = t[i + d]
        /\ u[Len(t) + 1 - d] = Message(pos)
    BY <1>1, <1>4, Effects, AddedAtEnd, MessageType
  <2>2. d \in {0, 1} /\ Len(t) + 1 - d <= Limit /\ Limit \in Nat /\ (d = 1 => Len(t) >= 1)
    BY <1>1 DEF Dropped
  <2>3. \A i \in 1 .. Len(t) : t[i].id # pos
    BY <1>1, <1>4, LenProperties DEF Ids
  <2>4. Message(pos).id = pos /\ Message(pos).from = topic[pos].by
    BY DEF Message
  <2> HIDE DEF d, u, t
  <2>5. \A j \in 1 .. Len(u) : j <= Len(t) - d \/ j = Len(t) + 1 - d
    BY <1>1, <2>1, <2>2
  <2>6. \A j \in 1 .. Len(t) - d : j + d \in 1 .. Len(t) /\ j \in 1 .. Len(u)
    BY <1>1, <2>1, <2>2
  <2>7. Distinct(u)
    <3> SUFFICES ASSUME NEW i \in 1 .. Len(u), NEW j \in 1 .. Len(u), u[i].id = u[j].id PROVE i = j
      BY DEF Distinct
    <3>1. \A m \in 1 .. Len(u) :
            \/ m + d \in 1 .. Len(t) /\ u[m].id = t[m + d].id /\ t[m + d].id # pos
            \/ m = Len(t) + 1 - d /\ u[m].id = pos
      <4> SUFFICES ASSUME NEW m \in 1 .. Len(u), m # Len(t) + 1 - d
                   PROVE  m + d \in 1 .. Len(t) /\ u[m].id = t[m + d].id /\ t[m + d].id # pos
        BY <2>1, <2>4
      <4>1. m \in 1 .. Len(t) - d
        BY <1>1, <2>1, <2>2, <2>5
      <4>2. QED
        BY <2>1, <2>3, <2>6, <4>1
    <3>2. (i = Len(t) + 1 - d /\ j = Len(t) + 1 - d) \/ (i # Len(t) + 1 - d /\ j # Len(t) + 1 - d)
      <4>1. u[Len(t) + 1 - d].id = pos
        BY <2>1, <2>4
      <4>2. \A m \in 1 .. Len(u) : m # Len(t) + 1 - d => u[m].id # pos
        BY <3>1
      <4>3. QED
        BY <4>1, <4>2
    <3>3. CASE i + d \in 1 .. Len(t) /\ j + d \in 1 .. Len(t)
                 /\ u[i].id = t[i + d].id /\ u[j].id = t[j + d].id
      <4>1. i + d = j + d
        BY <1>1, <3>3 DEF Distinct
      <4>2. i \in Int /\ j \in Int /\ d \in Int
        BY <2>2
      <4>3. QED
        BY <4>1, <4>2
    <3>4. QED
      BY <3>1, <3>2, <3>3
  <2>8. \A j \in 1 .. Len(u) :
          \/ \E i \in 1 .. Len(t) : u[j].id = t[i].id /\ u[j].from = t[i].from
          \/ u[j].id = pos /\ u[j].from = topic[pos].by /\ topic[pos].op = "text"
    <3> SUFFICES ASSUME NEW j \in 1 .. Len(u)
                 PROVE  \/ \E i \in 1 .. Len(t) : u[j].id = t[i].id /\ u[j].from = t[i].from
                        \/ u[j].id = pos /\ u[j].from = topic[pos].by /\ topic[pos].op = "text"
      OBVIOUS
    <3>1. CASE j <= Len(t) - d
      <4>1. j \in 1 .. Len(t) - d /\ j + d \in 1 .. Len(t) /\ u[j] = t[j + d]
        BY <1>1, <2>1, <2>2, <2>6, <3>1
      <4>2. QED
        BY <4>1
    <3>2. CASE j = Len(t) + 1 - d
      BY <1>4, <2>1, <2>4, <3>2
    <3>3. QED
      BY <2>5, <3>1, <3>2
  <2>9. QED
    BY <2>1, <2>2, <2>7, <2>8 DEF u, t
<1>5. CASE e.op = "edit"
  <2>1. u = WithText(t, e.id, pos) /\ pos \in Nat \ {0}
    BY <1>5, Effects
  <2>2. QED
    <3>1. WithText(t, e.id, pos) \in Seq(Entries) /\ SamePlaces(t, WithText(t, e.id, pos))
      BY <1>1, <2>1, WithTextShape
    <3>2. QED
      BY <1>2, <2>1, <3>1
<1>6. CASE e.op \in {"add", "remove"}
  <2>1. u = WithReaction(t, e.id, e.by, e.op = "add") /\ e.by \in Devices
    BY <1>6, Effects DEF Events
  <2>3. u \in Seq(Entries) /\ SamePlaces(t, u)
    <3> HIDE DEF e
    <3> DEFINE v == WithReaction(t, e.id, e.by, e.op = "add")
    <3>1. v \in Seq(Entries)
      BY <1>1, <2>1, WithReactionShape, Zenon
    <3>2. SamePlaces(t, v)
      BY <1>1, <2>1, WithReactionShape, Zenon
    <3>3. QED
      BY <2>1, <3>1, <3>2
  <2>4. QED
    BY <1>2, <2>3
<1>7. CASE e.op = "delete" /\ e.id \in Ids(t)
  <2>1. u = Forgotten(t, e.id)
    BY <1>7, Effects
  <2>2. u \in Seq(Entries) /\ Len(u) = Len(t) - 1
    BY <1>1, <1>7, <2>1, ForgottenShape
  <2>3. PICK k \in 1 .. Len(t) : \A i \in 1 .. Len(t) - 1 : u[i] = t[IF i < k THEN i ELSE i + 1]
    <3>1. TakenOut(t, Forgotten(t, e.id), e.id)
      <4> HIDE DEF t, e
      <4>1. QED
        BY <1>1, <1>7, ForgottenShape
    <3>2. QED
      BY <2>1, <3>1 DEF TakenOut
  <2> HIDE DEF u, t
  <2>4. \A j \in 1 .. Len(u) :
          /\ (IF j < k THEN j ELSE j + 1) \in 1 .. Len(t) /\ u[j] = t[IF j < k THEN j ELSE j + 1]
    BY <1>1, <2>2, <2>3
  <2>5. Distinct(u)
    <3> SUFFICES ASSUME NEW i \in 1 .. Len(u), NEW j \in 1 .. Len(u), u[i].id = u[j].id PROVE i = j
      BY DEF Distinct
    <3>1. (IF i < k THEN i ELSE i + 1) = (IF j < k THEN j ELSE j + 1)
      BY <1>1, <2>4 DEF Distinct
    <3>2. i \in Int /\ j \in Int /\ k \in Int
      BY <2>2
    <3>3. QED
      BY <3>1, <3>2
  <2>6. Len(u) <= Limit
    BY <1>1, <2>2
  <2>7. QED
    BY <2>2, <2>4, <2>5, <2>6 DEF u, t
<1>8. CASE e.op = "presence" \/ (e.op = "delete" /\ e.id \notin Ids(t))
  <2>1. u = t
    BY <1>8, Effects DEF Forgotten
  <2>2. QED
    BY <1>1, <1>2, <2>1 DEF SamePlaces
<1>9. QED
  <2>1. e.op \in {"text", "edit", "delete", "add", "remove", "presence"}
    BY Effects DEF Events
  <2>2. QED
    BY <1>3, <1>4, <1>5, <1>6, <1>7, <1>8, <2>1

\* What is appended to the topic leaves the rest of it alone.
LEMMA Appended ==
  ASSUME topic \in Seq(Events), NEW e \in Events, topic' = Append(topic, e)
  PROVE  /\ topic' \in Seq(Events) /\ Len(topic) \in Nat /\ Len(topic') = Len(topic) + 1
         /\ \A i \in 1 .. Len(topic) : topic'[i] = topic[i]
         /\ topic'[Len(topic) + 1] = e
BY AppendProperties, LenProperties

\* How much is handled lies between what was acknowledged and all there is.
LEMMA HandledType ==
  ASSUME BaseInv
  PROVE  /\ Len(topic) \in Nat /\ acked \in Nat /\ next \in Nat
         /\ Handled \in acked .. Len(topic) /\ Handled <= next
         /\ net.at # "calling" => Handled = next
BY LenProperties DEF BaseInv, Types, Places, Handled

\* Whoever publishes an event leaves the rest as it is.
LEMMA PublishKind ==
  ASSUME BaseInv, NEW op \in {"text", "edit", "delete", "add", "remove", "presence"},
         NEW by \in Devices, NEW id \in Nat, Publish(op, by, id),
         Fits([op |-> op, by |-> by, id |-> id], Len(topic) + 1),
         UNCHANGED <<next, acked, transcript, net>>
  PROVE  Publishes
<1> DEFINE e == [op |-> op, by |-> by, id |-> id]
<1>1. e \in Events /\ topic' = Append(topic, e)
  BY DEF Events, Publish
<1>2. Handled' = Handled
  <2>1. /\ topic \in Seq(Events) /\ \A i \in 1 .. Len(topic) : topic'[i] = topic[i]
    BY <1>1, Appended DEF BaseInv, Types
  <2>2. net.at = "calling" => net.pos \in 1 .. Len(topic)
    BY HandledType DEF BaseInv, Types, Places
  <2>3. QED
    BY <2>1, <2>2 DEF Handled
<1>3. QED
  BY <1>1, <1>2 DEF Publishes

\* Every step publishes an event, handles one, makes the broker repeat some, or
\* leaves topic and transcript alone.
LEMMA Kinds ==
  ASSUME BaseInv, [Next]_vars
  PROVE  Publishes \/ Handles \/ Redelivers \/ Rests
<1>0. Len(topic) \in Nat /\ acked \in Nat /\ next \in Nat
  BY HandledType
<1>1. CASE Receive
  <2> DEFINE q == next + 1
  <2>1. Handled = next /\ q \in 1 .. Len(topic)
    BY <1>0, <1>1 DEF Receive, Handled
  <2>2. CASE interface = "tui"
    <3>1. net' = [at |-> "calling", pos |-> q] /\ transcript' = Before(transcript, q)
          /\ next' = q /\ UNCHANGED <<topic, acked>>
      BY <1>1, <2>2 DEF Receive
    <3>2. CASE topic[q].op = "text"
      <4>1. Handled' = next
        BY <1>0, <3>1, <3>2 DEF Handled
      <4>2. QED
        BY <2>1, <3>1, <3>2, <4>1, Effects DEF Rests
    <3>3. CASE topic[q].op # "text"
      <4>1. Handled' = q
        BY <3>1, <3>3 DEF Handled
      <4>2. transcript' = Effect(transcript, q)
        BY <2>1, <3>1, <3>3, Effects
      <4>3. QED
        BY <1>0, <2>1, <3>1, <4>1, <4>2 DEF Handles
    <3>4. QED
      BY <3>2, <3>3
  <2>3. CASE interface # "tui"
    <3>1. transcript' = Effect(transcript, q) /\ next' = q /\ net.at = "idle" /\ UNCHANGED <<topic, acked, net>>
      BY <1>1, <2>3 DEF Receive, Effect
    <3>2. QED
      BY <1>0, <2>1, <3>1 DEF Handles, Handled
  <2>4. QED
    BY <2>2, <2>3
<1>2. CASE Printed
  <2>1. /\ net.at = "calling" /\ net.pos = next /\ next \in 1 .. Len(topic)
        /\ net' = [net EXCEPT !.at = "idle"] /\ net \in [at : {"idle", "calling", "ended"}, pos : 0 .. Len(topic)]
        /\ transcript' = After(transcript, next) /\ UNCHANGED <<topic, next, acked>>
    BY <1>0, <1>2 DEF Printed, BaseInv, Types, Places
  <2>2. Handled' = next
    BY <2>1 DEF Handled
  <2>3. CASE topic[next].op = "text"
    <3>1. Handled = next - 1
      BY <2>1, <2>3 DEF Handled
    <3>2. transcript' = Effect(transcript, next)
      BY <2>1, <2>3, Effects DEF Effect
    <3>3. QED
      BY <1>0, <2>1, <2>2, <3>1, <3>2 DEF Handles
  <2>4. CASE topic[next].op # "text"
    BY <2>1, <2>2, <2>4 DEF Handled, After, Rests
  <2>5. QED
    BY <2>3, <2>4
<1>3. CASE Reconnect
  BY <1>0, <1>3 DEF Reconnect, Redelivers, Handled
<1>4. CASE PeerPublishes
  <2>1. UNCHANGED <<next, acked, transcript, net>>
    BY <1>4 DEF PeerPublishes
  <2>2. CASE Publish("text", "peer", Len(topic) + 1)
    <3>1. Fits([op |-> "text", by |-> "peer", id |-> Len(topic) + 1], Len(topic) + 1)
      BY DEF Fits
    <3>2. QED
      BY <1>0, <2>1, <2>2, <3>1, PublishKind DEF Devices
  <2>3. ASSUME NEW id \in DOMAIN topic, NEW op \in {"edit", "delete", "add", "remove"},
               topic[id].op = "text", op \in {"edit", "delete"} => topic[id].by = "peer", Publish(op, "peer", id)
        PROVE  Publishes
    <3>1. id \in 1 .. Len(topic)
      BY LenProperties DEF BaseInv, Types
    <3>2. Fits([op |-> op, by |-> "peer", id |-> id], Len(topic) + 1)
      BY <1>0, <2>3, <3>1 DEF Fits
    <3>3. QED
      BY <1>0, <2>1, <2>3, <3>1, <3>2, PublishKind DEF Devices
  <2>4. QED
    BY <1>4, <2>2, <2>3 DEF PeerPublishes
<1>5. CASE Quit
  <2>1. Fits([op |-> "presence", by |-> "me", id |-> 0], Len(topic) + 1)
    BY DEF Fits
  <2>2. Publish("presence", "me", 0) /\ UNCHANGED <<next, acked, transcript, net>>
    BY <1>5 DEF Quit, Publish, Presence
  <2>3. QED
    BY <2>1, <2>2, PublishKind DEF Devices
<1>6. ASSUME NEW w \in Workers, Say(w) PROVE Publishes
  <2>1. Fits([op |-> "text", by |-> "me", id |-> Len(topic) + 1], Len(topic) + 1)
    BY DEF Fits
  <2>2. QED
    BY <1>0, <1>6, <2>1, PublishKind DEF Say, Devices
<1>7. ASSUME NEW w \in Workers, SendChange(w) PROVE Publishes
  <2> DEFINE id == line[w].id
  <2>1. UNCHANGED <<next, acked, transcript, net>>
    BY <1>7 DEF SendChange
  <2>2. id \in 1 .. Len(topic) /\ topic[id].op = "text"
    <3>1. PICK i \in DOMAIN transcript : transcript[i].id = id
      BY <1>7 DEF SendChange, Ids
    <3>2. i \in 1 .. Len(transcript)
      BY <3>1, LenProperties DEF BaseInv, Types
    <3>3. QED
      BY <3>1, <3>2 DEF BaseInv, Known
  <2>3. line[w].mine => topic[id].by = "me"
    BY <1>0, <1>7, <2>2 DEF SendChange, BaseInv, Targets
  <2>4. PICK op \in {"edit", "delete", "add", "remove"} :
          Publish(op, "me", id) /\ (op \in {"edit", "delete"} => line[w].mine)
    BY <1>7 DEF SendChange
  <2>5. Fits([op |-> op, by |-> "me", id |-> id], Len(topic) + 1)
    BY <1>0, <2>2, <2>3, <2>4 DEF Fits
  <2>6. QED
    BY <1>0, <2>1, <2>2, <2>4, <2>5, PublishKind DEF Devices
<1>8. CASE \/ Leave \/ UNCHANGED vars
           \/ \E w \in Workers : NoTarget(w) \/ LinePrinted(w) \/ \E mine \in BOOLEAN : Target(w, mine)
  <2>1. /\ UNCHANGED <<topic, next, acked, transcript>>
        /\ UNCHANGED net \/ (net.at = "idle" /\ net' = [net EXCEPT !.at = "ended"])
    BY <1>8 DEF Leave, StopLoop, LoopEnds, Joined, NoTarget, LinePrinted, Target, vars
  <2>2. QED
    BY <2>1 DEF Rests, Handled, BaseInv, Types
<1>9. QED
  BY <1>1, <1>2, <1>3, <1>4, <1>5, <1>6, <1>7, <1>8 DEF Next, Command

\* The topic only grows, and stays genuine.
LEMMA TopicStep ==
  ASSUME BaseInv, [Next]_vars
  PROVE  /\ topic' \in Seq(Events) /\ Len(topic') \in Nat /\ Len(topic) <= Len(topic')
         /\ \A i \in 1 .. Len(topic) : topic'[i] = topic[i]
         /\ Genuine'
<1>0. topic \in Seq(Events) /\ Len(topic) \in Nat
  BY LenProperties DEF BaseInv, Types
<1>1. CASE UNCHANGED topic
  BY <1>0, <1>1 DEF BaseInv, Genuine, Fits
<1>2. CASE Publishes
  <2>1. PICK e \in Events : topic' = Append(topic, e) /\ Fits(e, Len(topic) + 1)
    BY <1>2 DEF Publishes
  <2>2. /\ topic' \in Seq(Events) /\ Len(topic') = Len(topic) + 1
        /\ \A i \in 1 .. Len(topic) : topic'[i] = topic[i]
        /\ topic'[Len(topic) + 1] = e
    BY <1>0, <2>1, Appended
  <2>4. ASSUME NEW i \in 1 .. Len(topic') PROVE Fits(topic[i], i)'
    <3>1. CASE i \in 1 .. Len(topic)
      <4>1. Fits(topic[i], i)
        BY <3>1 DEF BaseInv, Genuine
      <4>2. QED
        BY <1>0, <2>2, <3>1, <4>1 DEF Fits
    <3>2. CASE i = Len(topic) + 1
      BY <1>0, <2>1, <2>2, <3>2 DEF Fits
    <3>3. QED
      BY <1>0, <2>2, <3>1, <3>2
  <2>5. QED
    BY <1>0, <2>2, <2>4 DEF Genuine
<1>3. QED
  BY <1>1, <1>2, Kinds DEF Handles, Redelivers, Rests

\* The transcript keeps its limit, each message once, and only what was sent.
LEMMA TranscriptStep ==
  ASSUME BaseInv, [Next]_vars
  PROVE  /\ transcript' \in Seq(Entries) /\ Len(transcript') <= Limit /\ Distinct(transcript')
         /\ Known'
<1>0. Len(topic) \in Nat /\ Handled \in Nat
  BY HandledType
<1>1. CASE UNCHANGED transcript
  BY <1>0, <1>1, TopicStep DEF BaseInv, Types, Known
<1>2. CASE Handles
  <2> DEFINE pos == Handled + 1
  <2>1. pos \in 1 .. Len(topic) /\ transcript' = Effect(transcript, pos) /\ topic' = topic
    BY <1>0, <1>2 DEF Handles
  <2>2. /\ transcript' \in Seq(Entries) /\ Len(transcript') <= Limit /\ Distinct(transcript')
        /\ \A j \in 1 .. Len(transcript') :
              \/ \E i \in 1 .. Len(transcript) :
                   transcript'[j].id = transcript[i].id /\ transcript'[j].from = transcript[i].from
              \/ transcript'[j].id = pos /\ transcript'[j].from = topic[pos].by /\ topic[pos].op = "text"
    BY <2>1, EffectType
  <2>3. Known'
    <3> HIDE DEF pos
    <3>1. QED
      BY <2>1, <2>2 DEF BaseInv, Known
  <2>4. QED
    BY <2>2, <2>3
<1>3. QED
  BY <1>1, <1>2, Kinds DEF Publishes, Redelivers, Rests

\* last() answers with a message of the transcript that is ours, or is not, or
\* with none.
LEMMA LastOfFound ==
  ASSUME BaseInv, NEW mine \in BOOLEAN
  PROVE  LET id == LastOf(transcript, mine) IN
         id = 0 \/ (id \in 1 .. Len(topic) /\ topic[id].op = "text" /\ (mine = (topic[id].by = "me")))
<1> DEFINE found == {i \in DOMAIN transcript : (transcript[i].from = "me") = mine}
<1>1. DOMAIN transcript = 1 .. Len(transcript) /\ Len(transcript) \in Nat
  BY LenProperties DEF BaseInv, Types
<1>2. CASE found = {}
  BY <1>2 DEF LastOf
<1>3. CASE found # {}
  <2>1. LastOf(transcript, mine) = transcript[CHOOSE i \in found : \A j \in found : j <= i].id
    BY <1>3 DEF LastOf
  <2>2. \E i \in found : \A j \in found : j <= i
    BY <1>1, <1>3, Maximum
  <2>3. PICK i \in found : LastOf(transcript, mine) = transcript[i].id
    BY <2>1, <2>2
  <2>4. i \in 1 .. Len(transcript) /\ (transcript[i].from = "me") = mine
    BY <1>1
  <2> HIDE DEF found
  <2>5. QED
    BY <2>3, <2>4 DEF BaseInv, Known
<1>4. QED
  BY <1>2, <1>3

\* Every step preserves BaseInv.
LEMMA BaseStep ==
  ASSUME BaseInv, [Next]_vars
  PROVE  BaseInv'
<1> DEFINE Nets == [at : {"idle", "calling", "ended"}, pos : 0 .. Len(topic)]
           Lines == [at : {"none", "target", "calling"}, mine : BOOLEAN, id : 0 .. Len(topic)]
<1>1. /\ Len(topic) \in Nat /\ Len(topic') \in Nat /\ Len(topic) <= Len(topic')
      /\ \A i \in 1 .. Len(topic) : topic'[i] = topic[i]
  BY HandledType, TopicStep
<1>2. /\ net \in Nets /\ line \in [Workers -> Lines] /\ ui \in {"running", "publishing", "joining", "closed"}
      /\ acked \in 0 .. next /\ next \in 0 .. Len(topic) /\ losses \in 0 .. MaxLosses
      /\ interface \in Interfaces
  BY DEF BaseInv, Types
<1>3. /\ net' \in Nets' /\ Places'
      /\ acked' \in 0 .. next' /\ next' \in 0 .. Len(topic')
  <2>1. CASE UNCHANGED <<net, next, acked>>
    BY <1>1, <1>2, <2>1 DEF BaseInv, Places
  <2>2. CASE Receive
    <3>1. /\ net.at = "idle" /\ next < Len(topic) /\ next' = next + 1 /\ UNCHANGED <<topic, acked>>
          /\ net' = net \/ net' = [at |-> "calling", pos |-> next + 1]
      BY <2>2 DEF Receive
    <3>2. QED
      BY <1>1, <1>2, <3>1 DEF Places
  <2>3. CASE UNCHANGED <<next, acked, topic>> /\ net' \in {[net EXCEPT !.at = "idle"], [net EXCEPT !.at = "ended"]}
    BY <1>1, <1>2, <2>3 DEF Places
  <2>4. CASE Reconnect
    BY <1>1, <1>2, <2>4 DEF Reconnect, Places
  <2>5. QED
    BY <2>1, <2>2, <2>3, <2>4
       DEF Next, vars, Printed, PeerPublishes, Quit, Leave, StopLoop, LoopEnds, Joined,
           Say, Command, NoTarget, SendChange, LinePrinted, Target
<1>4. line' \in [Workers -> Lines]' /\ Targets'
  <2>1. ASSUME NEW w \in Workers, NEW l \in Lines, line' = [line EXCEPT ![w] = l],
               l.at = "target" /\ l.mine /\ l.id # 0 =>
                 l.id \in 1 .. Len(topic) /\ topic[l.id].op = "text" /\ topic[l.id].by = "me"
        PROVE  line' \in [Workers -> Lines]' /\ Targets'
    BY <1>1, <1>2, <2>1 DEF BaseInv, Targets
  <2>2. CASE UNCHANGED line
    BY <1>1, <1>2, <2>2 DEF BaseInv, Targets
  <2>3. ASSUME NEW w \in Workers, NEW mine \in BOOLEAN, Target(w, mine)
        PROVE  line' \in [Workers -> Lines]' /\ Targets'
    <3>1. LastOf(transcript, mine) \in 0 .. Len(topic)
      BY <1>1, LastOfFound
    <3> DEFINE l == [at |-> "target", mine |-> mine, id |-> LastOf(transcript, mine)]
    <3>2. l \in Lines /\ line' = [line EXCEPT ![w] = l]
      BY <2>3, <3>1 DEF Target
    <3>3. l.at = "target" /\ l.mine /\ l.id # 0 =>
            l.id \in 1 .. Len(topic) /\ topic[l.id].op = "text" /\ topic[l.id].by = "me"
      <4>1. CASE mine = TRUE
        BY <4>1, LastOfFound
      <4>2. CASE mine = FALSE
        BY <4>2
      <4>3. QED
        BY <4>1, <4>2
    <3> HIDE DEF l
    <3>4. QED
      BY <2>1, <3>2, <3>3
  <2>4. ASSUME NEW w \in Workers, Command(w)
        PROVE  line' \in [Workers -> Lines]' /\ Targets'
    <3>1. PICK l \in {NoLine, [NoLine EXCEPT !.at = "calling"]} : line' = [line EXCEPT ![w] = l]
      BY <2>4 DEF Command, NoTarget, SendChange, LinePrinted
    <3>2. l \in Lines /\ l.at # "target"
      <4>1. 0 \in 0 .. Len(topic)
        BY <1>1
      <4>2. l \in {[at |-> a, mine |-> FALSE, id |-> 0] : a \in {"none", "calling"}}
        BY DEF NoLine
      <4>3. \A a \in {"none", "calling"} : [at |-> a, mine |-> FALSE, id |-> 0] \in Lines
        BY <4>1
      <4>4. QED
        BY <4>2, <4>3
    <3>3. QED
      BY <2>1, <3>1, <3>2
  <2>5. QED
    BY <2>2, <2>3, <2>4
       DEF Next, vars, Receive, Printed, Reconnect, PeerPublishes, Quit, Leave, StopLoop, LoopEnds, Joined, Say
<1>5. /\ ui' \in {"running", "publishing", "joining", "closed"}
      /\ losses' \in 0 .. MaxLosses /\ interface' \in Interfaces
  BY <1>2 DEF Next, vars, Receive, Printed, Reconnect, PeerPublishes, Quit, Leave, StopLoop, LoopEnds, Joined,
              Say, Command, NoTarget, SendChange, LinePrinted, Target
<1>6. QED
  BY <1>3, <1>4, <1>5, TopicStep, TranscriptStep DEF BaseInv, Types

\* The client starts with nothing.
LEMMA BaseInvariant == Spec => []BaseInv
<1>1. Init => BaseInv
  <2> SUFFICES ASSUME Init PROVE BaseInv
    OBVIOUS
  <2>1. topic \in Seq(Events) /\ transcript \in Seq(Entries) /\ Len(topic) = 0 /\ Len(transcript) = 0
    BY DEF Init
  <2>2. QED
    BY <2>1 DEF Init, BaseInv, Types, Genuine, Places, Known, Targets, Distinct, NoLine
<1>2. QED
  BY <1>1, BaseStep, PTL DEF Spec

\* As many messages are kept as have an id, so each once.
LEMMA DistinctIds ==
  ASSUME NEW t \in Seq(Entries), Distinct(t)
  PROVE  IsFiniteSet(Ids(t)) /\ Cardinality(Ids(t)) = Len(t)
<1>1. Len(t) \in Nat /\ DOMAIN t = 1 .. Len(t)
  BY LenProperties
<1> DEFINE f == [i \in 1 .. Len(t) |-> t[i].id]
<1>2. ExistsBijection(1 .. Len(t), Ids(t))
  <2>1. f \in [1 .. Len(t) -> Ids(t)] /\ \A i \in 1 .. Len(t) : f[i] = t[i].id
    BY <1>1 DEF Ids
  <2>2. f \in Injection(1 .. Len(t), Ids(t))
    BY <2>1 DEF Distinct, Injection, IsInjective
  <2>3. \A x \in Ids(t) : \E i \in 1 .. Len(t) : f[i] = x
    BY <1>1, <2>1 DEF Ids
  <2>4. f \in Surjection(1 .. Len(t), Ids(t))
    BY <2>1, <2>3 DEF Surjection
  <2>5. QED
    BY <2>2, <2>4 DEF ExistsBijection, Bijection
<1>3. IsFiniteSet(1 .. Len(t)) /\ Cardinality(1 .. Len(t)) = Len(t)
  BY <1>1, FS_Interval
<1>4. QED
  BY <1>2, <1>3, FS_Bijection

\* TypeOK is an invariant of the terminal clients: among others, the transcript
\* has at most Limit messages, each once, whatever is redelivered.
THEOREM ChatTypeCorrect == Spec => []TypeOK
<1>1. BaseInv => TypeOK
  BY DistinctIds DEF BaseInv, Types, TypeOK
<1>2. QED
  BY <1>1, BaseInvariant, PTL

-----------------------------------------------------------------------------
(* Each message of the transcript, once nothing about it is still to come.  *)

Toggling == {"add", "remove"}

IsLast(q, S) == q \in S /\ \A j \in S : j <= q

\* Such a change of the message is still to be handled, perhaps again.
ToCome(op, by, id) == \E q \in Done(op, by, id) : q > Handled

\* The message is not deleted, has its last text and the last reactions.
NotDeleted(m) == Done({"delete"}, Devices, m.id) # {} => ToCome({"delete"}, Devices, m.id)

TextIsLast(m) ==
  ~ToCome({"edit"}, Devices, m.id) => IsLast(m.text, {m.id} \cup Done({"edit"}, Devices, m.id))

ReactionIsLast(m, d) ==
  ~ToCome(Toggling, {d}, m.id) =>
    IF Done(Toggling, {d}, m.id) = {} THEN d \notin m.reacted
    ELSE \E q : IsLast(q, Done(Toggling, {d}, m.id)) /\ (d \in m.reacted <=> topic[q].op = "add")

Current(m) == NotDeleted(m) /\ TextIsLast(m) /\ \A d \in Devices : ReactionIsLast(m, d)

ContentInv == \A i \in 1 .. Len(transcript) : Current(transcript[i])

\* Changes come after the message they are about.
LEMMA DoneAfter ==
  ASSUME BaseInv, NEW op, NEW by, NEW id, op \subseteq {"edit", "delete", "add", "remove"}
  PROVE  \A q \in Done(op, by, id) :
           q \in 1 .. Len(topic) /\ id < q /\ topic[q].op \in op /\ topic[q].id = id /\ topic[q].by \in by
<1>1. Len(topic) \in Nat /\ DOMAIN topic = 1 .. Len(topic)
  BY LenProperties DEF BaseInv, Types
<1> SUFFICES ASSUME NEW q \in Done(op, by, id)
             PROVE  q \in 1 .. Len(topic) /\ id < q /\ topic[q].op \in op /\ topic[q].id = id /\ topic[q].by \in by
  OBVIOUS
<1>2. q \in 1 .. Len(topic) /\ topic[q].op \in op /\ topic[q].id = id /\ topic[q].by \in by
  BY <1>1 DEF Done
<1>3. id \in 1 .. q - 1
  BY <1>2 DEF BaseInv, Genuine, Fits
<1>4. QED
  BY <1>1, <1>2, <1>3

\* An event of another kind, or about another message, leaves what is to come.
LEMMA NotAbout ==
  ASSUME BaseInv, Handles, NEW op, NEW by, NEW id, Handled + 1 \notin Done(op, by, id),
         op \subseteq {"edit", "delete", "add", "remove"}
  PROVE  Done(op, by, id)' = Done(op, by, id) /\ (ToCome(op, by, id)' <=> ToCome(op, by, id))
<1>1. Done(op, by, id)' = Done(op, by, id)
  BY DEF Handles, Done
<1>2. \A q \in Done(op, by, id) : q > Handled + 1 <=> q > Handled
  BY DoneAfter, HandledType
<1>3. QED
  BY <1>1, <1>2 DEF Handles, ToCome

\* The event just handled is the last one, if none is to come.
LEMMA AboutLast ==
  ASSUME BaseInv, Handles, NEW op, NEW by, NEW id, Handled + 1 \in Done(op, by, id),
         op \subseteq {"edit", "delete", "add", "remove"}, ~ToCome(op, by, id)'
  PROVE  IsLast(Handled + 1, Done(op, by, id)')
<1>1. Done(op, by, id)' = Done(op, by, id)
  BY DEF Handles, Done
<1>2. \A q \in Done(op, by, id) : ~(q > Handled + 1)
  BY <1>1 DEF Handles, ToCome
<1>3. ASSUME NEW q \in Done(op, by, id) PROVE q <= Handled + 1
  <2>1. q \in 1 .. Len(topic)
    BY DoneAfter
  <2>2. Len(topic) \in Nat /\ Handled \in Nat
    BY HandledType
  <2>3. ~(q > Handled + 1)
    BY <1>2
  <2>4. QED
    BY <2>1, <2>2, <2>3
<1>4. QED
  BY <1>1, <1>3 DEF IsLast

\* A message that an event says nothing of stays current.
LEMMA StaysCurrent ==
  ASSUME BaseInv, Handles, NEW m \in Entries, Current(m),
         topic[Handled + 1].op \in {"edit", "delete", "add", "remove"} => topic[Handled + 1].id # m.id
  PROVE  Current(m)'
<1>1. ASSUME NEW op, NEW by, op \subseteq {"edit", "delete", "add", "remove"}
      PROVE  Handled + 1 \notin Done(op, by, m.id)
  BY <1>1 DEF Done
<1>2. ASSUME NEW op, NEW by, op \subseteq {"edit", "delete", "add", "remove"}
      PROVE  Done(op, by, m.id)' = Done(op, by, m.id) /\ (ToCome(op, by, m.id)' <=> ToCome(op, by, m.id))
  BY <1>1, <1>2, NotAbout
<1>3. NotDeleted(m)'
  BY <1>2 DEF Current, NotDeleted
<1>4. TextIsLast(m)'
  BY <1>2 DEF Current, TextIsLast, IsLast
<1>5. ASSUME NEW d \in Devices PROVE ReactionIsLast(m, d)'
  BY <1>2 DEF Current, ReactionIsLast, IsLast, Toggling, Handles
<1>6. QED
  BY <1>3, <1>4, <1>5 DEF Current

\* A message that comes, or comes again, is current: all changes are to come.
LEMMA NewIsCurrent ==
  ASSUME BaseInv, Handles, NEW m \in Entries, m = Message(Handled + 1)
  PROVE  Current(m)'
<1>1. m.id = Handled + 1 /\ m.text = Handled + 1 /\ m.reacted = {} /\ Handled + 1 \in Nat
  BY HandledType DEF Message
<1>2. ASSUME NEW op, NEW by, op \subseteq {"edit", "delete", "add", "remove"}
      PROVE  Done(op, by, m.id)' # {} => ToCome(op, by, m.id)'
  <2>1. Done(op, by, m.id)' = Done(op, by, m.id)
    BY DEF Handles, Done
  <2>2. \A q \in Done(op, by, m.id) : q > Handled + 1
    BY <1>1, <1>2, DoneAfter
  <2>3. QED
    BY <2>1, <2>2 DEF Handles, ToCome
<1>3. NotDeleted(m)'
  BY <1>2 DEF NotDeleted
<1>4. TextIsLast(m)'
  <2>1. ~ToCome({"edit"}, Devices, m.id)' => Done({"edit"}, Devices, m.id)' = {}
    BY <1>2
  <2>2. QED
    BY <1>1, <2>1 DEF TextIsLast, IsLast
<1>5. ASSUME NEW d \in Devices PROVE ReactionIsLast(m, d)'
  <2>1. ~ToCome(Toggling, {d}, m.id)' => Done(Toggling, {d}, m.id)' = {}
    BY <1>2 DEF Toggling
  <2>2. QED
    BY <1>1, <2>1 DEF ReactionIsLast
<1>6. QED
  BY <1>3, <1>4, <1>5 DEF Current

\* An edit gives the message its text.
LEMMA EditedIsCurrent ==
  ASSUME BaseInv, Handles, topic[Handled + 1].op = "edit",
         NEW m \in Entries, Current(m), m.id = topic[Handled + 1].id,
         NEW n \in Entries, n.id = m.id, n.text = Handled + 1, n.reacted = m.reacted
  PROVE  Current(n)'
<1> DEFINE pos == Handled + 1
<1>1. pos \in 1 .. Len(topic) /\ DOMAIN topic = 1 .. Len(topic) /\ topic[pos].by \in Devices
  BY HandledType, LenProperties, Effects DEF Handles, BaseInv, Types, Events
<1>2. ASSUME NEW op, NEW by, op \subseteq {"delete", "add", "remove"}
      PROVE  Done(op, by, m.id)' = Done(op, by, m.id) /\ (ToCome(op, by, m.id)' <=> ToCome(op, by, m.id))
  <2>1. pos \notin Done(op, by, m.id)
    BY <1>2 DEF Done
  <2>2. QED
    BY <1>2, <2>1, NotAbout
<1>3. NotDeleted(n)'
  BY <1>2 DEF Current, NotDeleted
<1>4. TextIsLast(n)'
  <2>1. pos \in Done({"edit"}, Devices, m.id)
    BY <1>1 DEF Done
  <2>2. ~ToCome({"edit"}, Devices, m.id)' => IsLast(pos, Done({"edit"}, Devices, m.id)')
    BY <2>1, AboutLast
  <2>3. m.id <= pos
    BY <2>1, DoneAfter, <1>1 DEF Entries
  <2>4. QED
    BY <2>2, <2>3 DEF TextIsLast, IsLast
<1>5. ASSUME NEW d \in Devices PROVE ReactionIsLast(n, d)'
  BY <1>2 DEF Current, ReactionIsLast, IsLast, Toggling, Handles
<1>6. QED
  BY <1>3, <1>4, <1>5 DEF Current

\* A reaction is what its device did last.
LEMMA ReactedIsCurrent ==
  ASSUME BaseInv, Handles, topic[Handled + 1].op \in Toggling,
         NEW m \in Entries, Current(m), m.id = topic[Handled + 1].id,
         NEW n \in Entries, n.id = m.id, n.text = m.text,
         n.reacted = IF topic[Handled + 1].op = "add" THEN m.reacted \cup {topic[Handled + 1].by}
                     ELSE m.reacted \ {topic[Handled + 1].by}
  PROVE  Current(n)'
<1> DEFINE pos == Handled + 1
           e == topic[pos]
<1>1. pos \in 1 .. Len(topic) /\ DOMAIN topic = 1 .. Len(topic) /\ e.by \in Devices
  BY HandledType, LenProperties, Effects DEF Handles, BaseInv, Types, Events
<1>2. ASSUME NEW op, NEW by, op \subseteq {"edit", "delete", "add", "remove"},
             op \cap Toggling = {} \/ e.by \notin by
      PROVE  Done(op, by, m.id)' = Done(op, by, m.id) /\ (ToCome(op, by, m.id)' <=> ToCome(op, by, m.id))
  <2>1. pos \notin Done(op, by, m.id)
    BY <1>2 DEF Done
  <2>2. QED
    BY <1>2, <2>1, NotAbout
<1>3. NotDeleted(n)'
  BY <1>2 DEF Current, NotDeleted, Toggling
<1>4. TextIsLast(n)'
  <2>1. Done({"edit"}, Devices, m.id)' = Done({"edit"}, Devices, m.id)
        /\ (ToCome({"edit"}, Devices, m.id)' <=> ToCome({"edit"}, Devices, m.id))
    BY <1>2 DEF Toggling
  <2>2. QED
    BY <2>1 DEF Current, TextIsLast, IsLast
<1>5. ASSUME NEW d \in Devices PROVE ReactionIsLast(n, d)'
  <2>1. CASE d = e.by
    <3>1. pos \in Done(Toggling, {d}, m.id)
      BY <1>1, <2>1 DEF Done
    <3>2. ~ToCome(Toggling, {d}, m.id)' => IsLast(pos, Done(Toggling, {d}, m.id)')
      BY <3>1, AboutLast DEF Toggling
    <3>3. d \in n.reacted <=> e.op = "add"
      BY <2>1
    <3>4. topic' = topic
      BY DEF Handles
    <3> HIDE DEF pos
    <3>5. QED
      BY <3>2, <3>3, <3>4 DEF ReactionIsLast, IsLast
  <2>2. CASE d # e.by
    <3>1. Done(Toggling, {d}, m.id)' = Done(Toggling, {d}, m.id)
          /\ (ToCome(Toggling, {d}, m.id)' <=> ToCome(Toggling, {d}, m.id))
      BY <1>2, <2>2 DEF Toggling
    <3>2. d \in n.reacted <=> d \in m.reacted
      BY <2>2
    <3>3. ReactionIsLast(m, d) /\ topic' = topic
      BY DEF Current, Handles
    <3>4. QED
      BY <3>1, <3>2, <3>3 DEF ReactionIsLast, IsLast
  <2>3. QED
    BY <2>1, <2>2
<1>6. QED
  BY <1>3, <1>4, <1>5 DEF Current

\* A message is what it says.
LEMMA SameEntry ==
  ASSUME NEW m \in Entries, NEW n \in Entries,
         m.id = n.id, m.from = n.from, m.text = n.text, m.reacted = n.reacted
  PROVE  m = n
BY DEF Entries

\* Every step leaves the messages of the transcript current.
LEMMA ContentStep ==
  ASSUME BaseInv, ContentInv, [Next]_vars
  PROVE  ContentInv'
<1>0. /\ transcript \in Seq(Entries) /\ transcript' \in Seq(Entries)
      /\ \A i \in 1 .. Len(transcript) : transcript[i] \in Entries
      /\ \A i \in 1 .. Len(transcript') : transcript'[i] \in Entries
  BY TranscriptStep, ElementOfSeq DEF BaseInv, Types
<1>1. CASE Rests
  <2>1. ASSUME NEW m, Current(m) PROVE Current(m)'
    BY <1>1, <2>1 DEF Rests, Current, NotDeleted, TextIsLast, ReactionIsLast, ToCome, Done
  <2>2. QED
    BY <1>1, <2>1 DEF Rests, ContentInv
<1>2. CASE Redelivers
  <2>1. ASSUME NEW op, NEW by, NEW id, op \subseteq {"edit", "delete", "add", "remove"}
        PROVE  Done(op, by, id)' = Done(op, by, id) /\ (ToCome(op, by, id) => ToCome(op, by, id)')
    <3>1. Done(op, by, id)' = Done(op, by, id)
      BY <1>2 DEF Redelivers, Done
    <3>2. \A q \in Done(op, by, id) : q > Handled => q > Handled'
      <4>1. \A q \in Done(op, by, id) : q \in 1 .. Len(topic)
        BY <2>1, DoneAfter
      <4>2. Handled \in acked .. Len(topic) /\ acked \in Nat /\ Len(topic) \in Nat
            /\ Handled' \in acked .. Handled
        BY <1>2, HandledType DEF Redelivers
      <4>3. QED
        BY <4>1, <4>2
    <3>3. QED
      BY <3>1, <3>2 DEF ToCome
  <2>2. ASSUME NEW m, Current(m) PROVE Current(m)'
    <3>1. NotDeleted(m)' /\ TextIsLast(m)'
      BY <2>1, <2>2 DEF Current, NotDeleted, TextIsLast, IsLast
    <3>2. ASSUME NEW d \in Devices PROVE ReactionIsLast(m, d)'
      BY <1>2, <2>1, <2>2 DEF Redelivers, Current, ReactionIsLast, IsLast, Toggling
    <3>3. QED
      BY <3>1, <3>2 DEF Current
  <2>3. QED
    BY <1>2, <2>2 DEF Redelivers, ContentInv
<1>3. CASE Publishes
  <2>1. PICK e \in Events : topic' = Append(topic, e) /\ UNCHANGED <<transcript, Handled>>
    BY <1>3 DEF Publishes
  <2>2. /\ Len(topic) \in Nat /\ Len(topic') = Len(topic) + 1 /\ Handled \in 0 .. Len(topic)
        /\ \A i \in 1 .. Len(topic) : topic'[i] = topic[i]
        /\ DOMAIN topic = 1 .. Len(topic) /\ DOMAIN topic' = 1 .. Len(topic')
    BY <2>1, Appended, HandledType, LenProperties DEF BaseInv, Types
  <2>3. ASSUME NEW op, NEW by, NEW id
        PROVE  ToCome(op, by, id)' \/
               (Done(op, by, id)' = Done(op, by, id) /\ (ToCome(op, by, id)' <=> ToCome(op, by, id)))
    <3>1. CASE Len(topic) + 1 \in Done(op, by, id)'
      BY <2>1, <2>2, <3>1 DEF ToCome
    <3>2. CASE Len(topic) + 1 \notin Done(op, by, id)'
      <4>1. Done(op, by, id)' = Done(op, by, id)
        BY <2>2, <3>2 DEF Done
      <4>2. QED
        BY <2>1, <4>1 DEF ToCome
    <3>3. QED
      BY <3>1, <3>2
  <2>4. ASSUME NEW m, Current(m) PROVE Current(m)'
    <3>1. NotDeleted(m)' /\ TextIsLast(m)'
      BY <2>3, <2>4 DEF Current, NotDeleted, TextIsLast, IsLast
    <3>2. ASSUME NEW d \in Devices PROVE ReactionIsLast(m, d)'
      <4>1. \A q \in Done(Toggling, {d}, m.id) : topic'[q] = topic[q]
        BY <2>2 DEF Done
      <4>2. CASE ToCome(Toggling, {d}, m.id)'
        BY <4>2 DEF ReactionIsLast
      <4>3. CASE /\ Done(Toggling, {d}, m.id)' = Done(Toggling, {d}, m.id)
                 /\ ToCome(Toggling, {d}, m.id)' <=> ToCome(Toggling, {d}, m.id)
        <5>1. ReactionIsLast(m, d)
          BY <2>4 DEF Current
        <5>2. \A q : IsLast(q, Done(Toggling, {d}, m.id)) => topic'[q] = topic[q]
          BY <4>1 DEF IsLast
        <5>3. QED
          BY <4>3, <5>1, <5>2 DEF ReactionIsLast, IsLast
      <4>4. QED
        BY <2>3, <4>2, <4>3
    <3>3. QED
      BY <3>1, <3>2 DEF Current
  <2>5. QED
    BY <2>1, <2>4 DEF ContentInv
<1>4. CASE Handles
  <2> DEFINE pos == Handled + 1
             e == topic[pos]
  <2>1. pos \in 1 .. Len(topic) /\ transcript' = Effect(transcript, pos) /\ e \in Events
    BY <1>4, HandledType, Effects DEF Handles
  <2>2. \A m \in Entries : Current(m) /\ (e.op \in {"edit", "delete", "add", "remove"} => e.id # m.id)
          => Current(m)'
    BY <1>4, StaysCurrent
  <2>3. \A i \in 1 .. Len(transcript) : Current(transcript[i])
    BY DEF ContentInv
  <2>4. SUFFICES ASSUME NEW j \in 1 .. Len(transcript'), NEW n \in Entries, n = transcript'[j]
                 PROVE  Current(n)'
    <3>1. ASSUME NEW j \in 1 .. Len(transcript') PROVE Current(transcript[j])'
      <4>1. PICK n \in Entries : n = transcript'[j]
        BY <1>0
      <4>2. Current(n)'
        BY <2>4, <4>1
      <4>3. QED
        BY <4>1, <4>2 DEF Current, NotDeleted, TextIsLast, ReactionIsLast
    <3>2. QED
      BY <3>1 DEF ContentInv
  <2>5. ASSUME NEW i \in 1 .. Len(transcript), n = transcript[i],
               e.op \in {"edit", "delete", "add", "remove"} => e.id # transcript[i].id
        PROVE  Current(n)'
    BY <2>2, <2>3, <2>5
  <2>6. CASE e.op = "text" /\ pos \in Ids(transcript)
    <3>1. \A i \in 1 .. Len(transcript) : transcript[i].from = topic[transcript[i].id].by
      BY DEF BaseInv, Known
    <3>2. j \in 1 .. Len(transcript) /\
          n = IF transcript[j].id = pos THEN Message(pos) ELSE transcript[j]
      BY <1>0, <2>1, <2>4, <2>6, <3>1, AddedInPlace, MessageType, Effects DEF SamePlaces
    <3>3. QED
      BY <1>4, <2>5, <2>6, <3>2, NewIsCurrent
  <2>7. CASE e.op = "text" /\ pos \notin Ids(transcript)
    <3> DEFINE d == Dropped(transcript)
    <3>1. /\ Len(transcript') = Len(transcript) + 1 - d
          /\ \A i \in 1 .. Len(transcript) - d : transcript'[i] = transcript[i + d]
          /\ transcript'[Len(transcript) + 1 - d] = Message(pos)
      BY <1>0, <2>1, <2>7, AddedAtEnd, MessageType, Effects DEF BaseInv, Types
    <3>2. d \in {0, 1} /\ Len(transcript) \in Nat
      BY <1>0, LenProperties DEF Dropped
    <3> HIDE DEF d
    <3>3. j \in 1 .. Len(transcript) - d \/ j = Len(transcript) + 1 - d
      BY <2>4, <3>1, <3>2
    <3>4. CASE j \in 1 .. Len(transcript) - d
      <4>1. j + d \in 1 .. Len(transcript) /\ n = transcript[j + d]
        BY <2>4, <3>1, <3>2, <3>4
      <4>2. QED
        BY <2>5, <2>7, <4>1
    <3>5. CASE j = Len(transcript) + 1 - d
      BY <1>4, <2>4, <3>1, <3>5, NewIsCurrent
    <3>6. QED
      BY <3>3, <3>4, <3>5
  <2>8. CASE e.op = "edit"
    <3>1. pos \in Nat \ {0} /\ transcript' = WithText(transcript, e.id, pos)
      BY <2>1, <2>8, Effects
    <3>2. /\ j \in 1 .. Len(transcript) /\ n.id = transcript[j].id /\ n.from = transcript[j].from
          /\ n.text = (IF transcript[j].id = e.id THEN pos ELSE transcript[j].text)
          /\ n.reacted = transcript[j].reacted
      BY <1>0, <2>4, <3>1, WithTextShape DEF SamePlaces
    <3>3. CASE transcript[j].id = e.id
      BY <1>0, <1>4, <2>3, <2>8, <3>2, <3>3, EditedIsCurrent
    <3>4. CASE transcript[j].id # e.id
      <4>1. n = transcript[j]
        <5>1. transcript[j] \in Entries /\ n.text = transcript[j].text
          BY <1>0, <3>2, <3>4
        <5>2. QED
          BY <3>2, <5>1, SameEntry
      <4>2. QED
        BY <2>5, <3>2, <3>4, <4>1
    <3>5. QED
      BY <3>3, <3>4
  <2>9. CASE e.op \in Toggling
    <3>1. e.by \in Devices /\ transcript' = WithReaction(transcript, e.id, e.by, e.op = "add")
      BY <2>1, <2>9, Effects DEF Events, Toggling
    <3>2. SamePlaces(transcript, transcript') /\ ReactionMade(transcript, transcript', e.id, e.by, e.op)
      <4> HIDE DEF e, pos
      <4>1. transcript \in Seq(Entries) /\ e.by \in Devices
        BY <1>0, <3>1
      <4> DEFINE u == WithReaction(transcript, e.id, e.by, e.op = "add")
      <4>2. SamePlaces(transcript, u)
        BY <4>1, WithReactionShape, Zenon
      <4>3. ReactionMade(transcript, u, e.id, e.by, e.op)
        BY <4>1, WithReactionShape, Zenon
      <4>4. transcript' = u
        BY <3>1
      <4>5. QED
        BY <4>2, <4>3, <4>4
    <3>3. /\ j \in 1 .. Len(transcript) /\ n.id = transcript[j].id /\ n.from = transcript[j].from
          /\ n.text = transcript[j].text
          /\ transcript[j].id # e.id => n.reacted = transcript[j].reacted
          /\ transcript[j].id = e.id => n.reacted = IF e.op = "add" THEN transcript[j].reacted \cup {e.by}
                                                   ELSE transcript[j].reacted \ {e.by}
      BY <2>4, <3>2 DEF SamePlaces, ReactionMade
    <3>4. CASE transcript[j].id = e.id
      BY <1>0, <1>4, <2>3, <2>9, <3>3, <3>4, ReactedIsCurrent
    <3>5. CASE transcript[j].id # e.id
      <4>1. n = transcript[j]
        <5>1. transcript[j] \in Entries /\ n.reacted = transcript[j].reacted
          BY <1>0, <3>3, <3>5
        <5>2. QED
          BY <3>3, <5>1, SameEntry
      <4>2. QED
        BY <2>5, <3>3, <3>5, <4>1
    <3>6. QED
      BY <3>4, <3>5
  <2>10. CASE e.op = "delete" /\ e.id \in Ids(transcript)
    <3>1. PICK k \in 1 .. Len(transcript) :
            /\ transcript[k].id = e.id
            /\ \A i \in 1 .. Len(transcript) - 1 :
                 Forgotten(transcript, e.id)[i] = transcript[IF i < k THEN i ELSE i + 1]
      <4> HIDE DEF e
      <4>1. TakenOut(transcript, Forgotten(transcript, e.id), e.id)
        BY <1>0, <2>10, ForgottenShape
      <4>2. QED
        BY <4>1 DEF TakenOut
    <3>2. Len(transcript') = Len(transcript) - 1 /\ transcript' = Forgotten(transcript, e.id)
          /\ Len(transcript) \in Nat
      BY <1>0, <2>1, <2>10, Effects, ForgottenShape, LenProperties
    <3>3. PICK i \in 1 .. Len(transcript) : i # k /\ n = transcript[i]
      <4>1. j \in 1 .. Len(transcript) - 1 /\ n = transcript[IF j < k THEN j ELSE j + 1]
        BY <2>4, <3>1, <3>2
      <4>2. (IF j < k THEN j ELSE j + 1) \in 1 .. Len(transcript) \ {k}
        BY <3>2, <4>1
      <4>3. QED
        BY <4>1, <4>2
    <3>4. transcript[i].id # e.id
      BY <3>1, <3>3 DEF BaseInv, Types, Distinct
    <3>5. QED
      BY <2>5, <3>3, <3>4
  <2>11. CASE e.op = "presence" \/ (e.op = "delete" /\ e.id \notin Ids(transcript))
    <3>1. transcript' = transcript
      BY <2>1, <2>11, Effects DEF Forgotten
    <3>2. e.op = "delete" => e.id # transcript[j].id
      BY <1>0, <2>4, <2>11, <3>1, LenProperties DEF Ids
    <3>3. QED
      BY <2>4, <2>5, <2>11, <3>1, <3>2
  <2>12. QED
    BY <2>1, <2>6, <2>7, <2>8, <2>9, <2>10, <2>11 DEF Events, Toggling
<1>5. QED
  BY <1>1, <1>2, <1>3, <1>4, Kinds

-----------------------------------------------------------------------------
(* The order of the transcript.  S is a set of positions of messages, t a    *)
(* transcript, n how much was handled, a how much was acknowledged, and h    *)
(* how much was ever handled.                                                *)

SameIds(t, u) == Len(u) = Len(t) /\ \A i \in 1 .. Len(t) : u[i].id = t[i].id

\* u is t with pos at its end, without its first if that was one too many.
AtEnd(t, u, pos) ==
  /\ Len(u) = Len(t) + 1 - Dropped(t)
  /\ \A i \in 1 .. Len(t) - Dropped(t) : u[i].id = t[i + Dropped(t)].id
  /\ u[Len(t) + 1 - Dropped(t)].id = pos

\* u is t without message id.
Without(t, u, id) ==
  /\ Len(u) = Len(t) - 1
  /\ \E k \in 1 .. Len(t) :
       t[k].id = id /\ \A i \in 1 .. Len(t) - 1 : u[i].id = t[IF i < k THEN i ELSE i + 1].id

\* Handling an event leaves the order, puts a message at the end, or takes one out.
LEMMA OrderStep ==
  ASSUME BaseInv, Handles
  PROVE  LET e == topic[Handled + 1] IN
         \/ SameIds(transcript, transcript') /\ (e.op = "text" => Handled + 1 \in Ids(transcript))
         \/ AtEnd(transcript, transcript', Handled + 1) /\ e.op = "text" /\ Handled + 1 \notin Ids(transcript)
         \/ Without(transcript, transcript', e.id) /\ e.op = "delete"
<1> DEFINE pos == Handled + 1
           e == topic[pos]
           t == transcript
<1>1. /\ pos \in 1 .. Len(topic) /\ transcript' = Effect(t, pos) /\ e \in Events
      /\ t \in Seq(Entries) /\ Len(t) <= Limit
  BY HandledType, Effects DEF Handles, BaseInv, Types
<1>2. ASSUME SamePlaces(t, transcript'), e.op # "text" PROVE SameIds(t, transcript')
  BY <1>2 DEF SamePlaces, SameIds
<1>3. CASE e.op = "text" /\ pos \in Ids(t)
  <2>1. \A i \in 1 .. Len(t) : t[i].from = topic[t[i].id].by
    BY DEF BaseInv, Known
  <2>2. SamePlaces(t, transcript')
    BY <1>1, <1>3, <2>1, AddedInPlace, MessageType, Effects
  <2>3. QED
    BY <1>3, <2>2 DEF SamePlaces, SameIds
<1>4. CASE e.op = "text" /\ pos \notin Ids(t)
  <2>1. Message(pos) \in Entries /\ Message(pos).id = pos
    BY <1>1, MessageType DEF Message
  <2>2. transcript' = Added(t, pos)
    BY <1>1, <1>4, Effects
  <2>3. /\ Len(transcript') = Len(t) + 1 - Dropped(t)
        /\ \A i \in 1 .. Len(t) - Dropped(t) : transcript'[i] = t[i + Dropped(t)]
        /\ transcript'[Len(t) + 1 - Dropped(t)] = Message(pos)
    BY <1>1, <1>4, <2>1, <2>2, AddedAtEnd
  <2>4. AtEnd(t, transcript', pos)
    BY <2>1, <2>3 DEF AtEnd
  <2>5. QED
    BY <1>4, <2>4
<1>5. CASE e.op = "edit"
  <2>1. pos \in Nat \ {0} /\ transcript' = WithText(t, e.id, pos)
    BY <1>1, <1>5, Effects
  <2>2. SamePlaces(t, transcript')
    BY <1>1, <2>1, WithTextShape
  <2>3. QED
    BY <1>2, <1>5, <2>2
<1>6. CASE e.op \in Toggling
  <2>1. e.by \in Devices /\ transcript' = WithReaction(t, e.id, e.by, e.op = "add")
    BY <1>1, <1>6, Effects DEF Events, Toggling
  <2>2. SamePlaces(t, WithReaction(t, e.id, e.by, e.op = "add"))
    <3> HIDE DEF e
    <3>1. QED
      BY <1>1, <2>1, WithReactionShape, Zenon
  <2>3. SamePlaces(t, transcript')
    BY <2>1, <2>2
  <2>4. QED
    BY <1>2, <1>6, <2>3 DEF Toggling
<1>7. CASE e.op = "delete" /\ e.id \in Ids(t)
  <2>1. transcript' = Forgotten(t, e.id) /\ Len(transcript') = Len(t) - 1
    BY <1>1, <1>7, Effects, ForgottenShape
  <2>2. TakenOut(t, Forgotten(t, e.id), e.id)
    <3> HIDE DEF e, t
    <3>1. QED
      BY <1>1, <1>7, ForgottenShape
  <2>3. Without(t, transcript', e.id)
    BY <2>1, <2>2 DEF Without, TakenOut
  <2>4. QED
    BY <1>7, <2>3
<1>8. CASE e.op = "presence" \/ (e.op = "delete" /\ e.id \notin Ids(t))
  <2>1. transcript' = t
    BY <1>1, <1>8, Effects DEF Forgotten
  <2>2. QED
    BY <1>8, <2>1 DEF SameIds
<1>9. QED
  BY <1>1, <1>3, <1>4, <1>5, <1>6, <1>7, <1>8 DEF Events, Toggling
\* The transcript's ids are those of its places.
LEMMA IdsAt ==
  ASSUME NEW t \in Seq(Entries)
  PROVE  /\ Len(t) \in Nat /\ \A i \in 1 .. Len(t) : t[i].id \in Nat \ {0}
         /\ \A x : x \in Ids(t) <=> \E i \in 1 .. Len(t) : t[i].id = x
<1>1. Len(t) \in Nat /\ DOMAIN t = 1 .. Len(t) /\ \A i \in 1 .. Len(t) : t[i] \in Entries
  BY LenProperties, ElementOfSeq
<1>2. \A i \in 1 .. Len(t) : t[i].id \in Nat \ {0}
  BY <1>1 DEF Entries
<1>3. QED
  BY <1>1, <1>2 DEF Ids

\* There are finitely many messages, and the transcript's are among them.
LEMMA TextsFinite ==
  ASSUME BaseInv
  PROVE  /\ Texts \subseteq 1 .. Len(topic) /\ Standing \subseteq Texts
         /\ IsFiniteSet(Texts) /\ Cardinality(Texts) \in Nat
         /\ \A i \in 1 .. Len(transcript) : transcript[i].id \in Texts
         /\ Ids(transcript) \subseteq Texts
<1>1. DOMAIN topic = 1 .. Len(topic) /\ Len(topic) \in Nat
  BY LenProperties DEF BaseInv, Types
<1>2. Texts \subseteq 1 .. Len(topic) /\ Standing \subseteq Texts
  BY <1>1 DEF Texts, Standing
<1>3. IsFiniteSet(1 .. Len(topic))
  BY <1>1, FS_Interval
<1>4. IsFiniteSet(Texts) /\ Cardinality(Texts) \in Nat
  BY <1>2, <1>3, FS_Subset, FS_CardinalityType
<1>5. \A i \in 1 .. Len(transcript) : transcript[i].id \in Texts
  BY <1>1 DEF BaseInv, Known, Texts
<1>6. Ids(transcript) \subseteq Texts
  BY <1>5, IdsAt DEF BaseInv, Types
<1>7. QED
  BY <1>2, <1>4, <1>5, <1>6

\* Handling an event changes neither which messages there are nor which stand.
LEMMA TextsHandled ==
  ASSUME topic' = topic
  PROVE  Texts' = Texts /\ Standing' = Standing
BY DEF Texts, Standing, Done

\* While no more messages than the limit were ever written, the transcript has
\* those that stand, as far as was ever handled, in their order.
Kept(S, t, h) ==
  /\ \A i \in 1 .. Len(t) : t[i].id <= h
  /\ \A s \in S : s <= h => \E i \in 1 .. Len(t) : t[i].id = s
  /\ \A i, j \in 1 .. Len(t) : i < j /\ t[i].id \in S /\ t[j].id \in S => t[i].id < t[j].id

KeptInv ==
  Cardinality(Texts) <= Limit => \E h \in Handled .. Len(topic) : Kept(Standing, transcript, h)

\* An event that changes no order leaves it so.
LEMMA KeptSame ==
  ASSUME NEW S, NEW t, NEW u, SameIds(t, u), NEW h \in Nat, NEW g \in Nat, h <= g, Kept(S, t, h),
         \A i \in 1 .. Len(t) : t[i].id \in Nat, \A s \in S : s <= g => s <= h
  PROVE  Kept(S, u, g)
<1>1. \A i \in 1 .. Len(u) : i \in 1 .. Len(t) /\ u[i].id = t[i].id
  BY DEF SameIds
<1>2. \A i \in 1 .. Len(u) : u[i].id <= g
  BY <1>1 DEF Kept
<1>3. \A s \in S : s <= g => \E i \in 1 .. Len(u) : u[i].id = s
  BY DEF Kept, SameIds
<1>4. QED
  BY <1>1, <1>2, <1>3 DEF Kept

\* A message at the end leaves it so, if it is new or does not stand.
LEMMA KeptAtEnd ==
  ASSUME NEW S, NEW t, NEW u, Len(t) \in Nat, NEW pos \in Nat, AtEnd(t, u, pos), Len(t) # Limit,
         NEW h \in Nat, NEW g \in Nat, h <= g, pos <= g, Kept(S, t, h),
         \A i \in 1 .. Len(t) : t[i].id \in Nat,
         \A s \in S : s <= g => s <= h \/ s = pos, pos \in S => h < pos
  PROVE  Kept(S, u, g)
<1>1. /\ Len(u) = Len(t) + 1 /\ u[Len(t) + 1].id = pos
      /\ \A i \in 1 .. Len(t) : u[i].id = t[i].id
  BY DEF AtEnd, Dropped
<1>2. \A i \in 1 .. Len(u) : u[i].id <= g
  BY <1>1 DEF Kept
<1>3. \A s \in S : s <= g => \E i \in 1 .. Len(u) : u[i].id = s
  <2> SUFFICES ASSUME NEW s \in S, s <= g PROVE \E i \in 1 .. Len(u) : u[i].id = s
    OBVIOUS
  <2>1. CASE s <= h
    <3>1. PICK i \in 1 .. Len(t) : t[i].id = s
      BY <2>1 DEF Kept
    <3>2. i \in 1 .. Len(u) /\ u[i].id = s
      BY <1>1, <3>1
    <3>3. QED
      BY <3>2
  <2>2. CASE s = pos
    <3>1. Len(t) + 1 \in 1 .. Len(u)
      BY <1>1
    <3>2. QED
      BY <1>1, <2>2, <3>1
  <2>3. QED
    BY <2>1, <2>2
<1>4. ASSUME NEW i \in 1 .. Len(u), NEW j \in 1 .. Len(u), i < j, u[i].id \in S, u[j].id \in S
      PROVE  u[i].id < u[j].id
  <2>1. i \in 1 .. Len(t) /\ u[i].id = t[i].id
    BY <1>1, <1>4
  <2>2. CASE j \in 1 .. Len(t)
    BY <1>1, <1>4, <2>1, <2>2 DEF Kept
  <2>3. CASE j = Len(t) + 1
    BY <1>1, <1>4, <2>1, <2>3 DEF Kept
  <2>4. QED
    BY <1>1, <2>2, <2>3
<1>5. QED
  BY <1>2, <1>3, <1>4 DEF Kept

\* So does taking out a message that was deleted.
LEMMA KeptWithout ==
  ASSUME NEW S, NEW t, NEW u, Len(t) \in Nat, NEW id, Without(t, u, id), id \notin S,
         NEW h \in Nat, NEW g \in Nat, h <= g, Kept(S, t, h),
         \A i \in 1 .. Len(t) : t[i].id \in Nat, \A s \in S : s <= g => s <= h
  PROVE  Kept(S, u, g)
<1>1. PICK k \in 1 .. Len(t) :
        t[k].id = id /\ \A i \in 1 .. Len(t) - 1 : u[i].id = t[IF i < k THEN i ELSE i + 1].id
  BY DEF Without
<1>2. Len(u) = Len(t) - 1
  BY DEF Without
<1>3. \A i \in 1 .. Len(u) : \E m \in 1 .. Len(t) :
        u[i].id = t[m].id /\ m = IF i < k THEN i ELSE i + 1
  <2> SUFFICES ASSUME NEW i \in 1 .. Len(u)
               PROVE  \E m \in 1 .. Len(t) : u[i].id = t[m].id /\ m = IF i < k THEN i ELSE i + 1
    OBVIOUS
  <2>1. u[i].id = t[IF i < k THEN i ELSE i + 1].id
    BY <1>1, <1>2
  <2>2. (IF i < k THEN i ELSE i + 1) \in 1 .. Len(t)
    BY <1>2
  <2>3. QED
    BY <2>1, <2>2
<1>4. \A i \in 1 .. Len(u) : u[i].id <= g
  <2>1. \A m \in 1 .. Len(t) : t[m].id <= g
    BY DEF Kept
  <2>2. QED
    BY <1>3, <2>1
<1>5. \A s \in S : s <= g => \E i \in 1 .. Len(u) : u[i].id = s
  <2> SUFFICES ASSUME NEW s \in S, s <= g PROVE \E i \in 1 .. Len(u) : u[i].id = s
    OBVIOUS
  <2>1. PICK m \in 1 .. Len(t) : t[m].id = s
    BY DEF Kept
  <2>2. m # k
    BY <1>1, <2>1
  <2>3. CASE m < k
    <3>1. m \in 1 .. Len(t) - 1 /\ u[m].id = s
      BY <1>1, <2>1, <2>3
    <3>2. QED
      BY <1>2, <3>1
  <2>4. CASE m > k
    <3>1. m - 1 \in 1 .. Len(t) - 1 /\ ~(m - 1 < k) /\ (m - 1) + 1 = m
      BY <2>4
    <3>2. u[m - 1].id = s
      BY <1>1, <2>1, <3>1
    <3>3. QED
      BY <1>2, <3>1, <3>2
  <2>5. QED
    BY <2>2, <2>3, <2>4
<1>6. ASSUME NEW i \in 1 .. Len(u), NEW j \in 1 .. Len(u), i < j, u[i].id \in S, u[j].id \in S
      PROVE  u[i].id < u[j].id
  <2>1. PICK m \in 1 .. Len(t) : u[i].id = t[m].id /\ m = IF i < k THEN i ELSE i + 1
    BY <1>3
  <2>2. PICK n \in 1 .. Len(t) : u[j].id = t[n].id /\ n = IF j < k THEN j ELSE j + 1
    BY <1>3
  <2>3. m < n
    BY <1>2, <1>6, <2>1, <2>2
  <2>4. QED
    BY <1>6, <2>1, <2>2, <2>3 DEF Kept
<1>7. QED
  BY <1>4, <1>5, <1>6 DEF Kept
\* Every step leaves it so.
LEMMA KeptStep ==
  ASSUME BaseInv, KeptInv, [Next]_vars
  PROVE  KeptInv'
<1>0. /\ Len(topic) \in Nat /\ acked \in Nat /\ Handled \in acked .. Len(topic)
      /\ transcript \in Seq(Entries) /\ Len(transcript) \in Nat /\ Len(transcript) <= Limit
      /\ \A i \in 1 .. Len(transcript) : transcript[i].id \in Nat
  BY HandledType, IdsAt DEF BaseInv, Types
<1>1. CASE Rests
  BY <1>1, TextsHandled DEF Rests, KeptInv
<1>2. CASE Redelivers
  <2>1. \A h \in Handled .. Len(topic) : h \in Handled' .. Len(topic)
    BY <1>0, <1>2 DEF Redelivers
  <2>2. QED
    BY <1>2, <2>1, TextsHandled DEF Redelivers, KeptInv
<1>3. CASE Publishes
  <2>1. PICK e \in Events : topic' = Append(topic, e) /\ UNCHANGED <<transcript, Handled>>
    BY <1>3 DEF Publishes
  <2>2. /\ Len(topic') = Len(topic) + 1 /\ \A i \in 1 .. Len(topic) : topic'[i] = topic[i]
        /\ DOMAIN topic = 1 .. Len(topic) /\ DOMAIN topic' = 1 .. Len(topic')
    BY <2>1, Appended, LenProperties DEF BaseInv, Types
  <2>3. Texts \subseteq Texts' /\ \A s \in Standing' : s \in Standing \/ s = Len(topic) + 1
    <3>1. Texts \subseteq Texts' /\ \A s \in Texts' : s \in Texts \/ s = Len(topic) + 1
      BY <1>0, <2>2 DEF Texts
    <3>2. \A s : Done({"delete"}, Devices, s) \subseteq Done({"delete"}, Devices, s)'
      BY <1>0, <2>2 DEF Done
    <3>3. QED
      BY <3>1, <3>2 DEF Standing
  <2>4. ASSUME Cardinality(Texts') <= Limit PROVE Cardinality(Texts) <= Limit
    <3>1. IsFiniteSet(Texts')
      <4>1. Texts' \subseteq 1 .. Len(topic) + 1
        BY <2>2 DEF Texts
      <4>2. IsFiniteSet(1 .. Len(topic) + 1)
        BY <1>0, FS_Interval
      <4>3. QED
        BY <4>1, <4>2, FS_Subset
    <3>2. Cardinality(Texts) <= Cardinality(Texts') /\ Cardinality(Texts') \in Nat
      BY <2>3, <3>1, FS_Subset, FS_CardinalityType
    <3>3. QED
      BY <2>4, <3>2, TextsFinite
  <2>5. ASSUME NEW h \in Handled .. Len(topic), Kept(Standing, transcript, h)
        PROVE  h \in Handled' .. Len(topic') /\ Kept(Standing', transcript', h)
    <3>1. \A s \in Standing' : s <= h => s \in Standing
      BY <1>0, <2>3
    <3>2. Kept(Standing', transcript, h)
      <4>1. \A i \in 1 .. Len(transcript) : transcript[i].id <= h
        BY <2>5 DEF Kept
      <4>2. QED
        BY <2>5, <3>1, <4>1 DEF Kept
    <3>3. QED
      BY <1>0, <2>1, <2>2, <3>2
  <2>6. QED
    BY <2>4, <2>5 DEF KeptInv
<1>4. CASE Handles
  <2> DEFINE pos == Handled + 1
             e == topic[pos]
             t == transcript
             u == transcript'
             S == Standing
  <2>1. /\ pos \in 1 .. Len(topic) /\ pos \in Nat /\ Handled' = pos /\ topic' = topic
        /\ Texts' = Texts /\ Standing' = Standing
    BY <1>0, <1>4, TextsHandled DEF Handles
  <2>2. SUFFICES ASSUME Cardinality(Texts) <= Limit
                 PROVE  \E h \in pos .. Len(topic) : Kept(S, u, h)
    BY <2>1 DEF KeptInv
  <2>3. PICK h \in Handled .. Len(topic) : Kept(S, t, h)
    BY <2>2 DEF KeptInv
  <2> DEFINE g == IF h < pos THEN pos ELSE h
  <2>4. h \in Nat /\ g \in Nat /\ g \in pos .. Len(topic) /\ h <= g /\ pos <= g
    BY <1>0, <2>1
  <2>5. \A s \in S : s \in Nat \ {0} /\ s \in Texts
    BY <2>1, TextsFinite
  <2>6. \A s \in S : s <= g => s <= h \/ s = pos
    BY <1>0, <2>1, <2>5
  <2>7. (h < pos /\ pos \in S) \/ \A s \in S : s <= g => s <= h
    BY <1>0, <2>1, <2>5
  <2>8. pos \in Texts <=> e.op = "text"
    BY <2>1, LenProperties DEF Texts, BaseInv, Types
  <2>9. CASE SameIds(t, u) /\ (e.op = "text" => pos \in Ids(t))
    <3>1. pos \in S => pos <= h
      BY <1>0, <2>3, <2>5, <2>8, <2>9, IdsAt DEF Kept
    <3>2. \A s \in S : s <= g => s <= h
      BY <2>6, <3>1
    <3> HIDE DEF g, S, t, u
    <3>3. Kept(S, u, g)
      BY <1>0, <2>3, <2>4, <2>9, <3>2, KeptSame DEF t
    <3>4. QED
      BY <2>4, <3>3
  <2>10. CASE AtEnd(t, u, pos) /\ e.op = "text" /\ pos \notin Ids(t)
    <3>1. Len(t) # Limit
      <4>1. Ids(t) \subseteq Texts \ {pos} /\ pos \in Texts /\ IsFiniteSet(Texts)
        BY <2>8, <2>10, TextsFinite
      <4>2. IsFiniteSet(Texts \ {pos}) /\ Cardinality(Texts \ {pos}) = Cardinality(Texts) - 1
        BY <4>1, FS_RemoveElement
      <4>3. Cardinality(Ids(t)) <= Cardinality(Texts \ {pos})
        BY <4>1, <4>2, FS_Subset
      <4>4. Cardinality(Ids(t)) = Len(t)
        BY DistinctIds DEF BaseInv, Types
      <4>5. QED
        BY <1>0, <2>2, <4>2, <4>3, <4>4, TextsFinite
    <3>2. pos \in S => h < pos
      <4>1. pos \in S /\ pos <= h => pos \in Ids(t)
        BY <1>0, <2>3, IdsAt DEF Kept
      <4>2. QED
        BY <2>4, <2>10, <4>1
    <3> HIDE DEF g, S, t, u, pos
    <3>3. Kept(S, u, g)
      BY <1>0, <2>1, <2>3, <2>4, <2>6, <2>10, <3>1, <3>2, KeptAtEnd DEF t
    <3>4. QED
      BY <2>4, <3>3
  <2>11. CASE Without(t, u, e.id) /\ e.op = "delete"
    <3>1. pos \notin S
      BY <2>5, <2>8, <2>11
    <3>2. e.id \notin S
      <4>1. pos \in Done({"delete"}, Devices, e.id)
        BY <2>1, <2>11, Effects, LenProperties DEF Done, BaseInv, Types, Events
      <4>2. QED
        BY <4>1 DEF Standing
    <3>3. \A s \in S : s <= g => s <= h
      BY <2>7, <3>1
    <3> HIDE DEF g, S, t, u, pos, e
    <3>4. Kept(S, u, g)
      BY <1>0, <2>3, <2>4, <2>11, <3>2, <3>3, KeptWithout DEF t
    <3>5. QED
      BY <2>4, <3>4
  <2>12. QED
    BY <1>4, <2>9, <2>10, <2>11, OrderStep
<1>5. QED
  BY <1>1, <1>2, <1>3, <1>4, Kinds
-----------------------------------------------------------------------------
(* The transcript when nothing is deleted: the newest messages, or, while  *)
(* a redelivery replaces them one by one, the newest and then older ones.  *)

IdsIn(S, t) == Len(t) \in Nat /\ Len(t) <= Limit /\ \A i \in 1 .. Len(t) : t[i].id \in S

Has(t, s) == \E i \in 1 .. Len(t) : t[i].id = s

\* Consecutive messages, oldest first.
Segment(S, t, lo, hi) ==
  /\ \A i, j \in lo .. hi : i < j => t[i].id < t[j].id
  /\ lo <= hi => \A s \in S : t[lo].id <= s /\ s <= t[hi].id => \E i \in lo .. hi : t[i].id = s

Newest(S, x, h) == x <= h /\ \A s \in S : s <= h => s <= x

\* The newest that were handled, and all of them if they are fewer than the limit.
Flat(S, t, a, n, h) ==
  /\ Segment(S, t, 1, Len(t))
  /\ Len(t) > 0 => Newest(S, t[Len(t)].id, h)
  /\ Len(t) = Limit \/ \A s \in S : s <= h => Has(t, s)
  /\ n = h \/ \A s \in S : a < s /\ s <= n => Has(t, s)

\* The newest at the first k places; after them what was handled again.
Wrapped(S, t, a, n, h, k) ==
  /\ Len(t) = Limit /\ Segment(S, t, 1, k) /\ Segment(S, t, k + 1, Len(t))
  /\ k > 0 => Newest(S, t[k].id, h) /\ \E s \in S : t[Len(t)].id < s /\ s < t[1].id
  /\ t[Len(t)].id <= h
  /\ \A s \in S : a < s /\ s <= t[Len(t)].id => \E i \in k + 1 .. Len(t) : t[i].id = s
  /\ \A s \in S : s <= n => s <= t[Len(t)].id

Turned(S, t, a, n, h) == Flat(S, t, a, n, h) \/ \E k \in 0 .. Len(t) - 1 : Wrapped(S, t, a, n, h, k)

TurnInv ==
  Standing = Texts => \E h \in Handled .. Len(topic) : Turned(Texts, transcript, acked, Handled, h)

\* A part of a segment is one.
LEMMA SegmentPart ==
  ASSUME NEW S \in SUBSET Nat, NEW t, IdsIn(S, t), NEW lo \in Nat \ {0}, NEW hi \in Nat, hi <= Len(t),
         NEW m \in Nat, lo <= m, Segment(S, t, lo, hi)
  PROVE  Segment(S, t, m, hi)
<1>1. \A i, j \in m .. hi : i < j => t[i].id < t[j].id
  BY DEF Segment
<1>2. ASSUME m <= hi, NEW s \in S, t[m].id <= s, s <= t[hi].id
      PROVE  \E i \in m .. hi : t[i].id = s
  <2>1. \A i \in lo .. hi : t[i].id \in Nat
    <3>1. lo .. hi \subseteq 1 .. Len(t)
      BY DEF IdsIn
    <3>2. \A i \in 1 .. Len(t) : t[i].id \in Nat
      BY DEF IdsIn
    <3>3. QED
      BY <3>1, <3>2
  <2>2. t[lo].id <= t[m].id
    BY <1>2, <2>1 DEF Segment
  <2>3. t[lo].id <= s /\ s \in Nat /\ lo <= hi
    <3>1. s \in Nat /\ lo <= hi
      BY <1>2
    <3>2. t[lo].id \in Nat /\ t[m].id \in Nat
      BY <1>2, <2>1, <3>1
    <3>3. QED
      BY <1>2, <2>2, <3>1, <3>2
  <2>4. PICK i \in lo .. hi : t[i].id = s
    BY <1>2, <2>3 DEF Segment
  <2>5. i < m => t[i].id < t[m].id
    BY <1>2 DEF Segment
  <2>6. i \in m .. hi
    BY <1>2, <2>1, <2>4, <2>5
  <2>7. QED
    BY <2>4, <2>6
<1>3. QED
  BY <1>1, <1>2 DEF Segment

\* A segment that moves by d places is one.
LEMMA SegmentMoved ==
  ASSUME NEW S \in SUBSET Nat, NEW t, NEW u, NEW lo \in Nat \ {0}, NEW hi \in Nat, NEW d \in {0, 1},
         \A i \in lo .. hi : u[i].id = t[i + d].id, Segment(S, t, lo + d, hi + d)
  PROVE  Segment(S, u, lo, hi)
<1>1. ASSUME NEW i \in lo .. hi, NEW j \in lo .. hi, i < j PROVE u[i].id < u[j].id
  <2>1. i + d \in lo + d .. hi + d /\ j + d \in lo + d .. hi + d /\ i + d < j + d
    BY <1>1
  <2>2. t[i + d].id < t[j + d].id
    BY <2>1 DEF Segment
  <2>3. QED
    BY <2>2
<1>2. ASSUME lo <= hi, NEW s \in S, u[lo].id <= s, s <= u[hi].id
      PROVE  \E i \in lo .. hi : u[i].id = s
  <2>1. u[lo].id = t[lo + d].id /\ u[hi].id = t[hi + d].id /\ lo + d <= hi + d
    BY <1>2
  <2>2. PICK j \in lo + d .. hi + d : t[j].id = s
    BY <1>2, <2>1 DEF Segment
  <2>3. j - d \in lo .. hi /\ (j - d) + d = j
    OBVIOUS
  <2>4. u[j - d].id = s
    BY <2>2, <2>3
  <2>5. QED
    BY <2>3, <2>4
<1>3. QED
  BY <1>1, <1>2 DEF Segment

\* A segment and the next message are one.
LEMMA SegmentLonger ==
  ASSUME NEW S \in SUBSET Nat, NEW t, IdsIn(S, t), NEW lo \in Nat \ {0}, NEW hi \in 1 .. Len(t), lo <= hi,
         Segment(S, t, lo, hi - 1),
         lo < hi => t[hi - 1].id < t[hi].id /\ \A s \in S : s < t[hi].id => s <= t[hi - 1].id
  PROVE  Segment(S, t, lo, hi)
<1>0. \A i \in 1 .. Len(t) : t[i].id \in Nat
  BY DEF IdsIn
<1>1. ASSUME NEW i \in lo .. hi, NEW j \in lo .. hi, i < j PROVE t[i].id < t[j].id
  <2>1. CASE j < hi
    BY <1>1, <2>1 DEF Segment
  <2>2. CASE j = hi
    <3>1. i \in lo .. hi - 1 /\ hi - 1 \in lo .. hi - 1 /\ lo < hi
      BY <1>1, <2>2
    <3>2. i < hi - 1 => t[i].id < t[hi - 1].id
      BY <3>1 DEF Segment
    <3>3. t[i].id <= t[hi - 1].id
      BY <1>0, <3>1, <3>2 DEF IdsIn
    <3>4. QED
      BY <1>0, <2>2, <3>1, <3>3 DEF IdsIn
  <2>3. QED
    BY <1>1, <2>1, <2>2
<1>2. ASSUME NEW s \in S, t[lo].id <= s, s <= t[hi].id
      PROVE  \E i \in lo .. hi : t[i].id = s
  <2>0. s \in Nat /\ t[hi].id \in Nat /\ t[lo].id \in Nat
    BY <1>0 DEF IdsIn
  <2>1. CASE s = t[hi].id
    <3>1. hi \in lo .. hi
      OBVIOUS
    <3>2. QED
      BY <2>1, <3>1
  <2>2. CASE s # t[hi].id
    <3>0. s < t[hi].id
      BY <1>2, <2>0, <2>2
    <3>1. lo # hi
      BY <1>2, <2>0, <3>0
    <3>2. s <= t[hi - 1].id /\ lo <= hi - 1
      <4>1. lo < hi /\ lo <= hi - 1
        BY <3>1
      <4>2. QED
        BY <3>0, <4>1
    <3>3. PICK i \in lo .. hi - 1 : t[i].id = s
      BY <1>2, <3>2 DEF Segment
    <3>4. QED
      BY <3>3
  <2>3. QED
    BY <2>1, <2>2
<1>3. QED
  BY <1>1, <1>2 DEF Segment

\* A segment at the end of the transcript, and the message put there.
LEMMA SegmentAtEnd ==
  ASSUME NEW S \in SUBSET Nat, NEW t, IdsIn(S, t), NEW u, IdsIn(S, u), NEW pos \in S, AtEnd(t, u, pos),
         NEW lo \in Nat \ {0}, lo <= Len(t) + 1, Segment(S, t, lo, Len(t)),
         lo <= Len(t) => t[Len(t)].id < pos /\ \A s \in S : s < pos => s <= t[Len(t)].id
  PROVE  Segment(S, u, IF lo > Dropped(t) THEN lo - Dropped(t) ELSE 1, Len(u))
<1> DEFINE d == Dropped(t)
           m == IF lo > d THEN lo - d ELSE 1
<1>1. /\ d \in {0, 1} /\ (d = 1 => Len(t) >= 1)
      /\ Len(t) \in Nat /\ Len(u) \in Nat /\ Len(u) = Len(t) + 1 - d /\ Len(u) >= 1
      /\ \A i \in 1 .. Len(t) - d : u[i].id = t[i + d].id
      /\ u[Len(u)].id = pos
  BY DEF Dropped, IdsIn, AtEnd
<1> HIDE DEF d
<1>2. m \in Nat \ {0} /\ m <= Len(u) /\ m + d >= lo /\ m + d \in Nat
  BY <1>1
<1>3. Segment(S, t, m + d, Len(t))
  BY <1>1, <1>2, SegmentPart
<1>4. Segment(S, u, m, Len(u) - 1)
  <2>1. Len(u) - 1 \in Nat /\ (Len(u) - 1) + d = Len(t)
    BY <1>1
  <2>2. \A i \in m .. Len(u) - 1 : u[i].id = t[i + d].id
    BY <1>1, <1>2
  <2> HIDE DEF m
  <2>3. Segment(S, t, m + d, (Len(u) - 1) + d)
    BY <1>3, <2>1
  <2>4. QED
    BY <1>1, <1>2, <2>1, <2>2, <2>3, SegmentMoved
<1>5. m < Len(u) => u[Len(u) - 1].id < u[Len(u)].id /\ \A s \in S : s < u[Len(u)].id => s <= u[Len(u) - 1].id
  <2> SUFFICES ASSUME m < Len(u)
               PROVE  u[Len(u) - 1].id < u[Len(u)].id /\ \A s \in S : s < u[Len(u)].id => s <= u[Len(u) - 1].id
    OBVIOUS
  <2>1. Len(u) - 1 \in 1 .. Len(t) - d /\ (Len(u) - 1) + d = Len(t)
    BY <1>1, <1>2
  <2>2. u[Len(u) - 1].id = t[Len(t)].id
    BY <1>1, <2>1
  <2>3. lo <= Len(t)
    BY <1>1, <1>2
  <2>4. QED
    BY <1>1, <2>2, <2>3
<1>6. Segment(S, u, m, Len(u))
  <2> HIDE DEF m
  <2>1. Len(u) \in 1 .. Len(u) /\ m \in Nat \ {0} /\ m <= Len(u)
    BY <1>1, <1>2
  <2>2. QED
    BY <1>4, <1>5, <2>1, SegmentLonger
<1>7. QED
  BY <1>6 DEF d
\* No message of the transcript is newer than what was ever handled.
LEMMA TurnedBelow ==
  ASSUME NEW S \in SUBSET Nat, NEW t, IdsIn(S, t), NEW a, NEW n, NEW h \in Nat, Turned(S, t, a, n, h)
  PROVE  \A i \in 1 .. Len(t) : t[i].id <= h
<1>0. Len(t) \in Nat /\ \A i \in 1 .. Len(t) : t[i].id \in Nat
  BY DEF IdsIn
<1>1. ASSUME NEW lo \in Nat \ {0}, NEW hi \in Nat, hi <= Len(t), Segment(S, t, lo, hi), lo <= hi, t[hi].id <= h
      PROVE  \A i \in lo .. hi : t[i].id <= h
  <2> SUFFICES ASSUME NEW i \in lo .. hi, i < hi PROVE t[i].id <= h
    BY <1>1
  <2>1. t[i].id < t[hi].id
    BY <1>1 DEF Segment
  <2>2. QED
    BY <1>0, <1>1, <2>1
<1>2. CASE Flat(S, t, a, n, h)
  BY <1>0, <1>1, <1>2 DEF Flat, Newest
<1>3. ASSUME NEW k \in 0 .. Len(t) - 1, Wrapped(S, t, a, n, h, k)
      PROVE  \A i \in 1 .. Len(t) : t[i].id <= h
  <2>1. \A i \in k + 1 .. Len(t) : t[i].id <= h
    <3>1. k + 1 \in Nat \ {0} /\ k + 1 <= Len(t) /\ Len(t) <= Len(t)
      BY <1>0
    <3>2. Segment(S, t, k + 1, Len(t)) /\ t[Len(t)].id <= h
      BY <1>3 DEF Wrapped
    <3>3. QED
      BY <1>0, <1>1, <3>1, <3>2
  <2>2. k > 0 => \A i \in 1 .. k : t[i].id <= h
    BY <1>0, <1>1, <1>3 DEF Wrapped, Newest
  <2>3. QED
    BY <1>0, <2>1, <2>2
<1>4. QED
  BY <1>2, <1>3 DEF Turned

\* A message that comes again after the transcript has turned is in its last
\* part, or is newer than that and older than the first.
LEMMA TurnedPast ==
  ASSUME NEW S \in SUBSET Nat, NEW t, IdsIn(S, t), NEW a \in Nat, NEW n \in Nat, NEW h \in Nat,
         NEW k \in 0 .. Len(t) - 1, Wrapped(S, t, a, n, h, k), n + 1 \in S
  PROVE  /\ Has(t, n + 1) => n + 1 <= t[Len(t)].id
         /\ k > 0 => n + 1 <= t[Len(t)].id \/ n + 1 < t[1].id
<1>0. Len(t) \in Nat /\ Len(t) > 0 /\ \A i \in 1 .. Len(t) : t[i].id \in Nat
  <2>1. Len(t) \in Nat /\ \A i \in 1 .. Len(t) : t[i].id \in S
    BY DEF IdsIn
  <2>2. 0 <= k /\ k <= Len(t) - 1
    OBVIOUS
  <2>3. Len(t) > 0
    BY <2>1, <2>2
  <2>4. \A i \in 1 .. Len(t) : t[i].id \in Nat
    BY <2>1
  <2>5. QED
    BY <2>1, <2>3, <2>4
<1>1. ASSUME k > 0, ~(n + 1 <= t[Len(t)].id) PROVE n + 1 < t[1].id
  <2>1. PICK s \in S : t[Len(t)].id < s /\ s < t[1].id
    BY <1>1 DEF Wrapped
  <2>2. s \in Nat /\ t[1].id \in Nat /\ t[Len(t)].id \in Nat
    BY <1>0
  <2>3. ~(s <= n)
    BY <2>1, <2>2 DEF Wrapped
  <2>4. QED
    BY <2>1, <2>2, <2>3
<1>2. ASSUME Has(t, n + 1) PROVE n + 1 <= t[Len(t)].id
  <2>1. PICK i \in 1 .. Len(t) : t[i].id = n + 1
    BY <1>2 DEF Has
  <2>2. CASE i >= k + 1
    <3>1. i < Len(t) => t[i].id < t[Len(t)].id
      BY <1>0, <2>2 DEF Wrapped, Segment
    <3>2. QED
      BY <1>0, <2>1, <3>1
  <2>3. CASE i <= k
    <3>1. k > 0 /\ 1 \in 1 .. k /\ i \in 1 .. k
      BY <2>3
    <3>2. 1 < i => t[1].id < t[i].id
      BY <3>1 DEF Wrapped, Segment
    <3>3. ~(n + 1 < t[1].id)
      BY <1>0, <2>1, <3>1, <3>2
    <3>4. QED
      BY <1>1, <3>1, <3>3
  <2>4. QED
    BY <2>2, <2>3
<1>3. QED
  BY <1>1, <1>2

\* An event that changes no order leaves it turned as it was.
LEMMA TurnedSame ==
  ASSUME NEW S \in SUBSET Nat, NEW t, IdsIn(S, t), NEW u, SameIds(t, u),
         NEW a \in Nat, NEW n \in Nat, NEW h \in Nat, n <= h, n + 1 \in S => Has(t, n + 1),
         Turned(S, t, a, n, h)
  PROVE  Turned(S, u, a, n + 1, IF h < n + 1 THEN n + 1 ELSE h)
<1> DEFINE g == IF h < n + 1 THEN n + 1 ELSE h
<1>0. /\ Len(t) \in Nat /\ \A i \in 1 .. Len(t) : t[i].id \in Nat
      /\ Len(u) = Len(t) /\ \A i \in 1 .. Len(t) : u[i].id = t[i].id
      /\ g \in Nat /\ h <= g
  <2>1. Len(t) \in Nat /\ \A i \in 1 .. Len(t) : t[i].id \in S
    BY DEF IdsIn
  <2>2. g \in Nat /\ h <= g
    OBVIOUS
  <2> HIDE DEF g
  <2>3. QED
    BY <2>1, <2>2 DEF SameIds
<1>1. \A s \in S : s <= g => s <= h
  <2>1. n + 1 \in S => n + 1 <= h
    BY TurnedBelow DEF Has
  <2>2. QED
    BY <2>1
<1>2. \A s : Has(u, s) <=> Has(t, s)
  BY <1>0 DEF Has
<1>3. ASSUME NEW lo \in Nat \ {0}, NEW hi \in Nat, hi <= Len(t), Segment(S, t, lo, hi)
      PROVE  Segment(S, u, lo, hi)
  <2>1. \A i \in lo .. hi : i \in 1 .. Len(t)
    BY <1>0, <1>3
  <2>2. lo <= hi => u[lo].id = t[lo].id /\ u[hi].id = t[hi].id
    BY <1>0, <1>3, <2>1
  <2>3. QED
    BY <1>0, <1>3, <2>1, <2>2 DEF Segment
<1> HIDE DEF g
<1>4. \A x \in Nat : Newest(S, x, h) => Newest(S, x, g)
  BY <1>0, <1>1 DEF Newest
<1>5. CASE Flat(S, t, a, n, h)
  <2>1. Segment(S, u, 1, Len(u))
    <3>1. Segment(S, t, 1, Len(t)) /\ 1 \in Nat \ {0} /\ Len(t) <= Len(t)
      BY <1>0, <1>5 DEF Flat
    <3>2. QED
      BY <1>0, <1>3, <3>1
  <2>2. Len(u) > 0 => Newest(S, u[Len(u)].id, g)
    BY <1>0, <1>4, <1>5 DEF Flat
  <2>3. Len(u) = Limit \/ \A s \in S : s <= g => Has(u, s)
    BY <1>0, <1>1, <1>2, <1>5 DEF Flat
  <2>4. n + 1 = g \/ \A s \in S : a < s /\ s <= n + 1 => Has(u, s)
    <3>1. n = h => n + 1 = g
      BY DEF g
    <3>2. \A s \in S : s <= n + 1 => s <= n \/ s = n + 1
      OBVIOUS
    <3>3. QED
      BY <1>2, <1>5, <3>1, <3>2 DEF Flat
  <2>5. QED
    BY <2>1, <2>2, <2>3, <2>4 DEF Flat, Turned, g
<1>6. ASSUME NEW k \in 0 .. Len(t) - 1, Wrapped(S, t, a, n, h, k)
      PROVE  Wrapped(S, u, a, n + 1, g, k)
  <2>0. Len(t) > 0 /\ k \in Nat /\ k <= Len(t) /\ u[Len(u)].id = t[Len(t)].id /\ u[1].id = t[1].id
        /\ (k > 0 => u[k].id = t[k].id) /\ t[Len(t)].id \in Nat /\ (k > 0 => t[k].id \in Nat)
    BY <1>0
  <2>1. Len(u) = Limit /\ Segment(S, u, 1, k) /\ Segment(S, u, k + 1, Len(u))
    BY <1>0, <1>3, <1>6, <2>0 DEF Wrapped
  <2>2. k > 0 => Newest(S, u[k].id, g) /\ \E s \in S : u[Len(u)].id < s /\ s < u[1].id
    BY <1>4, <1>6, <2>0 DEF Wrapped
  <2>3. u[Len(u)].id <= g
    BY <1>0, <1>6, <2>0 DEF Wrapped
  <2>4. \A s \in S : a < s /\ s <= u[Len(u)].id => \E i \in k + 1 .. Len(u) : u[i].id = s
    BY <1>0, <1>6, <2>0 DEF Wrapped
  <2>5. \A s \in S : s <= n + 1 => s <= u[Len(u)].id
    <3>1. \A s \in S : s <= n + 1 => s <= n \/ s = n + 1
      OBVIOUS
    <3>2. n + 1 \in S => n + 1 <= t[Len(t)].id
      BY <1>6, TurnedPast
    <3>3. \A s \in S : s <= n => s <= t[Len(t)].id
      BY <1>6 DEF Wrapped
    <3>4. QED
      BY <2>0, <3>1, <3>2, <3>3
  <2>6. QED
    BY <2>1, <2>2, <2>3, <2>4, <2>5 DEF Wrapped
<1>7. QED
  BY <1>0, <1>5, <1>6 DEF Turned, g
\* A message put at the end of the newest ones, when nothing is to come again.
LEMMA FlatAtEnd ==
  ASSUME NEW S \in SUBSET Nat, NEW t, IdsIn(S, t), NEW u, IdsIn(S, u),
         NEW a, NEW n \in Nat, n + 1 \in S, AtEnd(t, u, n + 1),
         Segment(S, t, 1, Len(t)), Len(t) > 0 => Newest(S, t[Len(t)].id, n),
         Len(t) = Limit \/ \A s \in S : s <= n => Has(t, s)
  PROVE  Flat(S, u, a, n + 1, n + 1)
<1>0. /\ Len(t) \in Nat /\ Len(u) \in Nat /\ Len(u) = Len(t) + 1 - Dropped(t) /\ Len(u) > 0
      /\ \A i \in 1 .. Len(t) : t[i].id \in Nat
      /\ u[Len(u)].id = n + 1 /\ n + 1 \in Nat
  <2>1. Len(t) \in Nat /\ Len(u) \in Nat /\ \A i \in 1 .. Len(t) : t[i].id \in S
    BY DEF IdsIn
  <2>2. Dropped(t) \in {0, 1} /\ (Dropped(t) = 1 => Len(t) >= 1)
    BY DEF Dropped
  <2>3. /\ Len(u) = Len(t) + 1 - Dropped(t) /\ u[Len(t) + 1 - Dropped(t)].id = n + 1
    BY DEF AtEnd
  <2>4. \A i \in 1 .. Len(t) : t[i].id \in Nat
    BY <2>1
  <2> HIDE DEF Dropped
  <2>5. QED
    BY <2>1, <2>2, <2>3, <2>4
<1>1. Segment(S, u, 1, Len(u))
  <2>1. 1 <= Len(t) => t[Len(t)].id < n + 1 /\ \A s \in S : s < n + 1 => s <= t[Len(t)].id
    BY <1>0 DEF Newest
  <2>2. Segment(S, u, IF 1 > Dropped(t) THEN 1 - Dropped(t) ELSE 1, Len(u))
    <3>1. 1 \in Nat \ {0} /\ 1 <= Len(t) + 1
      BY <1>0
    <3>2. QED
      BY <2>1, <3>1, SegmentAtEnd
  <2>3. (IF 1 > Dropped(t) THEN 1 - Dropped(t) ELSE 1) = 1
    BY DEF Dropped
  <2>4. QED
    BY <2>2, <2>3
<1>2. Newest(S, u[Len(u)].id, n + 1)
  BY <1>0 DEF Newest
<1>3. Len(u) = Limit \/ \A s \in S : s <= n + 1 => Has(u, s)
  <2>1. CASE Len(t) = Limit
    BY <1>0, <2>1 DEF Dropped
  <2>2. CASE Len(t) # Limit
    <3>1. Len(u) = Len(t) + 1 /\ \A i \in 1 .. Len(t) : u[i].id = t[i].id
      BY <1>0, <2>2 DEF Dropped, AtEnd
    <3>2. \A s : Has(t, s) => Has(u, s)
      BY <1>0, <3>1 DEF Has
    <3>3. Has(u, n + 1)
      BY <1>0 DEF Has
    <3>4. \A s \in S : s <= n + 1 => s <= n \/ s = n + 1
      OBVIOUS
    <3>5. QED
      BY <2>2, <3>2, <3>3, <3>4
  <2>3. QED
    BY <2>1, <2>2
<1>4. QED
  BY <1>1, <1>2, <1>3 DEF Flat

\* A message that comes again and is older than all of the newest: it takes the
\* place of the oldest, at the end.
LEMMA FlatTurns ==
  ASSUME NEW S \in SUBSET Nat, NEW t, IdsIn(S, t), NEW u, IdsIn(S, u),
         NEW a \in Nat, NEW n \in Nat, NEW h \in Nat, n < h, n + 1 \in S, ~Has(t, n + 1),
         AtEnd(t, u, n + 1), Flat(S, t, a, n, h)
  PROVE  Turned(S, u, a, n + 1, h)
<1> DEFINE N == Len(t)
<1>0. /\ N \in Nat /\ N = Limit /\ N > 0 /\ Len(u) = N
      /\ \A i \in 1 .. N : t[i].id \in S /\ t[i].id \in Nat
      /\ \A i \in 1 .. N - 1 : u[i].id = t[i + 1].id
      /\ u[N].id = n + 1 /\ n + 1 \in Nat
  <2>1. N = Limit
    BY DEF Flat
  <2>2. N \in Nat /\ \A i \in 1 .. N : t[i].id \in S
    BY DEF IdsIn
  <2>3. N > 0
    BY <2>1
  <2>4. Dropped(t) = 1
    BY <2>1 DEF Dropped
  <2>5. /\ Len(u) = N + 1 - 1 /\ u[N + 1 - 1].id = n + 1
        /\ \A i \in 1 .. N - 1 : u[i].id = t[i + 1].id
    BY <2>4 DEF AtEnd
  <2>6. \A i \in 1 .. N : t[i].id \in Nat
    BY <2>2
  <2> HIDE DEF N
  <2>7. N + 1 - 1 = N
    BY <2>2
  <2>8. QED
    BY <2>1, <2>2, <2>3, <2>5, <2>6, <2>7
<1>1. Segment(S, t, 1, N) /\ Newest(S, t[N].id, h)
  BY <1>0 DEF Flat
<1>2. n + 1 < t[1].id
  <2>1. n + 1 <= t[N].id
    BY <1>1 DEF Newest
  <2>2. ~(t[1].id <= n + 1)
    BY <1>0, <1>1, <2>1 DEF Segment, Has
  <2>3. QED
    BY <1>0, <2>2
<1> HIDE DEF N
<1>3. Segment(S, u, 1, N - 1)
  <2>1. Segment(S, t, 2, N)
    <3>1. 1 \in Nat \ {0} /\ 2 \in Nat /\ 1 <= 2 /\ N <= Len(t)
      BY <1>0 DEF N
    <3>2. QED
      BY <1>0, <1>1, <3>1, SegmentPart
  <2>2. N - 1 \in Nat /\ (N - 1) + 1 = N /\ 1 + 1 = 2
    BY <1>0
  <2>3. \A i \in 1 .. N - 1 : u[i].id = t[i + 1].id
    BY <1>0
  <2>4. Segment(S, t, 1 + 1, (N - 1) + 1)
    BY <2>1, <2>2
  <2>5. QED
    BY <2>2, <2>3, <2>4, SegmentMoved
<1>4. Segment(S, u, (N - 1) + 1, N)
  <2>1. (N - 1) + 1 = N
    BY <1>0
  <2>2. \A s \in S : u[N].id <= s /\ s <= u[N].id => s = u[N].id
    BY <1>0
  <2>3. N .. N = {N}
    BY <1>0
  <2>4. Segment(S, u, N, N)
    BY <1>0, <2>2, <2>3 DEF Segment
  <2>5. QED
    BY <2>1, <2>4
<1>5. N - 1 > 0 => Newest(S, u[N - 1].id, h) /\ \E s \in S : u[N].id < s /\ s < u[1].id
  <2> SUFFICES ASSUME N - 1 > 0
               PROVE  Newest(S, u[N - 1].id, h) /\ \E s \in S : u[N].id < s /\ s < u[1].id
    OBVIOUS
  <2>1. u[N - 1].id = t[N].id /\ u[1].id = t[2].id
    BY <1>0
  <2>2. t[1].id < t[2].id /\ t[1].id \in S
    BY <1>0, <1>1 DEF Segment
  <2>3. QED
    BY <1>0, <1>1, <1>2, <2>1, <2>2
<1>6. \A s \in S : a < s /\ s <= u[N].id => \E i \in (N - 1) + 1 .. N : u[i].id = s
  <2> SUFFICES ASSUME NEW s \in S, a < s, s <= u[N].id PROVE \E i \in (N - 1) + 1 .. N : u[i].id = s
    OBVIOUS
  <2>1. N \in (N - 1) + 1 .. N
    BY <1>0
  <2>2. ~(s <= n)
    <3>1. s <= n => Has(t, s)
      BY DEF Flat
    <3>2. \A i \in 1 .. N : t[1].id <= t[i].id
      BY <1>0, <1>1 DEF Segment
    <3>3. Has(t, s) => t[1].id <= s
      BY <3>2 DEF Has, N
    <3>4. 1 \in 1 .. N
      BY <1>0
    <3>5. QED
      BY <1>0, <1>2, <3>1, <3>3, <3>4
  <2>3. s = u[N].id
    BY <1>0, <2>2
  <2>4. QED
    BY <2>1, <2>3
<1>7. u[N].id <= h /\ \A s \in S : s <= n + 1 => s <= u[N].id
  BY <1>0
<1>8. Wrapped(S, u, a, n + 1, h, N - 1)
  BY <1>0, <1>3, <1>4, <1>5, <1>6, <1>7 DEF Wrapped
<1>9. N - 1 \in 0 .. Len(u) - 1
  BY <1>0
<1>10. QED
  BY <1>8, <1>9 DEF Turned
\* The next message that comes again: it too takes the place of the oldest.
LEMMA WrappedAtEnd ==
  ASSUME NEW S \in SUBSET Nat, NEW t, IdsIn(S, t), NEW u, IdsIn(S, u),
         NEW a \in Nat, NEW n \in Nat, NEW h \in Nat, a <= n, n <= h, n + 1 \in S, ~Has(t, n + 1),
         AtEnd(t, u, n + 1), NEW k \in 0 .. Len(t) - 1, Wrapped(S, t, a, n, h, k)
  PROVE  Turned(S, u, a, n + 1, n + 1) \/ (n + 1 <= h /\ Turned(S, u, a, n + 1, h))
<1> DEFINE N == Len(t)
           m == k - 1
<1>0. /\ N \in Nat /\ N = Limit /\ N > 0 /\ Len(u) = N /\ k \in Nat /\ k < N
      /\ \A i \in 1 .. N : t[i].id \in S /\ t[i].id \in Nat
      /\ \A i \in 1 .. N - 1 : u[i].id = t[i + 1].id
      /\ u[N].id = n + 1 /\ n + 1 \in Nat /\ Dropped(t) = 1
  <2>1. N = Limit
    BY DEF Wrapped
  <2>2. N \in Nat /\ \A i \in 1 .. N : t[i].id \in S
    BY DEF IdsIn
  <2>3. N > 0
    BY <2>1
  <2>4. Dropped(t) = 1
    BY <2>1 DEF Dropped
  <2>5. /\ Len(u) = N + 1 - 1 /\ u[N + 1 - 1].id = n + 1
        /\ \A i \in 1 .. N - 1 : u[i].id = t[i + 1].id
    BY <2>4 DEF AtEnd
  <2>6. \A i \in 1 .. N : t[i].id \in Nat
    BY <2>2
  <2>7. k \in Nat /\ k < N
    BY <2>2
  <2> HIDE DEF N
  <2>8. N + 1 - 1 = N
    BY <2>2
  <2>9. QED
    BY <2>1, <2>2, <2>3, <2>4, <2>5, <2>6, <2>7, <2>8
<1>1. /\ Segment(S, t, 1, k) /\ Segment(S, t, k + 1, N) /\ t[N].id <= h
      /\ \A s \in S : a < s /\ s <= t[N].id => \E i \in k + 1 .. N : t[i].id = s
      /\ \A s \in S : s <= n => s <= t[N].id
  BY DEF Wrapped
<1>2. t[N].id < n + 1
  <2>1. ~(n + 1 <= t[N].id)
    <3>1. ASSUME n + 1 <= t[N].id PROVE FALSE
      <4>1. PICK i \in k + 1 .. N : t[i].id = n + 1
        BY <1>1, <3>1
      <4>2. i \in 1 .. N
        BY <1>0, <4>1
      <4>3. QED
        BY <4>1, <4>2 DEF Has
    <3>2. QED
      BY <3>1
  <2>2. t[N].id \in Nat
    BY <1>0
  <2>3. QED
    BY <2>1, <2>2
<1>3. \A s \in S : s < n + 1 => s <= t[N].id
  BY <1>1
<1>4. Segment(S, u, IF k + 1 > 1 THEN (k + 1) - 1 ELSE 1, N)
  <2>1. k + 1 \in Nat \ {0} /\ k + 1 <= Len(t) + 1
    BY <1>0
  <2>2. Segment(S, u, IF k + 1 > Dropped(t) THEN (k + 1) - Dropped(t) ELSE 1, Len(u))
    BY <1>1, <1>2, <1>3, <2>1, SegmentAtEnd
  <2>3. QED
    BY <1>0, <2>2
<1>5. CASE k = 0
  <2>1. Segment(S, u, 1, N)
    BY <1>4, <1>5
  <2>2. Newest(S, u[N].id, n + 1)
    BY <1>0 DEF Newest
  <2>3. Flat(S, u, a, n + 1, n + 1)
    BY <1>0, <2>1, <2>2 DEF Flat
  <2>4. QED
    BY <2>3 DEF Turned
<1>6. CASE k > 0
  <2>0. m \in Nat /\ m + 1 = k /\ m \in 0 .. Len(u) - 1 /\ (k + 1) - 1 = k
    BY <1>0, <1>6
  <2>1. n + 1 < t[1].id
    <3>1. n + 1 <= t[N].id \/ n + 1 < t[1].id
      BY <1>6, TurnedPast
    <3>2. t[N].id \in Nat
      BY <1>0
    <3>3. QED
      BY <1>2, <3>1, <3>2
  <2>2. n + 1 <= h
    <3>1. 1 \in 1 .. N /\ t[1].id \in Nat
      BY <1>0
    <3>2. Turned(S, t, a, n, h)
      BY DEF Turned
    <3>3. t[1].id <= h
      BY <3>1, <3>2, TurnedBelow
    <3>4. QED
      BY <2>1, <3>1, <3>3
  <2> HIDE DEF N, m
  <2>3. Segment(S, u, 1, m)
    <3>1. Segment(S, t, 2, k)
      <4>1. 1 \in Nat \ {0} /\ 2 \in Nat /\ 1 <= 2 /\ k <= Len(t)
        BY <1>0 DEF N
      <4>2. QED
        BY <1>0, <1>1, <4>1, SegmentPart
    <3>2. \A i \in 1 .. m : u[i].id = t[i + 1].id
      BY <1>0, <2>0
    <3>3. Segment(S, t, 1 + 1, m + 1)
      BY <2>0, <3>1
    <3>4. QED
      BY <2>0, <3>2, <3>3, SegmentMoved
  <2>4. Segment(S, u, m + 1, N)
    BY <1>4, <1>6, <2>0
  <2>5. m > 0 => Newest(S, u[m].id, h) /\ \E s \in S : u[N].id < s /\ s < u[1].id
    <3> SUFFICES ASSUME m > 0
                 PROVE  Newest(S, u[m].id, h) /\ \E s \in S : u[N].id < s /\ s < u[1].id
      OBVIOUS
    <3>1. u[m].id = t[k].id /\ u[1].id = t[2].id
      BY <1>0, <2>0
    <3>2. t[1].id < t[2].id /\ t[1].id \in S
      BY <1>0, <1>1, <2>0 DEF Segment
    <3>3. Newest(S, t[k].id, h)
      BY <1>6 DEF Wrapped
    <3>4. QED
      BY <1>0, <2>1, <3>1, <3>2, <3>3
  <2>6. \A s \in S : a < s /\ s <= u[N].id => \E i \in m + 1 .. N : u[i].id = s
    <3> SUFFICES ASSUME NEW s \in S, a < s, s <= u[N].id PROVE \E i \in m + 1 .. N : u[i].id = s
      OBVIOUS
    <3>1. CASE s = u[N].id
      <4>1. N \in m + 1 .. N
        BY <1>0, <2>0
      <4>2. QED
        BY <3>1, <4>1
    <3>2. CASE s # u[N].id
      <4>0. s \in Nat
        OBVIOUS
      <4>1. s < n + 1
        BY <1>0, <3>2, <4>0
      <4>2. PICK i \in k + 1 .. N : t[i].id = s
        BY <1>1, <1>3, <4>1
      <4>3. i - 1 \in m + 1 .. N /\ i - 1 \in 1 .. N - 1 /\ (i - 1) + 1 = i
        BY <1>0, <1>6, <2>0, <4>2
      <4>4. u[i - 1].id = s
        BY <1>0, <4>2, <4>3
      <4>5. QED
        BY <4>3, <4>4
    <3>3. QED
      BY <3>1, <3>2
  <2>7. u[N].id <= h /\ \A s \in S : s <= n + 1 => s <= u[N].id
    BY <1>0, <2>2
  <2>8. Wrapped(S, u, a, n + 1, h, m)
    BY <1>0, <2>3, <2>4, <2>5, <2>6, <2>7 DEF Wrapped
  <2>9. QED
    BY <2>0, <2>2, <2>8 DEF Turned
<1>7. QED
  BY <1>0, <1>5, <1>6

\* More messages are written.
LEMMA TurnedGrown ==
  ASSUME NEW S \in SUBSET Nat, NEW R \in SUBSET Nat, NEW t, IdsIn(S, t),
         NEW a \in Nat, NEW n \in Nat, NEW h \in Nat, n <= h, S \subseteq R, \A s \in R : s <= h => s \in S, Turned(S, t, a, n, h)
  PROVE  Turned(R, t, a, n, h)
<1>0. Len(t) \in Nat /\ \A i \in 1 .. Len(t) : t[i].id \in Nat /\ t[i].id <= h
  <2>1. Len(t) \in Nat /\ \A i \in 1 .. Len(t) : t[i].id \in S
    BY DEF IdsIn
  <2>2. \A i \in 1 .. Len(t) : t[i].id <= h
    BY TurnedBelow
  <2>3. QED
    BY <2>1, <2>2
<1>1. \A x : Newest(S, x, h) => Newest(R, x, h)
  BY DEF Newest
<1>2. ASSUME NEW lo \in Nat \ {0}, NEW hi \in Nat, hi <= Len(t), Segment(S, t, lo, hi)
      PROVE  Segment(R, t, lo, hi)
  <2>1. lo <= hi => t[hi].id \in Nat /\ t[hi].id <= h
    BY <1>0, <1>2
  <2>2. \A s \in R : lo <= hi /\ s <= t[hi].id => s \in S
    <3> SUFFICES ASSUME NEW s \in R, lo <= hi, s <= t[hi].id PROVE s \in S
      OBVIOUS
    <3>1. s \in Nat /\ s <= h
      BY <2>1
    <3>2. QED
      BY <3>1
  <2>3. QED
    BY <1>2, <2>2 DEF Segment
<1>3. CASE Flat(S, t, a, n, h)
  <2>1. Segment(R, t, 1, Len(t))
    <3>1. Segment(S, t, 1, Len(t)) /\ 1 \in Nat \ {0} /\ Len(t) <= Len(t)
      BY <1>0, <1>3 DEF Flat
    <3>2. QED
      BY <1>0, <1>2, <3>1
  <2>2. \A s \in R : s <= n => s \in S
    OBVIOUS
  <2>3. Flat(R, t, a, n, h)
    BY <1>1, <1>3, <2>1, <2>2 DEF Flat
  <2>4. QED
    BY <2>3 DEF Turned
<1>4. ASSUME NEW k \in 0 .. Len(t) - 1, Wrapped(S, t, a, n, h, k)
      PROVE  Wrapped(R, t, a, n, h, k)
  <2>1. k \in Nat /\ k <= Len(t) /\ Len(t) > 0
    BY <1>0
  <2>2. Segment(R, t, 1, k) /\ Segment(R, t, k + 1, Len(t))
    <3>1. Segment(S, t, 1, k) /\ Segment(S, t, k + 1, Len(t))
      BY <1>4 DEF Wrapped
    <3>2. 1 \in Nat \ {0} /\ k + 1 \in Nat \ {0} /\ Len(t) <= Len(t)
      BY <1>0, <2>1
    <3>3. QED
      BY <1>0, <1>2, <2>1, <3>1, <3>2
  <2>3. \A s \in R : s <= n => s \in S
    OBVIOUS
  <2>4. \A s \in R : s <= t[Len(t)].id => s \in S
    <3> SUFFICES ASSUME NEW s \in R, s <= t[Len(t)].id PROVE s \in S
      OBVIOUS
    <3>1. t[Len(t)].id \in Nat /\ t[Len(t)].id <= h
      BY <1>0, <2>1
    <3>2. s \in Nat /\ s <= h
      BY <3>1
    <3>3. QED
      BY <3>2
  <2>5. QED
    BY <1>1, <1>4, <2>2, <2>3, <2>4 DEF Wrapped
<1>5. QED
  BY <1>3, <1>4 DEF Turned

\* What is not acknowledged comes again: less is handled, and all of that is acknowledged.
LEMMA TurnedAgain ==
  ASSUME NEW S \in SUBSET Nat, NEW t, NEW a \in Nat, NEW n \in Nat, NEW h,
         NEW b \in a .. n, Turned(S, t, a, n, h)
  PROVE  Turned(S, t, b, b, h)
<1>1. \A s \in S : s \in Nat
  OBVIOUS
<1>2. Flat(S, t, a, n, h) => Flat(S, t, b, b, h)
  BY <1>1 DEF Flat
<1>3. \A k : Wrapped(S, t, a, n, h, k) => Wrapped(S, t, b, b, h, k)
  BY <1>1 DEF Wrapped
<1>4. QED
  BY <1>2, <1>3 DEF Turned
\* Every step leaves the transcript turned.
LEMMA TurnStep ==
  ASSUME BaseInv, TurnInv, [Next]_vars
  PROVE  TurnInv'
<1> DEFINE t == transcript
           u == transcript'
           S == Texts
<1>0. /\ Len(topic) \in Nat /\ acked \in Nat /\ Handled \in acked .. Len(topic) /\ Handled \in Nat
      /\ S \in SUBSET Nat /\ IdsIn(S, t)
  <2>1. Len(topic) \in Nat /\ acked \in Nat /\ Handled \in acked .. Len(topic) /\ Handled \in Nat
    BY HandledType
  <2>2. Texts \subseteq 1 .. Len(topic) /\ \A i \in 1 .. Len(t) : t[i].id \in Texts
    BY TextsFinite
  <2>3. Len(t) \in Nat /\ Len(t) <= Limit
    BY LenProperties DEF BaseInv, Types
  <2>4. QED
    BY <2>1, <2>2, <2>3 DEF IdsIn
<1>1. CASE Rests
  BY <1>1, TextsHandled DEF Rests, TurnInv
<1>2. CASE Redelivers
  <2>1. Handled' \in acked .. Handled /\ acked' = Handled' /\ topic' = topic /\ u = t
    BY <1>2 DEF Redelivers
  <2>2. Texts' = Texts /\ Standing' = Standing
    BY <2>1, TextsHandled
  <2>3. ASSUME NEW h \in Handled .. Len(topic), Turned(S, t, acked, Handled, h)
        PROVE  h \in Handled' .. Len(topic) /\ Turned(S, t, Handled', Handled', h)
    <3>1. h \in Handled' .. Len(topic)
      BY <1>0, <2>1
    <3> HIDE DEF S, t
    <3>2. Turned(S, t, Handled', Handled', h)
      BY <1>0, <2>1, <2>3, TurnedAgain
    <3>3. QED
      BY <3>1, <3>2
  <2>4. QED
    BY <2>1, <2>2, <2>3 DEF TurnInv
<1>3. CASE Publishes
  <2>1. PICK e \in Events : topic' = Append(topic, e) /\ UNCHANGED <<transcript, acked, Handled>>
    BY <1>3 DEF Publishes
  <2>2. /\ Len(topic') = Len(topic) + 1 /\ \A i \in 1 .. Len(topic) : topic'[i] = topic[i]
        /\ DOMAIN topic = 1 .. Len(topic) /\ DOMAIN topic' = 1 .. Len(topic')
    BY <2>1, Appended, LenProperties DEF BaseInv, Types
  <2>3. Texts \subseteq Texts' /\ Texts' \in SUBSET Nat /\ \A s \in Texts' : s \in Texts \/ s = Len(topic) + 1
    BY <1>0, <2>2 DEF Texts
  <2>4. Standing' = Texts' => Standing = Texts
    <3>1. \A s : Done({"delete"}, Devices, s) \subseteq Done({"delete"}, Devices, s)'
      BY <1>0, <2>2 DEF Done
    <3>2. QED
      BY <2>3, <3>1 DEF Standing
  <2>5. ASSUME NEW h \in Handled .. Len(topic), Turned(S, t, acked, Handled, h)
        PROVE  h \in Handled .. Len(topic') /\ Turned(Texts', t, acked, Handled, h)
    <3>1. h \in Handled .. Len(topic') /\ h \in Nat /\ Handled <= h
      BY <1>0, <2>2
    <3>2. \A s \in Texts' : s <= h => s \in S
      BY <1>0, <2>3
    <3> DEFINE R == Texts'
    <3>3. R \in SUBSET Nat /\ S \subseteq R
      BY <2>3
    <3> HIDE DEF S, t, R
    <3>4. Turned(R, t, acked, Handled, h)
      BY <1>0, <2>5, <3>1, <3>2, <3>3, TurnedGrown DEF R
    <3>5. QED
      BY <3>1, <3>4 DEF R
  <2>6. QED
    BY <2>1, <2>4, <2>5 DEF TurnInv
<1>4. CASE Handles
  <2> DEFINE n == Handled
             e == topic[n + 1]
  <2>1. /\ n + 1 \in 1 .. Len(topic) /\ Handled' = n + 1 /\ topic' = topic /\ acked' = acked
        /\ Texts' = Texts /\ Standing' = Standing
    BY <1>0, <1>4, TextsHandled DEF Handles
  <2>2. SUFFICES ASSUME Standing = Texts
                 PROVE  \E g \in n + 1 .. Len(topic) : Turned(S, u, acked, n + 1, g)
    BY <2>1 DEF TurnInv
  <2>3. PICK h \in n .. Len(topic) : Turned(S, t, acked, n, h)
    BY <2>2 DEF TurnInv
  <2>4. h \in Nat /\ n <= h /\ acked <= n /\ n \in Nat
    BY <1>0
  <2>5. n + 1 \in S <=> e.op = "text"
    BY <2>1, LenProperties DEF Texts, BaseInv, Types
  <2>6. IdsIn(S, u)
    <3>1. Len(u) \in Nat /\ Len(u) <= Limit /\ Known'
      BY TranscriptStep, LenProperties
    <3>2. DOMAIN topic = 1 .. Len(topic)
      BY LenProperties DEF BaseInv, Types
    <3>3. \A i \in 1 .. Len(u) : u[i].id \in S
      BY <2>1, <3>1, <3>2 DEF Known, Texts
    <3>4. QED
      BY <3>1, <3>3 DEF IdsIn
  <2>7. Has(t, n + 1) <=> n + 1 \in Ids(t)
    BY IdsAt DEF Has, BaseInv, Types
  <2>8. CASE SameIds(t, u) /\ (e.op = "text" => n + 1 \in Ids(t))
    <3> DEFINE g == IF h < n + 1 THEN n + 1 ELSE h
    <3>1. g \in n + 1 .. Len(topic)
      BY <1>0, <2>1, <2>4
    <3>2. n + 1 \in S => Has(t, n + 1)
      BY <2>5, <2>7, <2>8
    <3>3. Turned(S, u, acked, n + 1, g)
      <4> HIDE DEF S, t, u, n
      <4>1. Turned(S, u, acked, n + 1, IF h < n + 1 THEN n + 1 ELSE h)
        BY <1>0, <2>3, <2>4, <2>8, <3>2, TurnedSame
      <4>2. QED
        BY <4>1
    <3>4. QED
      BY <3>1, <3>3
  <2>9. CASE AtEnd(t, u, n + 1) /\ e.op = "text" /\ n + 1 \notin Ids(t)
    <3>1. n + 1 \in S /\ ~Has(t, n + 1)
      BY <2>5, <2>7, <2>9
    <3>2. n + 1 \in n + 1 .. Len(topic)
      BY <1>0, <2>1
    <3>3. CASE Flat(S, t, acked, n, h) /\ n = h
      <4> HIDE DEF S, t, u, n
      <4>1. /\ Segment(S, t, 1, Len(t)) /\ (Len(t) > 0 => Newest(S, t[Len(t)].id, n))
            /\ Len(t) = Limit \/ \A s \in S : s <= n => Has(t, s)
        BY <3>3 DEF Flat
      <4>2. Flat(S, u, acked, n + 1, n + 1)
        BY <1>0, <2>4, <2>6, <2>9, <3>1, <4>1, FlatAtEnd
      <4>3. QED
        BY <3>2, <4>2 DEF Turned
    <3>4. CASE Flat(S, t, acked, n, h) /\ n # h
      <4>1. n < h /\ h \in n + 1 .. Len(topic)
        BY <1>0, <2>4, <3>4
      <4> HIDE DEF S, t, u, n
      <4>2. Turned(S, u, acked, n + 1, h)
        BY <1>0, <2>4, <2>6, <2>9, <3>1, <3>4, <4>1, FlatTurns
      <4>3. QED
        BY <4>1, <4>2
    <3>5. ASSUME NEW k \in 0 .. Len(t) - 1, Wrapped(S, t, acked, n, h, k)
          PROVE  \E g \in n + 1 .. Len(topic) : Turned(S, u, acked, n + 1, g)
      <4>1. n + 1 <= h => h \in n + 1 .. Len(topic)
        BY <1>0, <2>4
      <4> HIDE DEF S, t, u, n
      <4>2. S \in SUBSET Nat /\ IdsIn(S, t) /\ acked \in Nat
        BY <1>0
      <4>4. AtEnd(t, u, n + 1)
        BY <2>9
      <4>5. Turned(S, u, acked, n + 1, n + 1) \/ (n + 1 <= h /\ Turned(S, u, acked, n + 1, h))
        BY <2>4, <2>6, <3>1, <3>5, <4>2, <4>4, WrappedAtEnd
      <4>3. QED
        BY <3>2, <4>1, <4>5
    <3>6. QED
      BY <2>3, <3>3, <3>4, <3>5 DEF Turned
  <2>10. CASE Without(t, u, e.id) /\ e.op = "delete"
    <3>1. e.id \in Texts
      <4>1. Fits(e, n + 1)
        BY <2>1 DEF BaseInv, Genuine
      <4> HIDE DEF e
      <4>2. e.id \in 1 .. (n + 1) - 1 /\ topic[e.id].op = "text"
        BY <2>10, <4>1 DEF Fits
      <4>3. e.id \in 1 .. Len(topic)
        BY <1>0, <2>1, <4>2
      <4>4. QED
        BY <4>2, <4>3, LenProperties DEF Texts, BaseInv, Types
    <3>2. n + 1 \in Done({"delete"}, Devices, e.id)
      BY <2>1, <2>10, Effects, LenProperties DEF Done, BaseInv, Types, Events
    <3>3. QED
      BY <2>2, <3>1, <3>2 DEF Standing
  <2>11. QED
    BY <1>4, <2>8, <2>9, <2>10, OrderStep
<1>5. QED
  BY <1>1, <1>2, <1>3, <1>4, Kinds
-----------------------------------------------------------------------------
(* Once all is handled.                                                    *)

Invariant == BaseInv /\ ContentInv /\ KeptInv /\ TurnInv

\* Invariant is inductive.
LEMMA Inductive == Spec => []Invariant
<1>1. Init => Invariant
  <2> SUFFICES ASSUME Init PROVE Invariant
    OBVIOUS
  <2>1. /\ topic = <<>> /\ transcript = <<>> /\ next = 0 /\ acked = 0 /\ net.at = "idle"
        /\ Len(topic) = 0 /\ Len(transcript) = 0 /\ topic \in Seq(Events) /\ transcript \in Seq(Entries)
    BY DEF Init
  <2>2. BaseInv
    BY <2>1 DEF Init, BaseInv, Types, Genuine, Places, Known, Targets, Distinct, NoLine
  <2>3. Handled = 0 /\ Texts = {} /\ Standing = {}
    BY <2>1 DEF Handled, Texts, Standing
  <2>4. ContentInv
    BY <2>1 DEF ContentInv
  <2>5. 0 \in Handled .. Len(topic)
    BY <2>1, <2>3
  <2>6. KeptInv
    <3>1. Kept(Standing, transcript, 0)
      BY <2>1, <2>3 DEF Kept
    <3>2. QED
      BY <2>5, <3>1 DEF KeptInv
  <2>7. TurnInv
    <3>1. Segment(Texts, transcript, 1, 0)
      BY DEF Segment
    <3>2. Flat(Texts, transcript, acked, Handled, 0)
      BY <2>1, <2>3, <3>1 DEF Flat
    <3>3. QED
      BY <2>5, <3>2 DEF TurnInv, Turned
  <2>8. QED
    BY <2>2, <2>4, <2>6, <2>7 DEF Invariant
<1>2. Invariant /\ [Next]_vars => Invariant'
  BY BaseStep, ContentStep, KeptStep, TurnStep DEF Invariant
<1>3. QED
  BY <1>1, <1>2, PTL DEF Spec

\* The last of a set of positions is the one that is last.
LEMMA LatestIs ==
  ASSUME NEW S, S \subseteq Nat, NEW q, IsLast(q, S)
  PROVE  Latest(S) = q
<1>1. q \in S /\ \A j \in S : j <= q
  BY DEF IsLast
<1>2. Latest(S) \in S /\ \A j \in S : j <= Latest(S)
  BY <1>1 DEF Latest
<1>3. q <= Latest(S) /\ Latest(S) <= q /\ q \in Nat /\ Latest(S) \in Nat
  BY <1>1, <1>2
<1>4. QED
  BY <1>3

\* Once all is handled each message has its last text and the last reactions.
LEMMA ContentSettles ==
  ASSUME Invariant, Handled = Len(topic), NEW i \in 1 .. Len(transcript)
  PROVE  LET m == transcript[i] IN
         /\ Done({"delete"}, Devices, m.id) = {}
         /\ m.text = Latest({m.id} \cup Done({"edit"}, Devices, m.id))
         /\ m.reacted = {d \in Devices :
              LET r == Done({"add", "remove"}, {d}, m.id) IN r # {} /\ topic[Latest(r)].op = "add"}
<1> DEFINE m == transcript[i]
<1>1. /\ Current(m) /\ m \in Entries /\ m.id \in Nat /\ m.reacted \subseteq Devices
      /\ Len(topic) \in Nat
  <2>1. m \in Entries /\ Current(m)
    BY ElementOfSeq DEF Invariant, BaseInv, Types, ContentInv
  <2>2. QED
    BY <2>1, HandledType DEF Entries, Invariant
<1> HIDE DEF m
<1>2. ASSUME NEW op, NEW by, op \subseteq {"edit", "delete", "add", "remove"}
      PROVE  ~ToCome(op, by, m.id) /\ Done(op, by, m.id) \subseteq Nat
  <2>1. \A q \in Done(op, by, m.id) : q \in 1 .. Len(topic)
    BY <1>2, DoneAfter DEF Invariant
  <2>2. QED
    BY <1>1, <2>1 DEF ToCome
<1>3. Done({"delete"}, Devices, m.id) = {}
  BY <1>1, <1>2 DEF Current, NotDeleted
<1>4. m.text = Latest({m.id} \cup Done({"edit"}, Devices, m.id))
  <2>1. IsLast(m.text, {m.id} \cup Done({"edit"}, Devices, m.id))
    BY <1>1, <1>2 DEF Current, TextIsLast
  <2>2. {m.id} \cup Done({"edit"}, Devices, m.id) \subseteq Nat
    BY <1>1, <1>2
  <2>3. QED
    BY <2>1, <2>2, LatestIs
<1>5. ASSUME NEW d \in Devices
      PROVE  d \in m.reacted <=>
               /\ Done({"add", "remove"}, {d}, m.id) # {}
               /\ topic[Latest(Done({"add", "remove"}, {d}, m.id))].op = "add"
  <2> DEFINE r == Done(Toggling, {d}, m.id)
  <2>1. ~ToCome(Toggling, {d}, m.id) /\ r \subseteq Nat
    BY <1>2 DEF Toggling
  <2>2. ReactionIsLast(m, d)
    BY <1>1 DEF Current
  <2>3. CASE r = {}
    BY <2>1, <2>2, <2>3 DEF ReactionIsLast, Toggling
  <2>4. CASE r # {}
    <3>1. PICK q : IsLast(q, r) /\ (d \in m.reacted <=> topic[q].op = "add")
      BY <2>1, <2>2, <2>4 DEF ReactionIsLast
    <3>2. Latest(r) = q
      <4> HIDE DEF r
      <4>1. QED
        BY <2>1, <3>1, LatestIs
    <3>3. QED
      BY <2>4, <3>1, <3>2 DEF Toggling
  <2>5. QED
    BY <2>3, <2>4
<1>6. m.reacted = {d \in Devices :
        Done({"add", "remove"}, {d}, m.id) # {} /\ topic[Latest(Done({"add", "remove"}, {d}, m.id))].op = "add"}
  BY <1>1, <1>5
<1>7. QED
  BY <1>3, <1>4, <1>6 DEF m

\* When nothing was deleted, the transcript has the newest Limit messages.
LEMMA NewestSettle ==
  ASSUME Invariant, Handled = Len(topic), Standing = Texts
  PROVE  /\ Ids(transcript) = Recent
         /\ \A i, j \in 1 .. Len(transcript) : i < j => transcript[i].id < transcript[j].id
<1> DEFINE t == transcript
           S == Texts
           N == Len(t)
           Above(x) == {j \in S : j > x}
<1>0. /\ Len(topic) \in Nat /\ N \in Nat /\ N <= Limit /\ IsFiniteSet(S)
      /\ \A s \in S : s \in Nat /\ s <= Len(topic)
      /\ \A i \in 1 .. N : t[i].id \in S
      /\ IsFiniteSet(Ids(t)) /\ Cardinality(Ids(t)) = N /\ Ids(t) \subseteq S
      /\ \A x : x \in Ids(t) <=> \E i \in 1 .. N : t[i].id = x
  <2>1. BaseInv /\ t \in Seq(Entries) /\ N <= Limit /\ Distinct(t)
    BY DEF Invariant, BaseInv, Types
  <2>2. Len(topic) \in Nat
    BY <2>1, HandledType
  <2>3. QED
    BY <2>1, <2>2, TextsFinite, DistinctIds, IdsAt
<1>1. PICK a \in Nat : Turned(S, t, a, Len(topic), Len(topic))
  <2>1. Handled .. Len(topic) = {Len(topic)} /\ acked \in Nat
    BY <1>0, HandledType DEF Invariant
  <2>2. QED
    BY <2>1 DEF Invariant, TurnInv
<1>2. /\ Segment(S, t, 1, N) /\ (N > 0 => \A s \in S : s <= t[N].id)
      /\ N = Limit \/ \A s \in S : Has(t, s)
  <2>1. CASE Flat(S, t, a, Len(topic), Len(topic))
    BY <1>0, <2>1 DEF Flat, Newest
  <2>2. ASSUME NEW k \in 0 .. N - 1, Wrapped(S, t, a, Len(topic), Len(topic), k)
        PROVE  /\ Segment(S, t, 1, N) /\ (N > 0 => \A s \in S : s <= t[N].id) /\ N = Limit
    <3>1. \A s \in S : s <= t[N].id
      BY <1>0, <2>2 DEF Wrapped
    <3>2. k = 0
      <4>1. ASSUME k > 0 PROVE FALSE
        <5>1. PICK s \in S : t[N].id < s
          BY <2>2, <4>1 DEF Wrapped
        <5>2. s <= t[N].id /\ s \in Nat /\ N \in 1 .. N
          BY <1>0, <3>1
        <5>3. t[N].id \in Nat
          BY <1>0, <5>2
        <5>4. QED
          BY <5>1, <5>2, <5>3
      <4>2. QED
        BY <4>1
    <3>3. Segment(S, t, 0 + 1, N) /\ N = Limit
      BY <2>2, <3>2 DEF Wrapped
    <3>4. QED
      BY <3>1, <3>3
  <2>3. QED
    BY <1>1, <2>1, <2>2 DEF Turned
<1>3. ASSUME NEW i \in 1 .. N PROVE t[i].id \in Recent
  <2> DEFINE x == t[i].id
  <2>1. x \in S /\ x \in Nat /\ N \in 1 .. N /\ N > 0
    BY <1>0
  <2>2. ASSUME NEW j \in S, j > x PROVE j \in Ids(t) \ {x}
    <3>1. j \in Nat /\ j <= t[N].id
      BY <1>0, <1>2, <2>1
    <3>2. 1 \in 1 .. N /\ t[1].id \in Nat
      BY <1>0, <2>1
    <3>3. 1 < i => t[1].id < x
      BY <1>2, <3>2 DEF Segment
    <3>4. t[1].id <= j
      BY <2>1, <2>2, <3>1, <3>2, <3>3
    <3>5. \E p \in 1 .. N : t[p].id = j
      BY <1>2, <2>1, <3>1, <3>4 DEF Segment
    <3>6. QED
      BY <1>0, <2>1, <2>2, <3>1, <3>5
  <2> HIDE DEF x, S, t, N
  <2>3. Above(x) \subseteq Ids(t) \ {x}
    BY <2>2
  <2>4. IsFiniteSet(Ids(t) \ {x}) /\ Cardinality(Ids(t) \ {x}) = N - 1
    <3>1. x \in Ids(t)
      BY <1>0 DEF x
    <3>2. QED
      BY <1>0, <3>1, FS_RemoveElement
  <2>5. Cardinality(Above(x)) <= N - 1 /\ IsFiniteSet(Above(x))
    BY <2>3, <2>4, FS_Subset
  <2>6. Cardinality(Above(x)) \in Nat
    BY <2>5, FS_CardinalityType
  <2>7. Cardinality(Above(x)) < Limit
    BY <1>0, <2>5, <2>6
  <2>8. QED
    BY <2>1, <2>7 DEF Recent, x, S, t
<1>4. ASSUME NEW x \in S, x \notin Ids(t) PROVE x \notin Recent
  <2>1. N = Limit /\ N > 0
    <3>1. ~Has(t, x)
      BY <1>0, <1>4 DEF Has
    <3>2. QED
      BY <1>2, <3>1
  <2>2. x < t[1].id
    <3>1. 1 \in 1 .. N /\ N \in 1 .. N
      BY <1>0, <2>1
    <3>2. x <= t[N].id /\ x \in Nat /\ t[1].id \in Nat
      BY <1>0, <1>2, <2>1, <3>1
    <3>3. ~(t[1].id <= x)
      BY <1>0, <1>2, <1>4, <2>1, <3>2 DEF Segment
    <3>4. QED
      BY <3>2, <3>3
  <2>3. ASSUME NEW i \in 1 .. N PROVE t[i].id \in Above(x)
    <3>1. 1 \in 1 .. N /\ t[1].id \in Nat /\ t[i].id \in Nat /\ x \in Nat /\ t[i].id \in S
      BY <1>0, <2>1
    <3>2. 1 < i => t[1].id < t[i].id
      BY <1>2, <3>1 DEF Segment
    <3>3. t[i].id > x
      BY <2>2, <3>1, <3>2
    <3>4. QED
      BY <3>1, <3>3
  <2> DEFINE A == Above(x)
  <2>4. Ids(t) \subseteq A /\ A \subseteq S
    BY <1>0, <2>3
  <2>5. IsFiniteSet(A)
    BY <1>0, <2>4, FS_Subset
  <2>6. Cardinality(Ids(t)) <= Cardinality(A) /\ Cardinality(A) \in Nat
    BY <2>4, <2>5, FS_Subset, FS_CardinalityType
  <2>7. ~(Cardinality(A) < Limit)
    BY <1>0, <2>1, <2>6
  <2>8. QED
    BY <2>7 DEF Recent
<1>5. Ids(t) = Recent
  <2>1. Recent \subseteq S
    BY DEF Recent
  <2>2. ASSUME NEW x \in Ids(t) PROVE x \in Recent
    BY <1>0, <1>3
  <2>3. ASSUME NEW x \in Recent PROVE x \in Ids(t)
    BY <1>4, <2>1
  <2>4. QED
    BY <2>2, <2>3
<1>6. QED
  BY <1>2, <1>5 DEF Segment

\* When fewer were ever written than fit, it has all that stand.
LEMMA FewSettle ==
  ASSUME Invariant, Handled = Len(topic), Cardinality(Texts) <= Limit
  PROVE  /\ Ids(transcript) = Recent
         /\ \A i, j \in 1 .. Len(transcript) : i < j => transcript[i].id < transcript[j].id
<1> DEFINE t == transcript
<1>0. /\ BaseInv /\ Len(topic) \in Nat /\ IsFiniteSet(Texts) /\ Cardinality(Texts) \in Nat
      /\ Texts \subseteq 1 .. Len(topic) /\ Standing \subseteq Texts
      /\ \A i \in 1 .. Len(t) : t[i].id \in Texts
      /\ \A x : x \in Ids(t) <=> \E i \in 1 .. Len(t) : t[i].id = x
  BY HandledType, TextsFinite, IdsAt DEF Invariant, BaseInv, Types
<1>1. Kept(Standing, t, Len(topic))
  <2>1. Handled .. Len(topic) = {Len(topic)}
    BY <1>0
  <2>2. QED
    BY <2>1 DEF Invariant, KeptInv
<1>2. \A i \in 1 .. Len(t) : t[i].id \in Standing
  BY <1>0, ContentSettles DEF Standing
<1>3. Ids(t) = Standing
  <2>1. \A s \in Standing : s <= Len(topic)
    BY <1>0
  <2>2. \A s \in Standing : \E i \in 1 .. Len(t) : t[i].id = s
    BY <1>1, <2>1 DEF Kept
  <2>3. ASSUME NEW x \in Ids(t) PROVE x \in Standing
    BY <1>0, <1>2
  <2>4. ASSUME NEW x \in Standing PROVE x \in Ids(t)
    BY <1>0, <2>2
  <2>5. QED
    BY <2>3, <2>4
<1>4. ASSUME NEW x \in Standing PROVE Cardinality({j \in Standing : j > x}) < Limit
  <2> DEFINE A == {j \in Standing : j > x}
  <2>0. x \in Texts /\ x \in Nat
    BY <1>0
  <2>1. A \subseteq Texts \ {x} /\ x \in Texts
    <3>1. ~(x > x)
      BY <2>0
    <3>2. \A j \in A : j \in Texts /\ j # x
      BY <1>0, <3>1
    <3>3. QED
      BY <2>0, <3>2
  <2>2. IsFiniteSet(Texts \ {x}) /\ Cardinality(Texts \ {x}) = Cardinality(Texts) - 1
    BY <1>0, <2>1, FS_RemoveElement
  <2> HIDE DEF A
  <2>3. Cardinality(A) <= Cardinality(Texts \ {x}) /\ IsFiniteSet(A)
    BY <2>1, <2>2, FS_Subset
  <2>4. Cardinality(A) \in Nat
    BY <2>3, FS_CardinalityType
  <2>5. Cardinality(A) < Limit
    BY <1>0, <2>2, <2>3, <2>4
  <2>6. QED
    BY <2>5 DEF A
<1>5. Recent = Standing
  BY <1>4 DEF Recent
<1>6. QED
  BY <1>1, <1>2, <1>3, <1>5 DEF Kept

\* TranscriptSettles: whatever was delivered twice, once all is handled the
\* transcript has the newest messages, oldest first, with their last text and
\* the reactions not taken back.
THEOREM TranscriptSettled == Spec => []TranscriptSettles
<1>1. ASSUME Invariant PROVE TranscriptSettles
  <2> SUFFICES ASSUME next = Len(topic), net.at = "idle", Standing = Texts \/ Cardinality(Texts) <= Limit
               PROVE  /\ Ids(transcript) = Recent
                      /\ \A i \in DOMAIN transcript :
                           LET m == transcript[i] IN
                           /\ \A j \in DOMAIN transcript : i < j => m.id < transcript[j].id
                           /\ m.text = Latest({m.id} \cup Done({"edit"}, Devices, m.id))
                           /\ m.reacted = {d \in Devices :
                                LET r == Done({"add", "remove"}, {d}, m.id) IN
                                r # {} /\ topic[Latest(r)].op = "add"}
    BY DEF TranscriptSettles
  <2>1. Handled = Len(topic)
    BY DEF Handled
  <2>2. /\ Ids(transcript) = Recent
        /\ \A i, j \in 1 .. Len(transcript) : i < j => transcript[i].id < transcript[j].id
    BY <1>1, <2>1, NewestSettle, FewSettle
  <2>3. DOMAIN transcript = 1 .. Len(transcript)
    BY <1>1, LenProperties DEF Invariant, BaseInv, Types
  <2>4. QED
    BY <1>1, <2>1, <2>2, <2>3, ContentSettles
<1>2. QED
  BY <1>1, Inductive, PTL
-----------------------------------------------------------------------------
(* The other program of the command line: `agent inbox`, and the mailbox   *)
(* that it reads (AgentMailbox.tla).                                       *)

USE MessagesAssumption, SentByAssumption, ProcessesAssumption, RestartsAssumption
   DEF Readers, Off, NotRunning, settings

\* What an inbox command may list is a set of messages.
LEMMA ListingType == ASSUME NEW p PROVE Listing(p) \subseteq SUBSET Messages
BY DEF Listing, Unread, Oldest

\* MailboxTypeOK is an invariant of the mailbox.
THEOREM InboxTypeCorrect == MailboxSpec => []MailboxTypeOK
<1>1. MailboxInit => MailboxTypeOK
  BY DEF MailboxInit, MailboxTypeOK
<1>2. MailboxTypeOK /\ [MailboxNext]_mailboxVars => MailboxTypeOK'
  <2> SUFFICES ASSUME MailboxTypeOK, [MailboxNext]_mailboxVars PROVE MailboxTypeOK'
    OBVIOUS
  <2> USE DEF MailboxTypeOK
  <2>1. ASSUME NEW m \in Messages, Alert(m) PROVE MailboxTypeOK'
    BY <2>1 DEF Alert
  <2>2. ASSUME NEW m \in Messages, Fire(m) PROVE MailboxTypeOK'
    <3>1. CASE UNCHANGED <<proc, reader>>
      BY <2>2, <3>1 DEF Fire
    <3>2. ASSUME NEW p \in Hooks, reader' = [reader EXCEPT ![p].st = "started"], proc' = {p}
          PROVE  MailboxTypeOK'
      BY <2>2, <3>2 DEF Fire
    <3>3. QED
      BY <2>2, <3>1, <3>2 DEF Fire
  <2>3. ASSUME NEW m \in Messages, NEW ack \in BOOLEAN, HandleMessage(m, ack) PROVE MailboxTypeOK'
    BY <2>3 DEF HandleMessage, InsertOrIgnore
  <2>4. CASE Restart
    BY <2>4 DEF Restart
  <2>5. CASE ChangeSettings
    BY <2>5 DEF ChangeSettings
  <2>6. ASSUME NEW p \in Readers, StartByHand(p) PROVE MailboxTypeOK'
    BY <2>6 DEF StartByHand
  <2>7. ASSUME NEW p \in Readers, List(p) PROVE MailboxTypeOK'
    <3>1. PICK ms \in Listing(p) :
            /\ shown' = shown \cup ms
            /\ reader' = [reader EXCEPT ![p] = IF ms = {} THEN Off
                                               ELSE [st |-> "listed", listed |-> ms]]
      BY <2>7 DEF List
    <3>2. ms \subseteq Messages
      BY <3>1, ListingType
    <3>3. QED
      BY <2>7, <3>1, <3>2 DEF List
  <2>8. ASSUME NEW p \in Readers, MarkRead(p) PROVE MailboxTypeOK'
    BY <2>8 DEF MarkRead, MarkAllRead
  <2>9. ASSUME NEW p \in Readers, Exit(p) PROVE MailboxTypeOK'
    BY <2>9 DEF Exit
  <2>10. CASE UNCHANGED mailboxVars
    BY <2>10 DEF mailboxVars
  <2>11. QED
    BY <2>1, <2>2, <2>3, <2>4, <2>5, <2>6, <2>7, <2>8, <2>9, <2>10 DEF MailboxNext, ReaderStep
<1>3. QED
  BY <1>1, <1>2, PTL DEF MailboxSpec

-----------------------------------------------------------------------------
\* A message whose alert is still to come, or may still come, had none; it is
\* in the mailbox from before its alert.
AlertsInv ==
  \A m \in Messages :
    /\ alerts[m] <= 1
    /\ inbox[m] = "absent" \/ handling[m] = "alert" => alerts[m] = 0
    /\ handling[m] = "alert" => inbox[m] # "absent"

\* The inbox command never removes a message and never makes one new.
LEMMA ReadingKeepsAlerts ==
  ASSUME MailboxTypeOK, AlertsInv, NEW p \in Readers, MarkRead(p)
  PROVE  AlertsInv'
<1>1. \A m \in Messages : inbox'[m] = "absent" <=> inbox[m] = "absent"
  BY DEF MarkRead, MarkAllRead, MailboxTypeOK
<1>2. QED
  BY <1>1 DEF MarkRead, AlertsInv

\* One alert per message at most, for any redeliveries, crashes between the
\* INSERT and the alert, and restarts (agents.py:89, 178).
THEOREM AlertsAreUnique == MailboxSpec => []AlertedOnce
<1>1. MailboxInit => AlertsInv
  BY DEF MailboxInit, AlertsInv
<1>2. MailboxTypeOK /\ AlertsInv /\ [MailboxNext]_mailboxVars => AlertsInv'
  <2> SUFFICES ASSUME MailboxTypeOK, AlertsInv, [MailboxNext]_mailboxVars PROVE AlertsInv'
    OBVIOUS
  <2> USE DEF MailboxTypeOK, AlertsInv
  <2>1. ASSUME NEW m \in Messages, Alert(m) PROVE AlertsInv'
    BY <2>1 DEF Alert
  <2>2. ASSUME NEW m \in Messages, Fire(m) PROVE AlertsInv'
    BY <2>2 DEF Fire
  <2>3. ASSUME NEW m \in Messages, NEW ack \in BOOLEAN, HandleMessage(m, ack) PROVE AlertsInv'
    BY <2>3 DEF HandleMessage, InsertOrIgnore, IsNew
  <2>4. CASE Restart
    BY <2>4 DEF Restart
  <2>5. ASSUME NEW p \in Readers, MarkRead(p) PROVE AlertsInv'
    BY <2>5, ReadingKeepsAlerts
  <2>6. CASE UNCHANGED <<inbox, handling, alerts>>
    BY <2>6
  <2>7. QED
    BY <2>1, <2>2, <2>3, <2>4, <2>5, <2>6
    DEF MailboxNext, ReaderStep, ChangeSettings, StartByHand, List,
        Exit, mailboxVars
<1>3. AlertsInv => AlertedOnce
  BY DEF AlertsInv, AlertedOnce
<1>4. QED
  BY <1>1, <1>2, <1>3, InboxTypeCorrect, PTL DEF MailboxSpec

-----------------------------------------------------------------------------
\* A message once read stays read, whatever is redelivered and whoever reads
\* (agents.py:93).
THEOREM ReadIsKept == MailboxSpec => ReadStaysRead
<1>1. MailboxTypeOK /\ [MailboxNext]_mailboxVars => \A m \in Messages : inbox[m] = "read" => inbox'[m] = "read"
  <2> SUFFICES ASSUME MailboxTypeOK, [MailboxNext]_mailboxVars, NEW m \in Messages, inbox[m] = "read"
               PROVE  inbox'[m] = "read"
    OBVIOUS
  <2> USE DEF MailboxTypeOK
  <2>1. ASSUME NEW n \in Messages, NEW ack \in BOOLEAN, HandleMessage(n, ack) PROVE inbox'[m] = "read"
    BY <2>1 DEF HandleMessage, InsertOrIgnore
  <2>2. ASSUME NEW p \in Readers, MarkRead(p) PROVE inbox'[m] = "read"
    BY <2>2 DEF MarkRead, MarkAllRead
  <2>3. CASE UNCHANGED inbox
    BY <2>3
  <2>4. QED
    BY <2>1, <2>2, <2>3
    DEF MailboxNext, ReaderStep, Alert, Fire, Restart,
        ChangeSettings, StartByHand, List, Exit, mailboxVars
<1>2. MailboxTypeOK /\ [MailboxNext]_mailboxVars =>
        [\A m \in Messages : inbox[m] = "read" => inbox'[m] = "read"]_mailboxVars
  BY <1>1
<1>3. QED
  BY <1>2, InboxTypeCorrect, PTL DEF MailboxSpec, ReadStaysRead

-----------------------------------------------------------------------------
\* While the application is not restarted, the commands that run are those the
\* handler knows of, and it knows of one at most.
HookInv ==
  restarts = 0 =>
    /\ \A p \in Hooks : reader[p].st # "off" => p \in proc
    /\ \A p, q \in proc : p = q

\* However fast messages arrive, the handler never runs two commands at a time
\* (agents.py:150).
THEOREM OneHookOnly == MailboxSpec => []OneHookAtATime
<1>1. MailboxInit => HookInv
  BY DEF MailboxInit, HookInv
<1>2. MailboxTypeOK /\ HookInv /\ [MailboxNext]_mailboxVars => HookInv'
  <2> SUFFICES ASSUME MailboxTypeOK, HookInv, [MailboxNext]_mailboxVars PROVE HookInv'
    OBVIOUS
  <2> USE DEF MailboxTypeOK, HookInv
  <2>1. ASSUME NEW m \in Messages, Fire(m) PROVE HookInv'
    <3>1. CASE UNCHANGED <<proc, reader>>
      BY <2>1, <3>1 DEF Fire
    <3>2. ASSUME ~StillRunning, NEW p \in Hooks, reader' = [reader EXCEPT ![p].st = "started"],
                 proc' = {p}
          PROVE  HookInv'
      <4>1. restarts' = restarts
        BY <2>1 DEF Fire
      <4>2. restarts = 0 => \A q \in Hooks : reader[q].st = "off"
        BY <3>2 DEF StillRunning
      <4>3. QED
        BY <3>2, <4>1, <4>2
    <3>3. QED
      BY <2>1, <3>1, <3>2 DEF Fire
  <2>2. CASE Restart
    BY <2>2 DEF Restart
  <2>3. ASSUME NEW p \in Readers, StartByHand(p) PROVE HookInv'
    BY <2>3 DEF StartByHand
  <2>4. ASSUME NEW p \in Readers, List(p) PROVE HookInv'
    BY <2>4 DEF List
  <2>5. ASSUME NEW p \in Readers, MarkRead(p) \/ Exit(p) PROVE HookInv'
    BY <2>5 DEF MarkRead, Exit
  <2>6. CASE UNCHANGED <<proc, reader, restarts>>
    BY <2>6
  <2>7. QED
    BY <2>1, <2>2, <2>3, <2>4, <2>5, <2>6
    DEF MailboxNext, ReaderStep, Alert, HandleMessage, ChangeSettings,
        mailboxVars
<1>3. HookInv => OneHookAtATime
  BY DEF HookInv, OneHookAtATime
<1>4. QED
  BY <1>1, <1>2, <1>3, InboxTypeCorrect, PTL DEF MailboxSpec
=============================================================================
