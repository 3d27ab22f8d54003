--------------------------- MODULE PodCacheProofs ---------------------------
(***************************************************************************)
(* Theorems about PodCache, for every number of pods, readers and writers, *)
(* every order of the calls and times that run as far as they like.        *)
(***************************************************************************)
EXTENDS PodCache, SequenceTheorems, TLAPS

\* A goroutine is in one call of GetNewerThan at a time.
OneCallPerReader == \A c, d \in calls : c.reader = d.reader => c = d

\* What is inductive: a subscriber's channel is empty, so that notify answers it and
\* nobody else; a call that left the list holds an answer.
CacheInv ==
  /\ TypeOK /\ OneCallPerReader
  /\ NoLostWakeup /\ SendsFindRoom /\ UnlistedIsAnswered /\ AnswersAreRecent

(***************************************************************************)
(* Lemmas                                                                  *)
(***************************************************************************)

LEMMA OneAnswer ==
  ASSUME NEW a \in Answer
  PROVE  /\ <<a>> \in Seq(Answer) /\ Len(<<a>>) = 1 /\ <<a>>[1] = a
         /\ <<a>> # <<>> /\ Append(<<>>, a) = <<a>>
<1>1. <<a>> \in Seq(Answer) /\ Len(<<a>>) = 1 /\ <<a>>[1] = a /\ <<a>> # <<>>
  OBVIOUS
<1>2. Append(<<>>, a) = <<a>>
  OBVIOUS
<1>3. QED
  BY <1>1, <1>2

\* notify takes from the lists the records of the pods in S that ask for a time that
\* has come, and answers exactly these.
Answered(S, time, entries, global) ==
  /\ subscribers' \subseteq subscribers
  /\ \A s \in subscribers' : s.pod \in S => time < s.time
  /\ \A s \in subscribers \ subscribers' :
       /\ s.pod \in S /\ s.time <= time
       /\ ch'[s.reader] =
            <<[entry |-> entries[s.pod], timestamp |-> global]>>
  /\ \A r \in Readers :
       (\A s \in subscribers \ subscribers' : s.reader # r) => ch'[r] = ch[r]

LEMMA NotifyAnswers ==
  ASSUME TypeOK, OneCallPerReader, SendsFindRoom,
         NEW S \in SUBSET Pods, NEW time \in Time,
         NEW entries \in [Pods -> Entry], NEW global \in Time,
         Notify(S, time, entries, global)
  PROVE  /\ Answered(S, time, entries, global)
         /\ ch' \in [Readers -> Seq(Answer)]
         /\ \A r \in Readers : Len(ch'[r]) <= 1
<1> DEFINE answered == {s \in subscribers : s.pod \in S /\ ~Kept(s, time)}
           For(r) == {s \in answered : s.reader = r}
           Sent(s) == [entry |-> entries[s.pod], timestamp |-> global]
<1>1. subscribers' = subscribers \ answered
  BY DEF Notify, Remaining
<1>2. ch' = [r \in Readers |-> IF For(r) = {} THEN ch[r]
               ELSE Append(ch[r], Sent(CHOOSE s \in For(r) : TRUE))]
  BY DEF Notify
<1>3. \A s \in subscribers : s \in calls /\ ch[s.reader] = <<>> /\ s \in SubRecord
  BY DEF SendsFindRoom, TypeOK
<1>4. \A s \in SubRecord : s.pod \in Pods /\ s.reader \in Readers /\ s.time \in Time
  BY DEF SubRecord
<1>5. \A s \in answered : s.pod \in S /\ ~(time < s.time)
  BY DEF Kept
<1>6. \A s \in answered : For(s.reader) = {s}
  BY <1>3 DEF OneCallPerReader
<1>7. \A s \in SubRecord : Sent(s) \in Answer
  BY <1>4 DEF Answer
<1>8. \A s \in answered : ch'[s.reader] = <<Sent(s)>>
  <2> SUFFICES ASSUME NEW s \in answered PROVE ch'[s.reader] = <<Sent(s)>>
    OBVIOUS
  <2>1. s.reader \in Readers /\ ch[s.reader] = <<>> /\ Sent(s) \in Answer
    BY <1>3, <1>4, <1>7
  <2>2. (CHOOSE x \in For(s.reader) : TRUE) = s /\ For(s.reader) # {}
    BY <1>6
  <2>3. ch'[s.reader] = Append(<<>>, Sent(s))
    BY <1>2, <2>1, <2>2
  <2>4. QED
    BY <2>1, <2>3, OneAnswer
<1>9. \A r \in Readers : (\A s \in answered : s.reader # r) => ch'[r] = ch[r]
  BY <1>2
<1>10. subscribers \ subscribers' = answered
  BY <1>1
<1>11. \A r \in Readers : ch'[r] \in Seq(Answer) /\ Len(ch'[r]) <= 1
  <2> SUFFICES ASSUME NEW r \in Readers
               PROVE  ch'[r] \in Seq(Answer) /\ Len(ch'[r]) <= 1
    OBVIOUS
  <2>1. CASE \E s \in answered : s.reader = r
    <3>1. PICK s \in answered : s.reader = r
      BY <2>1
    <3>2. Sent(s) \in Answer
      BY <1>3, <1>7
    <3>3. ch'[r] = <<Sent(s)>>
      BY <1>8, <3>1
    <3> HIDE DEF Sent
    <3>4. QED
      BY <3>2, <3>3, OneAnswer
  <2>2. CASE \A s \in answered : s.reader # r
    BY <1>9, <2>2 DEF TypeOK
  <2>3. QED
    BY <2>1, <2>2
<1>12. ch' = [r \in Readers |-> ch'[r]]
  BY <1>2
<1>13. ch' \in [Readers -> Seq(Answer)]
  BY <1>11, <1>12
<1> HIDE DEF answered
<1>14. \A s \in subscribers' : s.pod \in S => time < s.time
  BY <1>1 DEF answered, Kept
<1>15. \A s \in answered : s.time <= time
  <2> SUFFICES ASSUME NEW s \in answered PROVE s.time <= time
    OBVIOUS
  <2>1. s.time \in Time /\ ~(time < s.time)
    BY <1>3, <1>4, <1>5 DEF answered
  <2>2. s.time \in Nat /\ time \in Nat
    BY <2>1, PodCacheAssumption DEF Time
  <2>3. QED
    BY <2>1, <2>2
<1>16. QED
  BY <1>1, <1>5, <1>8, <1>9, <1>10, <1>11, <1>13, <1>14, <1>15 DEF Answered

(***************************************************************************)
(* The invariant                                                           *)
(***************************************************************************)

LEMMA InitInv == Init => CacheInv
<1> SUFFICES ASSUME Init PROVE CacheInv
  OBVIOUS
<1>1. <<>> \in Seq(Answer) /\ Len(<<>>) = 0
  BY EmptySeq
<1>2. 0 \in Time /\ 1 \in Time
  BY PodCacheAssumption DEF Time
<1>3. Absent \in Entry
  BY <1>2 DEF Absent, Entry
<1>4. TypeOK
  BY <1>1, <1>2, <1>3 DEF Init, TypeOK
<1>5. QED
  BY <1>4 DEF Init, CacheInv, OneCallPerReader, NoLostWakeup, SendsFindRoom,
              UnlistedIsAnswered, AnswersAreRecent

\* A step that touches neither the calls nor what they read keeps the invariant.
LEMMA QuietStep ==
  ASSUME CacheInv, TypeOK',
         UNCHANGED <<timestamp, subscribers, ch, calls>>,
         \A p \in Pods : pods'[p] = pods[p] \/ pods'[p] = Absent
  PROVE  CacheInv'
<1>1. \A s \in subscribers : s.pod \in Pods
  BY DEF CacheInv, TypeOK, SubRecord
<1>2. NoLostWakeup'
  BY <1>1 DEF CacheInv, NoLostWakeup, Newer, Absent
<1>3. QED
  BY <1>2 DEF CacheInv, OneCallPerReader, SendsFindRoom, UnlistedIsAnswered,
              AnswersAreRecent

\* Set and UpdateTime: what is answered is recent, what goes on waiting has nothing
\* to be answered with.
LEMMA NotifyStep ==
  ASSUME CacheInv, TypeOK',
         NEW S \in SUBSET Pods, NEW time \in Time,
         NEW entries \in [Pods -> Entry], NEW global \in Time,
         Answered(S, time, entries, global),
         entries = pods', global = timestamp', UNCHANGED calls,
         \A p \in Pods \ S : entries[p] = pods[p],
         \/ global = timestamp /\ \A p \in S : entries[p].present /\ entries[p].modified = time
         \/ S = Pods /\ global = time /\ entries = pods
  PROVE  CacheInv'
<1>1. /\ subscribers' \subseteq subscribers
      /\ \A s \in subscribers' : s.pod \in S => time < s.time
      /\ \A s \in subscribers \ subscribers' :
           /\ s.pod \in S /\ s.time <= time
           /\ ch'[s.reader] = <<[entry |-> entries[s.pod], timestamp |-> global]>>
      /\ \A r \in Readers :
           (\A s \in subscribers \ subscribers' : s.reader # r) => ch'[r] = ch[r]
  BY DEF Answered
<1>2. Time \subseteq Nat
  BY PodCacheAssumption DEF Time
<1>3. /\ \A s \in subscribers : s \in calls
      /\ \A c \in calls : c.pod \in Pods /\ c.reader \in Readers /\ c.time \in Time
  BY DEF CacheInv, SendsFindRoom, TypeOK, SubRecord
<1>4. \A p \in Pods : entries[p].modified \in Time /\ pods[p].modified \in Time
  BY DEF CacheInv, TypeOK, Entry
<1>5. NoLostWakeup'
  <2> SUFFICES ASSUME NEW s \in subscribers'
               PROVE  ~Newer(entries[s.pod], global, s.time)
    BY DEF NoLostWakeup
  <2>1. s.pod \in Pods /\ s.time \in Time /\ s \in subscribers
    BY <1>1, <1>3
  <2>2. ~Newer(pods[s.pod], timestamp, s.time)
    BY <2>1 DEF CacheInv, NoLostWakeup
  <2>3. CASE s.pod \in S
    <3>1. time < s.time
      BY <1>1, <2>3
    <3>2. ~(time > s.time)
      BY <1>2, <2>1, <3>1
    <3>3. QED
      BY <2>1, <2>2, <2>3, <3>2 DEF Newer
  <2>4. CASE s.pod \notin S
    BY <2>1, <2>2, <2>4 DEF Newer
  <2>5. QED
    BY <2>3, <2>4
\* A call whose channel changed has been answered; the others' channels stay.
<1>6. ASSUME NEW c \in calls
      PROVE  \/ c \in subscribers \ subscribers'
             \/ ch'[c.reader] = ch[c.reader]
  <2>1. ASSUME NEW s \in subscribers \ subscribers', s.reader = c.reader PROVE s = c
    BY <1>3, <2>1 DEF CacheInv, OneCallPerReader
  <2>2. QED
    BY <1>1, <1>3, <2>1
<1>7. \A c \in subscribers \ subscribers' :
        [entry |-> entries[c.pod], timestamp |-> global] \in Answer
  BY <1>3 DEF Answer
<1>8. SendsFindRoom'
  <2> SUFFICES ASSUME NEW s \in subscribers' PROVE s \in calls /\ ch'[s.reader] = <<>>
    BY DEF SendsFindRoom
  <2>1. s \in subscribers /\ s \in calls
    BY <1>1, <1>3
  <2>2. ch'[s.reader] = ch[s.reader]
    BY <1>6, <2>1
  <2>3. QED
    BY <2>1, <2>2 DEF CacheInv, SendsFindRoom
<1>9. UnlistedIsAnswered'
  <2> SUFFICES ASSUME NEW c \in calls, c \notin subscribers' PROVE ch'[c.reader] # <<>>
    BY DEF UnlistedIsAnswered
  <2>1. CASE c \in subscribers
    <3> DEFINE a == [entry |-> entries[c.pod], timestamp |-> global]
    <3>1. a \in Answer /\ ch'[c.reader] = <<a>>
      BY <1>1, <1>7, <2>1
    <3> HIDE DEF a
    <3>2. QED
      BY <3>1, OneAnswer
  <2>2. CASE c \notin subscribers
    BY <1>6, <2>2 DEF CacheInv, UnlistedIsAnswered
  <2>3. QED
    BY <2>1, <2>2
<1>10. AnswersAreRecent'
  <2> DEFINE Recent(a, t) == a.timestamp >= t \/ (a.entry.present /\ a.entry.modified >= t)
  <2> SUFFICES ASSUME NEW c \in calls, NEW i \in 1..Len(ch'[c.reader])
               PROVE  Recent(ch'[c.reader][i], c.time)
    BY DEF AnswersAreRecent
  <2>1. CASE c \in subscribers \ subscribers'
    <3> DEFINE a == [entry |-> entries[c.pod], timestamp |-> global]
    <3>1. a \in Answer /\ ch'[c.reader] = <<a>>
      BY <1>1, <1>7, <2>1
    <3>2. ch'[c.reader][i] = a
      <4> HIDE DEF a
      <4>1. Len(ch'[c.reader]) = 1 /\ ch'[c.reader][1] = a
        BY <3>1, OneAnswer
      <4>2. QED
        BY <4>1
    <3>3. c.pod \in S /\ c.time <= time /\ c.time \in Nat /\ time \in Nat
      BY <1>1, <1>2, <1>3, <2>1
    <3>4. time >= c.time
      BY <3>3
    <3>5. Recent(a, c.time)
      BY <1>3, <3>3, <3>4
    <3>6. QED
      BY <3>2, <3>5
  <2>2. CASE ch'[c.reader] = ch[c.reader]
    BY <2>2 DEF CacheInv, AnswersAreRecent
  <2>3. QED
    BY <1>6, <2>1, <2>2
<1>11. QED
  BY <1>5, <1>8, <1>9, <1>10 DEF CacheInv, OneCallPerReader

LEMMA NextType ==
  ASSUME CacheInv, [Next]_vars
  PROVE  TypeOK'
<1> USE DEF CacheInv
<1>1. Time \subseteq Nat /\ 0 \in Time
  BY PodCacheAssumption DEF Time
<1>2. CASE Tick
  BY <1>2, PodCacheAssumption DEF Tick, TypeOK, Time
<1>3. ASSUME NEW r \in Readers, Receive(r) PROVE TypeOK'
  <2>1. ch' \in [Readers -> Seq(Answer)] /\ \A q \in Readers : Len(ch'[q]) <= 1
    <3>1. <<>> \in Seq(Answer) /\ Len(<<>>) = 0
      BY EmptySeq
    <3>2. QED
      BY <1>3, <3>1 DEF Receive, TypeOK
  <2>2. QED
    BY <1>3, <2>1 DEF Receive, TypeOK
<1>4. ASSUME NEW r \in Readers, NEW p \in Pods, NEW t \in Time, GetNewerThan(r, p, t)
      PROVE  TypeOK'
  <2> DEFINE a == [entry |-> pods[p], timestamp |-> timestamp]
             record == [pod |-> p, reader |-> r, time |-> t]
  <2>1. record \in SubRecord /\ a \in Answer
    BY DEF TypeOK, SubRecord, Answer
  <2>2. ch'[r] \in {<<>>, <<a>>} /\ ch' = [ch EXCEPT ![r] = ch'[r]]
    BY <1>4 DEF GetNewerThan, TypeOK
  <2>3. calls' = calls \union {record} /\ subscribers' \subseteq subscribers \union {record}
    BY <1>4 DEF GetNewerThan, Subscribed
  <2> HIDE DEF a
  <2>4. /\ <<>> \in Seq(Answer) /\ Len(<<>>) = 0
        /\ <<a>> \in Seq(Answer) /\ Len(<<a>>) = 1
    BY <2>1, EmptySeq, OneAnswer
  <2>5. ch' \in [Readers -> Seq(Answer)] /\ \A q \in Readers : Len(ch'[q]) <= 1
    <3>1. ch'[r] \in Seq(Answer) /\ (Len(ch'[r]) = 0 \/ Len(ch'[r]) = 1)
      BY <2>2, <2>4
    <3>2. ch' = [q \in Readers |-> IF q = r THEN ch'[r] ELSE ch[q]]
      BY <1>4 DEF GetNewerThan, TypeOK
    <3>3. \A q \in Readers : ch'[q] \in Seq(Answer) /\ Len(ch'[q]) <= 1
      <4> SUFFICES ASSUME NEW q \in Readers
                   PROVE  ch'[q] \in Seq(Answer) /\ Len(ch'[q]) <= 1
        OBVIOUS
      <4>1. CASE q = r
        <5>1. ch'[q] \in Seq(Answer) /\ (Len(ch'[q]) = 0 \/ Len(ch'[q]) = 1)
          BY <3>1, <4>1
        <5>2. ASSUME NEW n \in {0, 1} PROVE n <= 1
          OBVIOUS
        <5>3. QED
          BY <5>1, <5>2
      <4>2. CASE q # r
        <5>1. ch'[q] = ch[q]
          BY <3>2, <4>2
        <5>2. ch[q] \in Seq(Answer) /\ Len(ch[q]) <= 1
          BY DEF TypeOK
        <5>3. QED
          BY <5>1, <5>2
      <4>3. QED
        BY <4>1, <4>2
    <3>4. ch' = [q \in Readers |-> ch'[q]]
      BY <3>2
    <3>5. QED
      BY <3>3, <3>4
  <2>6. UNCHANGED <<now, pods, timestamp, stamped>>
    BY <1>4 DEF GetNewerThan
  <2>7. calls' \subseteq SubRecord /\ subscribers' \subseteq SubRecord
    BY <2>1, <2>3 DEF TypeOK
  <2>8. QED
    BY <2>5, <2>6, <2>7 DEF TypeOK
<1>5. ASSUME NEW w \in Writers, Stamp(w) PROVE TypeOK'
  BY <1>5 DEF Stamp, TypeOK
<1>6. ASSUME NEW w \in Writers, UpdateTime(w) PROVE TypeOK'
  <2>1. PICK t \in stamped[w] :
          /\ timestamp' = t
          /\ Notify(Pods, t, pods, t)
          /\ stamped' = [stamped EXCEPT ![w] = {}]
          /\ UNCHANGED <<now, pods, calls>>
    BY <1>6 DEF UpdateTime
  <2>2. t \in Time
    BY DEF TypeOK
  <2>3. PICK e \in [Pods -> Entry] : e = pods
    BY DEF TypeOK
  <2>4. Notify(Pods, t, e, t)
    BY <2>1, <2>3
  <2>5. /\ subscribers' \subseteq subscribers
        /\ ch' \in [Readers -> Seq(Answer)]
        /\ \A r \in Readers : Len(ch'[r]) <= 1
    BY <2>2, <2>4, NotifyAnswers DEF Answered
  <2>6. QED
    BY <2>1, <2>2, <2>5 DEF TypeOK
<1>7. ASSUME NEW w \in Writers, NEW p \in Pods, Set(w, p) PROVE TypeOK'
  <2>1. PICK t \in stamped[w] :
          /\ pods' = [pods EXCEPT ![p] = [present |-> TRUE, modified |-> t]]
          /\ Notify({p}, t, pods', timestamp)
          /\ stamped' = [stamped EXCEPT ![w] = {}]
          /\ UNCHANGED <<now, timestamp, calls>>
    BY <1>7 DEF Set
  <2>2. t \in Time /\ timestamp \in Time
    BY DEF TypeOK
  <2>3. pods' \in [Pods -> Entry]
    BY <2>1, <2>2 DEF TypeOK, Entry
  <2>4. PICK e \in [Pods -> Entry] : e = pods'
    BY <2>3
  <2>5. PICK g \in Time : g = timestamp
    BY <2>2
  <2>6. Notify({p}, t, e, g)
    BY <2>1, <2>4, <2>5
  <2>7. /\ subscribers' \subseteq subscribers
        /\ ch' \in [Readers -> Seq(Answer)]
        /\ \A r \in Readers : Len(ch'[r]) <= 1
    BY <2>2, <2>6, NotifyAnswers DEF Answered
  <2>8. QED
    BY <2>1, <2>3, <2>7 DEF TypeOK
<1>8. ASSUME NEW p \in Pods, Delete(p) PROVE TypeOK'
  BY <1>1, <1>8 DEF Delete, TypeOK, Absent, Entry
<1>9. CASE UNCHANGED vars
  BY <1>9 DEF vars, TypeOK
<1>10. QED
  BY <1>2, <1>3, <1>4, <1>5, <1>6, <1>7, <1>8, <1>9 DEF Next

LEMMA NextInv ==
  ASSUME CacheInv, [Next]_vars
  PROVE  CacheInv'
<1>1. TypeOK' /\ TypeOK
  BY NextType DEF CacheInv
<1>2. CASE Tick
  BY <1>1, <1>2, QuietStep DEF Tick
<1>3. ASSUME NEW r \in Readers, Receive(r) PROVE CacheInv'
  <2>1. PICK c \in calls : c.reader = r /\ calls' = calls \ {c}
    BY <1>3 DEF Receive
  <2>2. /\ ch[r] # <<>> /\ ch' = [ch EXCEPT ![r] = <<>>]
        /\ UNCHANGED <<now, pods, timestamp, subscribers, stamped>>
    BY <1>3 DEF Receive
  <2>3. \A d \in calls' : d \in calls /\ d.reader # r /\ d.reader \in Readers
    BY <2>1 DEF CacheInv, OneCallPerReader, TypeOK, SubRecord
  <2>4. \A d \in calls' : ch'[d.reader] = ch[d.reader]
    BY <1>1, <2>2, <2>3 DEF TypeOK
  <2>5. NoLostWakeup'
    BY <2>2 DEF CacheInv, NoLostWakeup
  <2>6. SendsFindRoom'
    <3>1. c \notin subscribers
      BY <2>1, <2>2 DEF CacheInv, SendsFindRoom
    <3>2. \A s \in subscribers : s \in calls /\ ch[s.reader] = <<>>
      BY DEF CacheInv, SendsFindRoom
    <3>3. \A s \in subscribers : s \in calls' /\ ch'[s.reader] = <<>>
      BY <2>1, <2>4, <3>1, <3>2
    <3>4. QED
      BY <2>2, <3>3 DEF SendsFindRoom
  <2>7. UnlistedIsAnswered'
    BY <2>2, <2>3, <2>4 DEF CacheInv, UnlistedIsAnswered
  <2>8. AnswersAreRecent'
    BY <2>3, <2>4 DEF CacheInv, AnswersAreRecent
  <2>9. OneCallPerReader'
    BY <2>3 DEF CacheInv, OneCallPerReader
  <2>10. QED
    BY <1>1, <2>5, <2>6, <2>7, <2>8, <2>9 DEF CacheInv
<1>4. ASSUME NEW r \in Readers, NEW p \in Pods, NEW t \in Time, GetNewerThan(r, p, t)
      PROVE  CacheInv'
  <2> DEFINE a == [entry |-> pods[p], timestamp |-> timestamp]
             record == [pod |-> p, reader |-> r, time |-> t]
             ready == Newer(pods[p], timestamp, t)
  <2>1. /\ \A c \in calls : c.reader # r
        /\ calls' = calls \union {record}
        /\ subscribers' = IF ready THEN subscribers ELSE subscribers \union {record}
        /\ ch' = [ch EXCEPT ![r] = IF ready THEN <<a>> ELSE <<>>]
        /\ UNCHANGED <<now, pods, timestamp, stamped>>
    BY <1>4 DEF GetNewerThan, Subscribed
  <2>2. \A c \in calls : c.reader \in Readers /\ ch'[c.reader] = ch[c.reader]
    BY <1>1, <2>1 DEF TypeOK, SubRecord
  <2>3. \A s \in subscribers : s \in calls
    BY DEF CacheInv, SendsFindRoom
  <2>4. record.pod = p /\ record.reader = r /\ record.time = t
    OBVIOUS
  <2>5. ch'[r] = IF ready THEN <<a>> ELSE <<>>
    BY <1>1, <2>1 DEF TypeOK
  <2>6. a \in Answer
    BY <1>1 DEF TypeOK, Answer
  <2> HIDE DEF a, record, ready
  <2>7. OneCallPerReader'
    BY <2>1, <2>4 DEF CacheInv, OneCallPerReader
  <2>8. NoLostWakeup'
    BY <2>1, <2>4 DEF CacheInv, NoLostWakeup, ready
  <2>9. SendsFindRoom'
    BY <2>1, <2>2, <2>3, <2>4, <2>5 DEF CacheInv, SendsFindRoom
  <2>10. UnlistedIsAnswered'
    <3>1. record \notin calls
      BY <2>1, <2>4
    <3>2. ASSUME NEW c \in calls', c \notin subscribers' PROVE ch'[c.reader] # <<>>
      <4>1. CASE c = record
        BY <2>1, <2>4, <2>5, <2>6, <3>2, <4>1, OneAnswer
      <4>2. CASE c \in calls
        BY <2>1, <2>2, <3>2, <4>2 DEF CacheInv, UnlistedIsAnswered
      <4>3. QED
        BY <2>1, <4>1, <4>2
    <3>3. QED
      BY <3>2 DEF UnlistedIsAnswered
  <2>11. AnswersAreRecent'
    <3> SUFFICES ASSUME NEW c \in calls', NEW i \in 1..Len(ch'[c.reader])
                 PROVE  \/ ch'[c.reader][i].timestamp >= c.time
                        \/ /\ ch'[c.reader][i].entry.present
                           /\ ch'[c.reader][i].entry.modified >= c.time
      BY DEF AnswersAreRecent
    <3>1. CASE c \in calls
      BY <2>2, <3>1 DEF CacheInv, AnswersAreRecent
    <3>2. CASE c = record /\ ready
      <4>1. ch'[c.reader][i] = a
        BY <2>4, <2>5, <2>6, <3>2, OneAnswer
      <4>2. /\ timestamp \in Nat /\ pods[p].modified \in Nat /\ t \in Nat
            /\ a.timestamp = timestamp /\ a.entry = pods[p]
        BY <1>1, PodCacheAssumption DEF TypeOK, Entry, Time, a
      <4>3. timestamp > t \/ (pods[p].present /\ pods[p].modified > t)
        BY <3>2 DEF ready, Newer
      <4>4. QED
        BY <2>4, <3>2, <4>1, <4>2, <4>3
    <3>3. CASE c = record /\ ~ready
      BY <2>4, <2>5, <3>3, EmptySeq
    <3>4. QED
      BY <2>1, <3>1, <3>2, <3>3
  <2>12. QED
    BY <1>1, <2>7, <2>8, <2>9, <2>10, <2>11 DEF CacheInv
<1>5. ASSUME NEW w \in Writers, Stamp(w) PROVE CacheInv'
  BY <1>1, <1>5, QuietStep DEF Stamp
<1>6. ASSUME NEW w \in Writers, UpdateTime(w) PROVE CacheInv'
  <2>1. PICK t \in stamped[w] :
          timestamp' = t /\ Notify(Pods, t, pods, t) /\ UNCHANGED <<pods, calls>>
    BY <1>6 DEF UpdateTime
  <2>2. t \in Time
    BY <1>1 DEF TypeOK
  <2>3. PICK e \in [Pods -> Entry] : e = pods
    BY <1>1 DEF TypeOK
  <2>4. Notify(Pods, t, e, t)
    BY <2>1, <2>3
  <2>5. Answered(Pods, t, e, t)
    BY <2>2, <2>4, NotifyAnswers DEF CacheInv
  <2>6. /\ e = pods' /\ t = timestamp' /\ UNCHANGED calls
        /\ \A q \in Pods \ Pods : e[q] = pods[q]
    BY <2>1, <2>3
  <2>7. QED
    BY <1>1, <2>2, <2>3, <2>5, <2>6, NotifyStep
<1>7. ASSUME NEW w \in Writers, NEW p \in Pods, Set(w, p) PROVE CacheInv'
  <2>1. PICK t \in stamped[w] :
          /\ pods' = [pods EXCEPT ![p] = [present |-> TRUE, modified |-> t]]
          /\ Notify({p}, t, pods', timestamp)
          /\ UNCHANGED <<timestamp, calls>>
    BY <1>7 DEF Set
  <2>2. t \in Time /\ timestamp \in Time /\ {p} \in SUBSET Pods
    BY <1>1 DEF TypeOK
  <2>3. PICK e \in [Pods -> Entry] : e = pods'
    BY <1>1 DEF TypeOK
  <2>4. PICK g \in Time : g = timestamp
    BY <2>2
  <2>5. Notify({p}, t, e, g) /\ g = timestamp' /\ UNCHANGED calls
    BY <2>1, <2>3, <2>4
  <2>6. Answered({p}, t, e, g)
    BY <2>2, <2>5, NotifyAnswers DEF CacheInv
  <2>7. /\ \A q \in Pods \ {p} : e[q] = pods[q]
        /\ \A q \in {p} : e[q].present /\ e[q].modified = t
    BY <1>1, <2>1, <2>3 DEF TypeOK
  <2>8. QED
    BY <1>1, <2>2, <2>3, <2>4, <2>5, <2>6, <2>7, NotifyStep
<1>8. ASSUME NEW p \in Pods, Delete(p) PROVE CacheInv'
  <2>1. \A q \in Pods : pods'[q] = pods[q] \/ pods'[q] = Absent
    BY <1>1, <1>8 DEF Delete, TypeOK
  <2>2. QED
    BY <1>1, <1>8, <2>1, QuietStep DEF Delete
<1>9. CASE UNCHANGED vars
  BY <1>1, <1>9, QuietStep DEF vars
<1>10. QED
  BY <1>2, <1>3, <1>4, <1>5, <1>6, <1>7, <1>8, <1>9 DEF Next

(***************************************************************************)
(* Theorems                                                                *)
(***************************************************************************)

\* The conjunction the theorems below are taken from.
THEOREM CacheInvariant == Spec => []CacheInv
  BY InitInv, NextInv, PTL DEF Spec

\* Entries, lists and channels are well typed, and a channel never holds two answers.
THEOREM CacheTypeCorrect == Spec => []TypeOK
<1>1. CacheInv => TypeOK
  BY DEF CacheInv
<1>2. QED
  BY <1>1, CacheInvariant, PTL

\* cache.go, GetNewerThan: a reader never waits for a status that is there, in
\* whatever order the times of Set and UpdateTime come in.
THEOREM NoWakeupIsLost == Spec => []NoLostWakeup
<1>1. CacheInv => NoLostWakeup
  BY DEF CacheInv
<1>2. QED
  BY <1>1, CacheInvariant, PTL

\* cache.go, notify: the send under the cache's lock never waits.
THEOREM NotifyNeverBlocks == Spec => []SendsFindRoom
<1>1. CacheInv => SendsFindRoom
  BY DEF CacheInv
<1>2. QED
  BY <1>1, CacheInvariant, PTL

\* cache.go, notify and subscribe: a record leaves its list only with an answer.
THEOREM NoSilentRemoval == Spec => []UnlistedIsAnswered
<1>1. CacheInv => UnlistedIsAnswered
  BY DEF CacheInv
<1>2. QED
  BY <1>1, CacheInvariant, PTL

\* cache.go, GetNewerThan: an answer is not older than was asked for.
THEOREM NoStaleAnswer == Spec => []AnswersAreRecent
<1>1. CacheInv => AnswersAreRecent
  BY DEF CacheInv
<1>2. QED
  BY <1>1, CacheInvariant, PTL

\* No reader is forgotten and the send of notify never blocks, together.
THEOREM SubscribersAreServedHolds == Spec => []SubscribersAreServed
<1>1. NoLostWakeup /\ SendsFindRoom => SubscribersAreServed
  BY DEF SubscribersAreServed
<1>2. QED
  BY <1>1, NoWakeupIsLost, NotifyNeverBlocks, PTL
=============================================================================
