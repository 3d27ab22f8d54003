------------------------------ MODULE PodCache ------------------------------
(***************************************************************************)
(* pkg/kubelet/container/cache.go: the pod statuses the workers read, and  *)
(* GetNewerThan, which waits for one that is newer than a given time.      *)
(*                                                                         *)
(* Every method is one step under the cache's lock, except that            *)
(*   - Set and UpdateTime are given a time that was read from the clock    *)
(*     before,                                                             *)
(*   - GetNewerThan subscribes under the lock and then waits, outside it,  *)
(*     on a channel of one place.                                          *)
(* What a status says is left out (PodCallbacks models it), and so is err, *)
(* which is nil in every Set of the repository.                            *)
(***************************************************************************)
EXTENDS Integers, Sequences

CONSTANTS
  Pods,        \* the UIDs statuses are kept for
  Readers,     \* goroutines that call GetNewerThan
  Writers,     \* goroutines that call Set and UpdateTime
  MaxTime      \* bound: ticks of the clock

ASSUME PodCacheAssumption == MaxTime \in Nat \ {0}

\* Time 0 is the zero time.Time, and the timestamp of a cache that has none.
Time == 0..MaxTime

\* An entry of pods; Absent is a missing key, for which get makes up an empty
\* status.
Entry == [present : BOOLEAN, modified : Time]
Absent == [present |-> FALSE, modified |-> 0]

\* A subRecord in the list of its pod.  Each call makes its own channel, so that
\* the reader stands for it.
SubRecord == [pod : Pods, reader : Readers, time : Time]

\* What goes through a channel: the entry, with the global timestamp of the moment.
Answer == [entry : Entry, timestamp : Time]

VARIABLES
  now,           \* the clock
  pods,          \* [Pods -> Entry]
  timestamp,     \* the global timestamp
  subscribers,   \* set of SubRecord
  ch,            \* [Readers -> Seq(Answer)], the channel of the reader's call
  calls,         \* set of SubRecord: the calls of GetNewerThan not yet returned
  stamped        \* [Writers -> the times a writer read for its next call]

vars == <<now, pods, timestamp, subscribers, ch, calls, stamped>>

TypeOK ==
  /\ now \in Time /\ timestamp \in Time
  /\ pods \in [Pods -> Entry]
  /\ subscribers \subseteq SubRecord
  /\ ch \in [Readers -> Seq(Answer)]
  /\ \A r \in Readers : Len(ch[r]) <= 1
  /\ calls \subseteq SubRecord
  /\ stamped \in [Writers -> SUBSET Time]

Init ==
  /\ now = 1 /\ timestamp = 0
  /\ pods = [p \in Pods |-> Absent]
  /\ subscribers = {} /\ calls = {}
  /\ ch = [r \in Readers |-> <<>>]
  /\ stamped = [w \in Writers |-> {}]

-----------------------------------------------------------------------------
\* getIfNewerThan finds something to return.
Newer(entry, global, minTime) ==
  global > minTime \/ (entry.present /\ entry.modified > minTime)

\* notify keeps the records that ask for more than the time it is given...
MutKept(record, time) == time > record.time
Kept(record, time) == time < record.time

\* ... in the lists, which the others leave, ...
Remaining(answered, S) == subscribers \ answered

\* ... answered, as far as they are for the pods in S, with the entries of the moment.
Notify(S, time, entries, global) ==
  LET answered == {s \in subscribers : s.pod \in S /\ ~Kept(s, time)}
      For(r) == {s \in answered : s.reader = r}
      Sent(s) == [entry |-> entries[s.pod], timestamp |-> global]
  IN
  /\ subscribers' = Remaining(answered, S)
  /\ ch' = [r \in Readers |->
       IF For(r) = {} THEN ch[r]
       ELSE Append(ch[r], Sent(CHOOSE s \in For(r) : TRUE))]

\* subscribe returns at once when there is something to return.
MutSubscribed(record, ready) == subscribers \union {record}
Subscribed(record, ready) ==
  IF ready THEN subscribers ELSE subscribers \union {record}

\* GetNewerThan, up to its wait
GetNewerThan(r, p, minTime) ==
  LET record == [pod |-> p, reader |-> r, time |-> minTime]
      ready == Newer(pods[p], timestamp, minTime)
  IN
  /\ minTime <= now
  /\ \A c \in calls : c.reader # r
  /\ calls' = calls \union {record}
  /\ subscribers' = Subscribed(record, ready)
  /\ ch' = [ch EXCEPT ![r] =
       IF ready THEN <<[entry |-> pods[p], timestamp |-> timestamp]>> ELSE <<>>]
  /\ UNCHANGED <<now, pods, timestamp, stamped>>

\* The rest of GetNewerThan; the channel is not used again.
Receive(r) ==
  /\ ch[r] # <<>>
  /\ \E c \in calls : c.reader = r /\ calls' = calls \ {c}
  /\ ch' = [ch EXCEPT ![r] = <<>>]
  /\ UNCHANGED <<now, pods, timestamp, subscribers, stamped>>

\* A caller evaluates time.Now() before it takes the lock.
Stamp(w) ==
  /\ stamped[w] = {}
  /\ stamped' = [stamped EXCEPT ![w] = {now}]
  /\ UNCHANGED <<now, pods, timestamp, subscribers, ch, calls>>

Set(w, p) ==
  \E t \in stamped[w] :
    /\ pods' = [pods EXCEPT ![p] = [present |-> TRUE, modified |-> t]]
    /\ Notify({p}, t, pods', timestamp)
    /\ stamped' = [stamped EXCEPT ![w] = {}]
    /\ UNCHANGED <<now, timestamp, calls>>

UpdateTime(w) ==
  \E t \in stamped[w] :
    /\ timestamp' = t
    /\ Notify(Pods, t, pods, t)
    /\ stamped' = [stamped EXCEPT ![w] = {}]
    /\ UNCHANGED <<now, pods, calls>>

Delete(p) ==
  /\ pods[p].present
  /\ pods' = [pods EXCEPT ![p] = Absent]
  /\ UNCHANGED <<now, timestamp, subscribers, ch, calls, stamped>>

Tick ==
  /\ now < MaxTime
  /\ now' = now + 1
  /\ UNCHANGED <<pods, timestamp, subscribers, ch, calls, stamped>>

Next ==
  \/ Tick
  \/ \E r \in Readers :
       \/ Receive(r)
       \/ \E p \in Pods, t \in Time : GetNewerThan(r, p, t)
  \/ \E w \in Writers :
       \/ Stamp(w) \/ UpdateTime(w)
       \/ \E p \in Pods : Set(w, p)
  \/ \E p \in Pods : Delete(p)

Spec == Init /\ [][Next]_vars

\* A goroutine whose channel has an answer goes on.
FairSpec == Spec /\ \A r \in Readers : WF_vars(Receive(r))

-----------------------------------------------------------------------------
(* Safety *)

\* No wakeup is lost: a call that still waits has nothing it could return, in
\* whatever order the times of Set and UpdateTime come in.
NoLostWakeup ==
  \A s \in subscribers : ~Newer(pods[s.pod], timestamp, s.time)

\* The send of notify, made under the lock, finds room: a subscriber's channel is
\* empty, and the subscriber is still there.
SendsFindRoom == \A s \in subscribers : s \in calls /\ ch[s.reader] = <<>>

\* Who waits in GetNewerThan is woken when there is something, and waking it does
\* not stop the cache.
SubscribersAreServed == NoLostWakeup /\ SendsFindRoom

\* A call that is not in a list any more has its answer.
UnlistedIsAnswered == \A c \in calls \ subscribers : ch[c.reader] # <<>>

\* An answer is not older than was asked for.
AnswersAreRecent ==
  \A c \in calls : \A i \in 1..Len(ch[c.reader]) :
    LET a == ch[c.reader][i]
    IN  a.timestamp >= c.time \/ (a.entry.present /\ a.entry.modified >= c.time)

-----------------------------------------------------------------------------
(* Liveness *)

\* A call returns once the cache as a whole is newer than what it asked for.
RefreshEndsWait ==
  \A c \in SubRecord : (c \in calls /\ timestamp > c.time) ~> c \notin calls
=============================================================================
