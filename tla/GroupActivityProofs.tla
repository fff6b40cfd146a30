-------------------------- MODULE GroupActivityProofs --------------------------
(***************************************************************************)
(* What the trimmed deques of GroupActivityTracker tell is true of all     *)
(* that happened, for every number of chats, every window, every length of *)
(* the deques and every cooldown.                                          *)
(*                                                                         *)
(* Neither property is inductive.  The deque of messages is the end of the *)
(* record, but to see that a message dropped for its age has no younger    *)
(* one before it, the record must be in the order of its time stamps       *)
(* (RecentInv); the deque of replies drops by age only, and the last reply *)
(* is the latest (RepliesInv).                                             *)
(***************************************************************************)
EXTENDS ActivityRecord, Integers, FiniteSetTheorems, NaturalsInduction, TLAPS

\* s is what is left of log when its first `off' entries are dropped.
Suffix(s, log, off) ==
    /\ off \in Nat /\ off + Len(s) = Len(log)
    /\ \A i \in 1..Len(s) : s[i] = log[i + off]

-----------------------------------------------------------------------------
(* The operators on deques. *)

\* LastN drops from the front, and nothing unless n entries are left.
LEMMA LastNSuffix ==
  ASSUME NEW S, NEW s \in Seq(S), NEW n \in Nat
  PROVE  /\ LastN(s, n) \in Seq(S) /\ Len(LastN(s, n)) <= n
         /\ \E off \in Nat : /\ Suffix(LastN(s, n), s, off)
                             /\ off = 0 \/ Len(LastN(s, n)) = n
<1>0. Len(s) \in Nat
  OBVIOUS
<1>1. CASE Len(s) <= n
  <2>1. LastN(s, n) = s
    BY <1>1 DEF LastN
  <2>2. Suffix(s, s, 0)
    BY <1>0 DEF Suffix
  <2> QED
    BY <1>1, <2>1, <2>2
<1>2. CASE ~(Len(s) <= n)
  <2> DEFINE off == Len(s) - n
  <2>1. off \in Nat /\ off + 1 \in 1..Len(s) + 1
    BY <1>0, <1>2
  <2>2. LastN(s, n) = SubSeq(s, off + 1, Len(s))
    BY <1>2 DEF LastN
  <2>3. LastN(s, n) \in Seq(S) /\ Len(LastN(s, n)) = n
    BY <1>0, <2>1, <2>2
  <2>4. \A i \in 1..n : LastN(s, n)[i] = s[i + off]
    BY <1>0, <2>1, <2>2
  <2>5. off \in Nat /\ off + n = Len(s)
    BY <1>0, <1>2
  <2> HIDE DEF off
  <2>6. Suffix(LastN(s, n), s, off)
    BY <2>3, <2>4, <2>5 DEF Suffix
  <2> QED
    BY <2>3, <2>5, <2>6
<1> QED
  BY <1>1, <1>2

LEMMA LeastPosition ==
  ASSUME NEW T \in SUBSET Nat, T # {}
  PROVE  \E k \in T : \A j \in T : k <= j
<1>1. PICK k \in T : \A j \in T : ~(<<j, k>> \in OpToRel(<, Nat))
  BY NatLessThanWellFounded, WFMin
<1>2. ASSUME NEW j \in T, ~(k <= j)
      PROVE  FALSE
  <2>1. <<j, k>> \in {p \in Nat \X Nat : p[1] < p[2]}
    BY <1>2
  <2>2. <<j, k>> \in OpToRel(<, Nat)
    BY <2>1 DEF OpToRel
  <2> QED
    BY <1>1, <2>2
<1> QED
  BY <1>2

\* DropOld drops from the front, and only what is too old.
LEMMA DropOldSuffix ==
  ASSUME NEW S, NEW s \in Seq(S), NEW age \in Nat, now \in Nat,
         NEW stamps \in [1..Len(s) -> Nat]
  PROVE  /\ DropOld(s, stamps, age) \in Seq(S)
         /\ \E off \in Nat : /\ Suffix(DropOld(s, stamps, age), s, off)
                             /\ \A i \in 1..off : stamps[i] + age < now
<1> DEFINE young == Young(stamps, age)
<1>0. Len(s) \in Nat /\ young \subseteq 1..Len(s)
  BY DEF Young
<1>1. \A i \in 1..Len(s) : i \notin young => stamps[i] + age < now
  BY DEF Young
<1>2. CASE young = {}
  <2>1. DropOld(s, stamps, age) = <<>>
    BY <1>2 DEF DropOld
  <2>2. Suffix(<<>>, s, Len(s))
    BY <1>0 DEF Suffix
  <2>3. \A i \in 1..Len(s) : stamps[i] + age < now
    BY <1>1, <1>2
  <2> QED
    BY <1>0, <2>1, <2>2, <2>3
<1>3. CASE young # {}
  <2> DEFINE k == CHOOSE i \in young : \A j \in young : i <= j
  <2>1. young \in SUBSET Nat
    BY <1>0
  <2>2. k \in young /\ \A j \in young : k <= j
    BY <1>3, <2>1, LeastPosition
  <2>3. DropOld(s, stamps, age) = SubSeq(s, k, Len(s))
    BY <1>3 DEF DropOld
  <2>4. k \in 1..Len(s)
    BY <1>0, <2>2
  <2> HIDE DEF k, young
  <2>5. SubSeq(s, k, Len(s)) \in Seq(S) /\ Len(SubSeq(s, k, Len(s))) = Len(s) - k + 1
    BY <1>0, <2>4
  <2>6. \A i \in 1..Len(s) - k + 1 : SubSeq(s, k, Len(s))[i] = s[i + (k - 1)]
    BY <1>0, <2>4
  <2>7. Suffix(SubSeq(s, k, Len(s)), s, k - 1)
    BY <1>0, <2>4, <2>5, <2>6 DEF Suffix
  <2>8. \A i \in 1..k - 1 : stamps[i] + age < now
    BY <1>0, <1>1, <2>2, <2>4
  <2>9. k - 1 \in Nat
    BY <2>4
  <2> QED
    BY <2>3, <2>5, <2>7, <2>8, <2>9
<1> QED
  BY <1>2, <1>3

LEMMA SuffixOfSuffix ==
  ASSUME NEW S, NEW r \in Seq(S), NEW s \in Seq(S), NEW log \in Seq(S),
         NEW m, NEW n, Suffix(r, s, m), Suffix(s, log, n)
  PROVE  Suffix(r, log, m + n)
<1>1. /\ m \in Nat /\ n \in Nat /\ Len(r) \in Nat /\ Len(s) \in Nat /\ Len(log) \in Nat
      /\ m + Len(r) = Len(s) /\ n + Len(s) = Len(log)
  BY DEF Suffix
<1>2. ASSUME NEW i \in 1..Len(r)
      PROVE  r[i] = log[i + (m + n)]
  <2>1. i + m \in 1..Len(s) /\ (i + m) + n = i + (m + n)
    BY <1>1 DEF Suffix
  <2> QED
    BY <2>1 DEF Suffix
<1>3. m + n \in Nat /\ (m + n) + Len(r) = Len(log)
  BY <1>1
<1>4. \A i \in 1..Len(r) : r[i] = log[i + (m + n)]
  BY <1>2
<1> DEFINE k == m + n
<1>5. k \in Nat /\ k + Len(r) = Len(log) /\ \A i \in 1..Len(r) : r[i] = log[i + k]
  BY <1>3, <1>4
<1> HIDE DEF k
<1>6. Suffix(r, log, k)
  BY <1>5 DEF Suffix
<1> QED
  BY <1>6 DEF k

\* An entry that is appended to both keeps one a suffix of the other.
LEMMA AppendSuffix ==
  ASSUME NEW S, NEW s \in Seq(S), NEW log \in Seq(S), NEW e \in S, NEW n,
         Suffix(s, log, n)
  PROVE  Suffix(Append(s, e), Append(log, e), n)
<1>1. /\ Len(s) \in Nat /\ Len(log) \in Nat /\ n \in Nat /\ n + Len(s) = Len(log)
      /\ Len(Append(s, e)) = Len(s) + 1 /\ Len(Append(log, e)) = Len(log) + 1
  BY DEF Suffix
<1>2. ASSUME NEW i \in 1..Len(s) + 1
      PROVE  Append(s, e)[i] = Append(log, e)[i + n]
  <2>1. CASE i = Len(s) + 1
    <3>1. i + n = Len(log) + 1
      BY <1>1, <2>1
    <3> QED
      BY <2>1, <3>1
  <2>2. CASE i # Len(s) + 1
    <3>1. i \in 1..Len(s) /\ i + n \in 1..Len(log)
      BY <1>1, <2>2
    <3>2. Append(s, e)[i] = s[i] /\ Append(log, e)[i + n] = log[i + n]
      BY <3>1
    <3> QED
      BY <3>1, <3>2 DEF Suffix
  <2> QED
    BY <2>1, <2>2
<1> DEFINE t == Append(s, e)
           l == Append(log, e)
<1>3. n + (Len(s) + 1) = Len(log) + 1
  BY <1>1
<1>4. /\ n \in Nat /\ n + Len(t) = Len(l)
      /\ \A i \in 1..Len(t) : t[i] = l[i + n]
  BY <1>1, <1>2, <1>3, Zenon
<1> HIDE DEF t, l
<1>5. Suffix(t, l, n)
  BY <1>4 DEF Suffix
<1> QED
  BY <1>5 DEF t, l

LEMMA SeqEqual ==
  ASSUME NEW S, NEW s \in Seq(S), NEW t \in Seq(S), Len(s) = Len(t),
         \A i \in 1..Len(s) : s[i] = t[i]
  PROVE  s = t
<1>1. /\ DOMAIN s = 1..Len(s) /\ DOMAIN t = 1..Len(s)
      /\ s = [i \in 1..Len(s) |-> s[i]] /\ t = [i \in 1..Len(s) |-> t[i]]
  OBVIOUS
<1> QED
  BY <1>1

-----------------------------------------------------------------------------
(* Types. *)

RecordTypeOK ==
    /\ ActivityTypeOK
    /\ messageLog \in [Chats -> Seq(Record)]
    /\ replyLog \in [Chats -> Seq(1..MaxTime)]

LEMMA ActivityConstants ==
  /\ Window \in Nat /\ MaxRecent \in Nat /\ Hour \in Nat /\ MaxTime \in Nat
  /\ Window # 0 /\ MaxRecent # 0 /\ Hour # 0 /\ MaxTime # 0
  BY ActivityAssumption

LEMMA RecordType ==
  ASSUME RecordTypeOK, NEW c \in Chats, NEW media \in BOOLEAN
  PROVE  LET e == [at |-> now, media |-> media]
             appended == Append(recent[c], e)
         IN  /\ e \in Record
             /\ appended \in Seq(Record)
             /\ Stamps(appended) \in [1..Len(appended) -> Nat]
             /\ \A i \in 1..Len(appended) : Stamps(appended)[i] = appended[i].at
             /\ DropOld(appended, Stamps(appended), Window) \in Seq(Record)
<1> DEFINE e == [at |-> now, media |-> media]
           appended == Append(recent[c], e)
<1>1. e \in Record
  BY DEF RecordTypeOK, ActivityTypeOK, Record
<1>2. recent[c] \in Seq(Record)
  BY DEF RecordTypeOK, ActivityTypeOK
<1>3. appended \in Seq(Record)
  BY <1>1, <1>2
<1>4. now \in Nat /\ Window \in Nat
  BY ActivityConstants DEF RecordTypeOK, ActivityTypeOK
<1> HIDE DEF e, appended
<1>5. ASSUME NEW i \in 1..Len(appended)
      PROVE  appended[i].at \in Nat
  <2>1. appended[i] \in Record
    BY <1>3
  <2>2. appended[i].at \in 1..MaxTime
    BY <2>1 DEF Record
  <2> QED
    BY <2>2, ActivityConstants
<1>6. /\ Stamps(appended) \in [1..Len(appended) -> Nat]
      /\ \A i \in 1..Len(appended) : Stamps(appended)[i] = appended[i].at
  <2>1. DOMAIN appended = 1..Len(appended)
    BY <1>3
  <2> QED
    BY <1>5, <2>1 DEF Stamps
<1>7. DropOld(appended, Stamps(appended), Window) \in Seq(Record)
  BY <1>3, <1>4, <1>6, DropOldSuffix
<1> QED
  BY <1>1, <1>3, <1>6, <1>7 DEF e, appended

LEMMA ReplyType ==
  ASSUME RecordTypeOK, NEW c \in Chats
  PROVE  LET appended == Append(replyTimes[c], now)
         IN  /\ now \in 1..MaxTime /\ now \in Nat
             /\ appended \in Seq(1..MaxTime)
             /\ appended \in [1..Len(appended) -> Nat]
             /\ DropOld(appended, appended, Hour) \in Seq(1..MaxTime)
<1> DEFINE appended == Append(replyTimes[c], now)
<1>1. now \in 1..MaxTime /\ now \in Nat /\ Hour \in Nat
  BY ActivityConstants DEF RecordTypeOK, ActivityTypeOK
<1>2. replyTimes[c] \in Seq(1..MaxTime)
  BY DEF RecordTypeOK, ActivityTypeOK
<1>3. appended \in Seq(1..MaxTime)
  BY <1>1, <1>2
<1> HIDE DEF appended
<1>4. appended \in [1..Len(appended) -> Nat]
  BY <1>3, ActivityConstants
<1>5. DropOld(appended, appended, Hour) \in Seq(1..MaxTime)
  BY <1>1, <1>3, <1>4, DropOldSuffix
<1> QED
  BY <1>1, <1>3, <1>4, <1>5 DEF appended

LEMMA RecordTypeInit == Init => RecordTypeOK
<1>1. <<>> \in Seq(Record) /\ <<>> \in Seq(1..MaxTime)
  OBVIOUS
<1> QED
  BY <1>1, ActivityConstants DEF Init, ActivityInit, RecordTypeOK, ActivityTypeOK

LEMMA RecordTypeNext == RecordTypeOK /\ [Next]_vars => RecordTypeOK'
<1> SUFFICES ASSUME RecordTypeOK, [Next]_vars PROVE RecordTypeOK'
  OBVIOUS
<1>1. ASSUME NEW c \in Chats, NEW media \in BOOLEAN, Message(c, media)
      PROVE  RecordTypeOK'
  <2> DEFINE e == [at |-> now, media |-> media]
             appended == Append(recent[c], e)
             trimmed == LastN(DropOld(appended, Stamps(appended), Window), MaxRecent)
  <2>1. e \in Record /\ trimmed \in Seq(Record)
    BY RecordType, LastNSuffix, ActivityConstants
  <2>2. recent' = [recent EXCEPT ![c] = trimmed]
    BY <1>1 DEF Message, RecordMessage
  <2>3. messageLog' = [messageLog EXCEPT ![c] = Append(@, e)]
        /\ UNCHANGED <<now, replyTimes, lastReply, replyLog>>
    BY <1>1 DEF Message
  <2> HIDE DEF e, trimmed
  <2> QED
    BY <2>1, <2>2, <2>3 DEF RecordTypeOK, ActivityTypeOK
<1>2. ASSUME NEW c \in Chats, Reply(c)
      PROVE  RecordTypeOK'
  <2> DEFINE appended == Append(replyTimes[c], now)
             trimmed == DropOld(appended, appended, Hour)
  <2>1. now \in 1..MaxTime /\ trimmed \in Seq(1..MaxTime)
    BY ReplyType
  <2>2. replyTimes' = [replyTimes EXCEPT ![c] = trimmed]
        /\ lastReply' = [lastReply EXCEPT ![c] = now]
    BY <1>2 DEF Reply, RecordReply
  <2>3. replyLog' = [replyLog EXCEPT ![c] = Append(@, now)]
        /\ UNCHANGED <<now, recent, messageLog>>
    BY <1>2 DEF Reply
  <2> HIDE DEF trimmed
  <2>4. now \in 0..MaxTime
    BY <2>1
  <2> QED
    BY <2>1, <2>2, <2>3, <2>4 DEF RecordTypeOK, ActivityTypeOK
<1>3. CASE Tick
  BY <1>3, ActivityConstants DEF Tick, ActivityTick, activityVars, RecordTypeOK, ActivityTypeOK
<1>4. CASE UNCHANGED vars
  BY <1>4 DEF vars, RecordTypeOK, ActivityTypeOK
<1> QED
  BY <1>1, <1>2, <1>3, <1>4 DEF Next

\* The tracker's dictionaries keep their types.
THEOREM ActivityTypes == Spec => []ActivityTypeOK
<1>1. RecordTypeOK => ActivityTypeOK
  BY DEF RecordTypeOK
<1> QED
  BY <1>1, RecordTypeInit, RecordTypeNext, PTL DEF Spec

-----------------------------------------------------------------------------
(* The deque of messages. *)

\* Messages are recorded in the order of the clock.
InOrder(log) ==
    /\ \A i \in 1..Len(log) : log[i].at <= now
    /\ \A i, j \in 1..Len(log) : i <= j => log[i].at <= log[j].at

\* The deque is the end of the record, and what it misses is too old, unless
\* it is full.
KeepsNewest(s, log) ==
    /\ Len(s) <= MaxRecent
    /\ \E off \in 0..Len(log) :
          /\ Suffix(s, log, off)
          /\ Len(s) = MaxRecent \/ \A i \in 1..off : log[i].at + Window < now

RecentInv ==
    \A c \in Chats : InOrder(messageLog[c]) /\ KeepsNewest(recent[c], messageLog[c])

LEMMA RecordAt ==
  ASSUME NEW log \in Seq(Record), NEW i \in 1..Len(log)
  PROVE  log[i].at \in Nat
<1>1. log[i] \in Record
  OBVIOUS
<1>2. log[i].at \in 1..MaxTime
  BY <1>1 DEF Record
<1> QED
  BY <1>2, ActivityConstants

LEMMA AppendInOrder ==
  ASSUME NEW log \in Seq(Record), NEW e \in Record, now \in Nat, e.at = now, InOrder(log)
  PROVE  InOrder(Append(log, e))
<1> DEFINE l == Append(log, e)
<1>1. Len(log) \in Nat /\ Len(l) = Len(log) + 1 /\ l[Len(log) + 1] = e
  OBVIOUS
<1>2. \A i \in 1..Len(log) : l[i] = log[i]
  OBVIOUS
<1> HIDE DEF l
<1>3. \A i \in 1..Len(l) : i \in 1..Len(log) \/ i = Len(log) + 1
  BY <1>1
<1>4. ASSUME NEW i \in 1..Len(l)
      PROVE  l[i].at <= now
  BY <1>1, <1>2, <1>3 DEF InOrder
<1>5. ASSUME NEW i \in 1..Len(l), NEW j \in 1..Len(l), i <= j
      PROVE  l[i].at <= l[j].at
  <2>1. CASE j = Len(log) + 1
    BY <1>1, <1>4, <2>1
  <2>2. CASE j \in 1..Len(log)
    <3>1. i \in 1..Len(log)
      BY <1>1, <1>5, <2>2
    <3> QED
      BY <1>2, <1>5, <2>2, <3>1 DEF InOrder
  <2> QED
    BY <1>3, <2>1, <2>2
<1> QED
  BY <1>4, <1>5 DEF InOrder, l

\* Trimming by age and by size keeps the newest: if a message left by its age,
\* every older one had left by its age too.
LEMMA TrimKeepsNewest ==
  ASSUME NEW s \in Seq(Record), NEW log \in Seq(Record), NEW e \in Record,
         now \in Nat, e.at = now, InOrder(log), KeepsNewest(s, log),
         NEW stamps, stamps \in [1..Len(Append(s, e)) -> Nat],
         \A i \in 1..Len(Append(s, e)) : stamps[i] = Append(s, e)[i].at
  PROVE  KeepsNewest(LastN(DropOld(Append(s, e), stamps, Window), MaxRecent),
                     Append(log, e))
<1> DEFINE a == Append(s, e)
           l == Append(log, e)
           d == DropOld(a, stamps, Window)
           t == LastN(d, MaxRecent)
<1>1. Len(a) = Len(s) + 1 /\ Len(l) = Len(log) + 1 /\ l[Len(log) + 1] = e
  OBVIOUS
<1>2. Len(s) \in Nat /\ Len(log) \in Nat /\ \A i \in 1..Len(log) : l[i] = log[i]
  OBVIOUS
<1>3. a \in Seq(Record) /\ l \in Seq(Record)
  OBVIOUS
<1>4. Window \in Nat /\ MaxRecent \in Nat
  BY ActivityConstants
<1>5. PICK n \in Nat : /\ Suffix(s, log, n) /\ n <= Len(log)
                       /\ \/ Len(s) = MaxRecent
                          \/ \A i \in 1..n : log[i].at + Window < now
  BY <1>2 DEF KeepsNewest
<1>6. Suffix(a, l, n)
  BY <1>5, AppendSuffix
<1>7. stamps \in [1..Len(a) -> Nat] /\ \A i \in 1..Len(a) : stamps[i] = a[i].at
  OBVIOUS
<1>8. InOrder(l)
  BY AppendInOrder
<1> HIDE DEF a, l
<1>9. /\ d \in Seq(Record)
      /\ \E m \in Nat : Suffix(d, a, m) /\ \A i \in 1..m : stamps[i] + Window < now
  BY <1>3, <1>4, <1>7, DropOldSuffix
<1>10. PICK m \in Nat : Suffix(d, a, m) /\ \A i \in 1..m : stamps[i] + Window < now
  BY <1>9
<1> HIDE DEF d
<1>11. /\ t \in Seq(Record) /\ Len(t) <= MaxRecent
       /\ \E k \in Nat : Suffix(t, d, k) /\ (k = 0 \/ Len(t) = MaxRecent)
  BY <1>4, <1>9, LastNSuffix
<1>12. PICK k \in Nat : Suffix(t, d, k) /\ (k = 0 \/ Len(t) = MaxRecent)
  BY <1>11
<1> HIDE DEF t
<1> DEFINE off == k + (m + n)
<1>13. Suffix(d, l, m + n)
  BY <1>3, <1>6, <1>9, <1>10, SuffixOfSuffix
<1>14. Suffix(t, l, off)
  BY <1>3, <1>9, <1>11, <1>12, <1>13, SuffixOfSuffix
<1>15. Len(t) \in Nat /\ Len(d) \in Nat
  BY <1>9, <1>11
<1>16. off \in Nat /\ off + Len(t) = Len(l)
  BY <1>14 DEF Suffix
<1>17. off \in 0..Len(l)
  BY <1>1, <1>2, <1>15, <1>16
<1>18. ASSUME Len(t) # MaxRecent
       PROVE  \A i \in 1..off : l[i].at + Window < now
  <2>1. k = 0 /\ off = m + n
    BY <1>12, <1>18
  <2>2. CASE m = 0
    <3>1. Len(a) = Len(d) /\ Len(d) = Len(t)
      BY <1>1, <1>2, <1>10, <1>12, <1>15, <2>1, <2>2 DEF Suffix
    <3>2. Len(s) # MaxRecent
      BY <1>1, <1>2, <1>4, <1>11, <1>15, <3>1
    <3>3. off = n
      BY <2>1, <2>2
    <3>4. \A i \in 1..n : l[i] = log[i]
      BY <1>2, <1>5
    <3> QED
      BY <1>5, <3>2, <3>3, <3>4
  <2>3. CASE m # 0
    <3>1. m \in 1..m /\ m \in 1..Len(a)
      BY <1>1, <1>2, <1>10, <1>15, <2>3 DEF Suffix
    <3>2. a[m].at + Window < now
      BY <1>7, <1>10, <3>1
    <3>3. a[m] = l[off]
      BY <1>6, <2>1, <3>1 DEF Suffix
    <3>4. off \in 1..Len(l)
      BY <1>17, <2>1, <2>3
    <3>5. ASSUME NEW i \in 1..off
          PROVE  l[i].at + Window < now
      <4> HIDE DEF off
      <4>1. i \in 1..Len(l) /\ i <= off
        BY <3>4, <1>1, <1>2
      <4>2. l[i].at <= l[off].at
        BY <1>8, <3>4, <4>1 DEF InOrder
      <4>3. l[i].at \in Nat /\ l[off].at \in Nat
        BY <1>3, <3>4, <4>1, RecordAt
      <4>4. l[off].at + Window < now
        BY <3>2, <3>3
      <4>5. ASSUME NEW x \in Nat, NEW y \in Nat, x <= y, y + Window < now
            PROVE  x + Window < now
        BY <1>4, <4>5
      <4> QED
        BY <4>2, <4>3, <4>4, <4>5
    <3> QED
      BY <3>5
  <2> QED
    BY <2>2, <2>3
<1> HIDE DEF off
<1>19. KeepsNewest(t, l)
  BY <1>11, <1>14, <1>17, <1>18 DEF KeepsNewest
<1> QED
  BY <1>19 DEF t, d, a, l

LEMMA RecentInvInit == Init => RecentInv
<1> SUFFICES ASSUME Init, NEW c \in Chats
             PROVE  InOrder(messageLog[c]) /\ KeepsNewest(recent[c], messageLog[c])
  BY DEF RecentInv
<1>1. recent[c] = <<>> /\ messageLog[c] = <<>>
  BY DEF Init, ActivityInit
<1>2. Suffix(<<>>, <<>>, 0) /\ 0 \in 0..Len(<<>>)
  BY DEF Suffix
<1>3. InOrder(<<>>)
  BY DEF InOrder
<1>4. KeepsNewest(<<>>, <<>>)
  BY <1>2, ActivityConstants DEF KeepsNewest
<1> QED
  BY <1>1, <1>3, <1>4

LEMMA RecentInvNext == RecordTypeOK /\ RecentInv /\ [Next]_vars => RecentInv'
<1> SUFFICES ASSUME RecordTypeOK, RecentInv, [Next]_vars PROVE RecentInv'
  OBVIOUS
<1>1. \A c \in Chats : InOrder(messageLog[c]) /\ KeepsNewest(recent[c], messageLog[c])
  BY DEF RecentInv
<1>2. ASSUME NEW c \in Chats, NEW media \in BOOLEAN, Message(c, media)
      PROVE  RecentInv'
  <2> DEFINE e == [at |-> now, media |-> media]
             appended == Append(recent[c], e)
             trimmed == LastN(DropOld(appended, Stamps(appended), Window), MaxRecent)
  <2>1. /\ messageLog[c] \in Seq(Record) /\ recent[c] \in Seq(Record)
        /\ messageLog \in [Chats -> Seq(Record)] /\ recent \in [Chats -> Seq(Record)]
    BY DEF RecordTypeOK, ActivityTypeOK
  <2>2. e \in Record /\ now \in Nat /\ e.at = now
    BY RecordType, ActivityConstants DEF RecordTypeOK, ActivityTypeOK
  <2>3. /\ Stamps(appended) \in [1..Len(appended) -> Nat]
        /\ \A i \in 1..Len(appended) : Stamps(appended)[i] = appended[i].at
    BY RecordType
  <2>4. /\ recent' = [recent EXCEPT ![c] = trimmed]
        /\ messageLog' = [messageLog EXCEPT ![c] = Append(@, e)]
        /\ now' = now
    BY <1>2 DEF Message, RecordMessage
  <2> HIDE DEF e
  <2>5. InOrder(Append(messageLog[c], e))
    BY <1>1, <2>1, <2>2, AppendInOrder
  <2>6. KeepsNewest(trimmed, Append(messageLog[c], e))
    BY <1>1, <2>1, <2>2, <2>3, TrimKeepsNewest
  <2> HIDE DEF trimmed, appended
  <2>7. ASSUME NEW b \in Chats
        PROVE  /\ InOrder(messageLog'[b]) /\ KeepsNewest(recent'[b], messageLog'[b])
    <3>1. CASE b = c
      BY <2>1, <2>4, <2>5, <2>6, <3>1
    <3>2. CASE b # c
      BY <1>1, <2>1, <2>4, <3>2
    <3> QED
      BY <3>1, <3>2
  <2> QED
    BY <2>4, <2>7 DEF RecentInv, InOrder, KeepsNewest
<1>3. ASSUME NEW c \in Chats, Reply(c)
      PROVE  RecentInv'
  <2>1. UNCHANGED <<now, recent, messageLog>>
    BY <1>3 DEF Reply
  <2> QED
    BY <1>1, <2>1 DEF RecentInv, InOrder, KeepsNewest
<1>4. CASE Tick
  <2>1. now' = now + 1 /\ UNCHANGED <<recent, messageLog>>
    BY <1>4 DEF Tick, ActivityTick, activityVars
  <2>2. now \in Nat /\ Window \in Nat
    BY ActivityConstants DEF RecordTypeOK, ActivityTypeOK
  <2>3. ASSUME NEW c \in Chats
        PROVE  InOrder(messageLog[c])' /\ KeepsNewest(recent[c], messageLog[c])'
    <3> DEFINE log == messageLog[c]
               s == recent[c]
    <3>1. InOrder(log) /\ KeepsNewest(s, log) /\ log' = log /\ s' = s
      BY <1>1, <2>1
    <3>2. log \in Seq(Record)
      BY DEF RecordTypeOK
    <3> HIDE DEF log, s
    <3>3. \A i \in 1..Len(log) : log[i].at \in Nat
      BY <3>2, RecordAt
    <3>4. InOrder(log)'
      BY <2>1, <2>2, <3>1, <3>3 DEF InOrder
    <3>5. PICK n \in 0..Len(log) :
            /\ Suffix(s, log, n)
            /\ Len(s) = MaxRecent \/ \A i \in 1..n : log[i].at + Window < now
      BY <3>1 DEF KeepsNewest
    <3>6. ASSUME NEW i \in 1..n, log[i].at + Window < now
          PROVE  log[i].at + Window < now + 1
      <4>1. i \in 1..Len(log)
        BY <3>2, <3>5
      <4> QED
        BY <2>2, <3>3, <3>6, <4>1
    <3>7. Len(s) = MaxRecent \/ \A i \in 1..n : log[i].at + Window < now'
      BY <2>1, <3>5, <3>6
    <3>8. KeepsNewest(s, log)'
      BY <3>1, <3>5, <3>7 DEF KeepsNewest, Suffix
    <3> QED
      BY <3>4, <3>8 DEF log, s
  <2> QED
    BY <2>3 DEF RecentInv
<1>5. CASE UNCHANGED vars
  BY <1>1, <1>5 DEF vars, RecentInv, InOrder, KeepsNewest
<1> QED
  BY <1>2, <1>3, <1>4, <1>5 DEF Next

\* The deque of a group holds the newest messages of the window: trimming by
\* age and by size (record_message) never drops one that a query should see,
\* unless max_recent newer ones exist.
THEOREM RecentCorrect == Spec => []RecentIsNewest
<1>1. RecordTypeOK /\ RecentInv => RecentIsNewest
  <2> SUFFICES ASSUME RecordTypeOK, RecentInv, NEW c \in Chats
               PROVE  LET n == Len(recent[c])
                          total == Len(messageLog[c])
                      IN  /\ n <= MaxRecent
                          /\ recent[c] = SubSeq(messageLog[c], total - n + 1, total)
                          /\ \/ n = MaxRecent
                             \/ MessagesInWindow(c) \subseteq (total - n + 1)..total
    BY DEF RecentIsNewest
  <2> DEFINE s == recent[c]
             log == messageLog[c]
             rest == SubSeq(log, Len(log) - Len(s) + 1, Len(log))
  <2>1. s \in Seq(Record) /\ log \in Seq(Record)
    BY DEF RecordTypeOK, ActivityTypeOK
  <2>2. KeepsNewest(s, log)
    BY DEF RecentInv
  <2>3. MessagesInWindow(c) = {i \in DOMAIN log : log[i].at + Window >= now}
    BY DEF MessagesInWindow
  <2>4. now \in Nat /\ Window \in Nat
    BY ActivityConstants DEF RecordTypeOK, ActivityTypeOK
  <2> HIDE DEF s, log
  <2>5. PICK n \in 0..Len(log) :
          /\ Suffix(s, log, n)
          /\ Len(s) = MaxRecent \/ \A i \in 1..n : log[i].at + Window < now
    BY <2>2 DEF KeepsNewest
  <2>6. /\ Len(s) \in Nat /\ Len(log) \in Nat /\ DOMAIN log = 1..Len(log)
        /\ n \in Nat /\ Len(log) - Len(s) = n /\ n + Len(s) = Len(log)
    BY <2>1, <2>5 DEF Suffix
  <2>7. s = rest
    <3>1. rest = SubSeq(log, n + 1, Len(log))
      BY <2>6
    <3>2. rest \in Seq(Record) /\ Len(rest) = Len(s)
      BY <2>1, <2>6, <3>1
    <3>3. \A i \in 1..Len(s) : rest[i] = log[i + n]
      <4>1. \A i \in 1..Len(s) : SubSeq(log, n + 1, Len(log))[i] = log[(n + 1) + i - 1]
        BY <2>1, <2>6
      <4>2. \A i \in 1..Len(s) : (n + 1) + i - 1 = i + n
        BY <2>6
      <4> HIDE DEF rest
      <4> QED
        BY <3>1, <4>1, <4>2
    <3>4. \A i \in 1..Len(s) : s[i] = rest[i]
      BY <2>5, <3>3 DEF Suffix
    <3> HIDE DEF rest
    <3> QED
      BY <2>1, <3>2, <3>4, SeqEqual
  <2>8. Len(s) = MaxRecent \/ MessagesInWindow(c) \subseteq (Len(log) - Len(s) + 1)..Len(log)
    <3>1. ASSUME \A i \in 1..n : log[i].at + Window < now,
                 NEW i \in MessagesInWindow(c)
          PROVE  i \in (n + 1)..Len(log)
      <4>1. i \in 1..Len(log) /\ log[i].at + Window >= now
        BY <2>3, <2>6
      <4>2. log[i].at \in Nat
        BY <2>1, <4>1, RecordAt
      <4>3. i \notin 1..n
        BY <2>4, <3>1, <4>1, <4>2
      <4> QED
        BY <2>6, <4>1, <4>3
    <3> QED
      BY <2>5, <2>6, <3>1
  <2>9. Len(s) <= MaxRecent
    BY <2>2 DEF KeepsNewest
  <2> QED
    BY <2>7, <2>8, <2>9 DEF s, log
<1> QED
  BY <1>1, RecordTypeInit, RecordTypeNext, RecentInvInit, RecentInvNext, PTL DEF Spec

-----------------------------------------------------------------------------
(* The deque of replies. *)

\* The deque is the end of the record, and what it misses is too old.
KeepsYoung(s, log) ==
    \E off \in 0..Len(log) : /\ Suffix(s, log, off)
                             /\ \A i \in 1..off : log[i] + Hour < now

\* last_reply_at is the latest reply, and 0 if there is none.
IsLatest(last, log) ==
    /\ last <= now
    /\ \A i \in 1..Len(log) : log[i] <= last
    /\ last # 0 => \E i \in 1..Len(log) : log[i] = last

RepliesInv ==
    \A c \in Chats : /\ KeepsYoung(replyTimes[c], replyLog[c])
                     /\ IsLatest(lastReply[c], replyLog[c])

LEMMA ReplyAt ==
  ASSUME NEW log \in Seq(1..MaxTime), NEW i \in 1..Len(log)
  PROVE  log[i] \in Nat /\ log[i] # 0
<1> DEFINE Times == 1..MaxTime
<1>1. log[i] \in Times
  <2>1. log \in Seq(Times)
    OBVIOUS
  <2> HIDE DEF Times
  <2> QED
    BY <2>1
<1> QED
  BY <1>1, ActivityConstants

LEMMA TrimKeepsYoung ==
  ASSUME NEW s \in Seq(1..MaxTime), NEW log \in Seq(1..MaxTime),
         now \in 1..MaxTime, KeepsYoung(s, log)
  PROVE  KeepsYoung(DropOld(Append(s, now), Append(s, now), Hour), Append(log, now))
<1> DEFINE a == Append(s, now)
           l == Append(log, now)
           d == DropOld(a, a, Hour)
<1>1. Len(a) = Len(s) + 1 /\ Len(l) = Len(log) + 1
  OBVIOUS
<1>2. Len(s) \in Nat /\ Len(log) \in Nat /\ \A i \in 1..Len(log) : l[i] = log[i]
  OBVIOUS
<1>3. a \in Seq(1..MaxTime) /\ l \in Seq(1..MaxTime)
  OBVIOUS
<1>4. Hour \in Nat /\ now \in Nat
  BY ActivityConstants
<1>5. PICK n \in 0..Len(log) : /\ Suffix(s, log, n)
                               /\ \A i \in 1..n : log[i] + Hour < now
  BY DEF KeepsYoung
<1>6. Suffix(a, l, n)
  BY <1>5, AppendSuffix
<1> HIDE DEF a, l
<1>7. a \in [1..Len(a) -> Nat]
  BY <1>3, ActivityConstants
<1>8. /\ d \in Seq(1..MaxTime)
      /\ \E m \in Nat : Suffix(d, a, m) /\ \A i \in 1..m : a[i] + Hour < now
  BY <1>3, <1>4, <1>7, DropOldSuffix
<1>9. PICK m \in Nat : Suffix(d, a, m) /\ \A i \in 1..m : a[i] + Hour < now
  BY <1>8
<1> HIDE DEF d
<1>10. Suffix(d, l, m + n)
  BY <1>3, <1>6, <1>8, <1>9, SuffixOfSuffix
<1>11. Len(d) \in Nat /\ m + Len(d) = Len(a) /\ n + Len(a) = Len(l)
  <2>1. Len(d) \in Nat
    BY <1>8
  <2> QED
    BY <2>1, <1>6, <1>9 DEF Suffix
<1>12. m + n \in 0..Len(l)
  BY <1>1, <1>2, <1>5, <1>11
<1>13. ASSUME NEW i \in 1..(m + n)
       PROVE  l[i] + Hour < now
  <2>1. CASE i <= n
    <3>1. i \in 1..n /\ i \in 1..Len(log)
      BY <1>2, <1>5, <2>1
    <3> QED
      BY <1>2, <1>5, <3>1
  <2>2. CASE ~(i <= n)
    <3>1. (i - n) \in 1..m /\ (i - n) \in 1..Len(a) /\ (i - n) + n = i
      BY <1>5, <1>11, <2>2
    <3>2. a[i - n] = l[i]
      BY <1>6, <3>1 DEF Suffix
    <3>3. a[i - n] + Hour < now
      BY <1>9, <3>1
    <3> QED
      BY <3>2, <3>3
  <2> QED
    BY <2>1, <2>2
<1> DEFINE off == m + n
<1>14. /\ off \in 0..Len(l) /\ Suffix(d, l, off)
       /\ \A i \in 1..off : l[i] + Hour < now
  BY <1>10, <1>12, <1>13
<1> HIDE DEF off
<1>15. KeepsYoung(d, l)
  BY <1>14 DEF KeepsYoung
<1> QED
  BY <1>15 DEF d, a, l

LEMMA AppendLatest ==
  ASSUME NEW log \in Seq(1..MaxTime), now \in 1..MaxTime, NEW last \in 0..MaxTime,
         IsLatest(last, log)
  PROVE  IsLatest(now, Append(log, now))
<1> DEFINE l == Append(log, now)
<1>1. Len(log) \in Nat /\ Len(l) = Len(log) + 1 /\ l[Len(log) + 1] = now
  OBVIOUS
<1>2. \A i \in 1..Len(log) : l[i] = log[i] /\ log[i] \in Nat
  BY ReplyAt
<1> HIDE DEF l
<1>3. now \in Nat /\ last \in Nat
  BY ActivityConstants
<1>4. ASSUME NEW i \in 1..Len(l)
      PROVE  l[i] <= now
  <2>1. CASE i = Len(log) + 1
    BY <1>1, <1>3, <2>1
  <2>2. CASE i # Len(log) + 1
    <3>1. i \in 1..Len(log)
      BY <1>1, <2>2
    <3>2. log[i] <= last /\ last <= now
      BY <3>1 DEF IsLatest
    <3> QED
      BY <1>2, <1>3, <3>1, <3>2
  <2> QED
    BY <2>1, <2>2
<1>5. Len(log) + 1 \in 1..Len(l)
  BY <1>1
<1>6. IsLatest(now, l)
  BY <1>1, <1>3, <1>4, <1>5 DEF IsLatest
<1> QED
  BY <1>6 DEF l

LEMMA RepliesInvInit == Init => RepliesInv
<1> SUFFICES ASSUME Init, NEW c \in Chats
             PROVE  /\ KeepsYoung(replyTimes[c], replyLog[c])
                    /\ IsLatest(lastReply[c], replyLog[c])
  BY DEF RepliesInv
<1>1. replyTimes[c] = <<>> /\ replyLog[c] = <<>> /\ lastReply[c] = 0 /\ now = 1
  BY DEF Init, ActivityInit
<1>2. Suffix(<<>>, <<>>, 0) /\ 0 \in 0..Len(<<>>)
  BY DEF Suffix
<1>3. KeepsYoung(<<>>, <<>>)
  BY <1>2 DEF KeepsYoung
<1>4. IsLatest(0, <<>>)
  BY <1>1 DEF IsLatest
<1> QED
  BY <1>1, <1>3, <1>4

LEMMA RepliesInvNext == RecordTypeOK /\ RepliesInv /\ [Next]_vars => RepliesInv'
<1> SUFFICES ASSUME RecordTypeOK, RepliesInv, [Next]_vars PROVE RepliesInv'
  OBVIOUS
<1>1. \A c \in Chats : /\ KeepsYoung(replyTimes[c], replyLog[c])
                       /\ IsLatest(lastReply[c], replyLog[c])
  BY DEF RepliesInv
<1>2. ASSUME NEW c \in Chats, Reply(c)
      PROVE  RepliesInv'
  <2> DEFINE appended == Append(replyTimes[c], now)
             trimmed == DropOld(appended, appended, Hour)
  <2>1. /\ replyTimes \in [Chats -> Seq(1..MaxTime)] /\ replyLog \in [Chats -> Seq(1..MaxTime)]
        /\ lastReply \in [Chats -> 0..MaxTime] /\ now \in 1..MaxTime
    BY DEF RecordTypeOK, ActivityTypeOK
  <2>2. /\ replyTimes[c] \in Seq(1..MaxTime) /\ replyLog[c] \in Seq(1..MaxTime)
        /\ lastReply[c] \in 0..MaxTime
    BY <2>1
  <2>3. /\ replyTimes' = [replyTimes EXCEPT ![c] = trimmed]
        /\ lastReply' = [lastReply EXCEPT ![c] = now]
        /\ replyLog' = [replyLog EXCEPT ![c] = Append(@, now)]
        /\ now' = now
    BY <1>2 DEF Reply, RecordReply
  <2>4. KeepsYoung(trimmed, Append(replyLog[c], now))
    BY <1>1, <2>1, <2>2, TrimKeepsYoung
  <2>5. IsLatest(now, Append(replyLog[c], now))
    BY <1>1, <2>1, <2>2, AppendLatest
  <2> HIDE DEF trimmed, appended
  <2>6. ASSUME NEW b \in Chats
        PROVE  /\ KeepsYoung(replyTimes'[b], replyLog'[b])
               /\ IsLatest(lastReply'[b], replyLog'[b])
    <3>1. CASE b = c
      BY <2>1, <2>3, <2>4, <2>5, <3>1
    <3>2. CASE b # c
      BY <1>1, <2>1, <2>3, <3>2
    <3> QED
      BY <3>1, <3>2
  <2> QED
    BY <2>3, <2>6 DEF RepliesInv, KeepsYoung, IsLatest
<1>3. ASSUME NEW c \in Chats, NEW media \in BOOLEAN, Message(c, media)
      PROVE  RepliesInv'
  <2>1. UNCHANGED <<now, replyTimes, lastReply, replyLog>>
    BY <1>3 DEF Message
  <2> QED
    BY <1>1, <2>1 DEF RepliesInv, KeepsYoung, IsLatest
<1>4. CASE Tick
  <2>1. now' = now + 1 /\ UNCHANGED <<replyTimes, lastReply, replyLog>>
    BY <1>4 DEF Tick, ActivityTick, activityVars
  <2>2. now \in Nat /\ Hour \in Nat
    BY ActivityConstants DEF RecordTypeOK, ActivityTypeOK
  <2>3. ASSUME NEW c \in Chats
        PROVE  KeepsYoung(replyTimes[c], replyLog[c])' /\ IsLatest(lastReply[c], replyLog[c])'
    <3> DEFINE log == replyLog[c]
               s == replyTimes[c]
               last == lastReply[c]
    <3>1. KeepsYoung(s, log) /\ IsLatest(last, log) /\ log' = log /\ s' = s /\ last' = last
      BY <1>1, <2>1
    <3>2. log \in Seq(1..MaxTime) /\ last \in Nat
      BY ActivityConstants DEF RecordTypeOK, ActivityTypeOK
    <3> HIDE DEF log, s, last
    <3>3. PICK n \in 0..Len(log) : Suffix(s, log, n) /\ \A i \in 1..n : log[i] + Hour < now
      BY <3>1 DEF KeepsYoung
    <3>4. ASSUME NEW i \in 1..n
          PROVE  log[i] + Hour < now'
      <4>1. i \in 1..Len(log)
        BY <3>2, <3>3
      <4>2. log[i] \in Nat
        BY <3>2, <4>1, ReplyAt
      <4> QED
        BY <2>1, <2>2, <3>3, <4>2
    <3>5. KeepsYoung(s, log)'
      BY <3>1, <3>3, <3>4 DEF KeepsYoung, Suffix
    <3>6. IsLatest(last, log)'
      BY <2>1, <2>2, <3>1, <3>2 DEF IsLatest
    <3> QED
      BY <3>5, <3>6 DEF log, s, last
  <2> QED
    BY <2>3 DEF RepliesInv
<1>5. CASE UNCHANGED vars
  BY <1>1, <1>5 DEF vars, RepliesInv, KeepsYoung, IsLatest
<1> QED
  BY <1>2, <1>3, <1>4, <1>5 DEF Next

\* A set of numbers and the set shifted by a constant have one size.
LEMMA ShiftedSetSize ==
  ASSUME NEW A, IsFiniteSet(A), NEW B, NEW n \in Nat, A \subseteq Nat, B \subseteq Nat,
         \A i \in A : i + n \in B,
         \A j \in B : \E i \in A : j = i + n
  PROVE  Cardinality(A) = Cardinality(B)
<1> DEFINE f == [i \in A |-> i + n]
<1>1. f \in [A -> B]
  OBVIOUS
<1>2. f \in Injection(A, B)
  <2>1. ASSUME NEW i \in A, NEW j \in A, f[i] = f[j]
        PROVE  i = j
    BY <2>1
  <2> QED
    BY <1>1, <2>1 DEF Injection, IsInjective
<1>3. f \in Surjection(A, B)
  BY <1>1 DEF Surjection
<1>4. ExistsBijection(A, B)
  BY <1>2, <1>3 DEF ExistsBijection, Bijection
<1> HIDE DEF f
<1> QED
  BY <1>4, FS_Bijection

\* The hourly count and the cooldown of a group are those of all its replies
\* (get_hourly_reply_count, is_in_cooldown), whatever the deque has dropped.
THEOREM RepliesCorrect == Spec => []RepliesAreCounted
<1>1. RecordTypeOK /\ RepliesInv => RepliesAreCounted
  <2> SUFFICES ASSUME RecordTypeOK, RepliesInv, NEW c \in Chats
               PROVE  /\ HourlyReplyCount(c)
                           = Cardinality({i \in DOMAIN replyLog[c] : replyLog[c][i] + Hour >= now})
                      /\ IsInCooldown(c, Cooldown)
                           <=> \E i \in DOMAIN replyLog[c] : now - replyLog[c][i] < Cooldown
    BY DEF RepliesAreCounted
  <2> DEFINE s == replyTimes[c]
             log == replyLog[c]
             last == lastReply[c]
             kept == {i \in 1..Len(s) : s[i] + Hour >= now}
             young == {i \in 1..Len(log) : log[i] + Hour >= now}
  <2>1. s \in Seq(1..MaxTime) /\ log \in Seq(1..MaxTime) /\ last \in Nat
    BY ActivityConstants DEF RecordTypeOK, ActivityTypeOK
  <2>2. now \in Nat /\ Hour \in Nat /\ Cooldown \in Nat
    BY ActivityConstants, RecordAssumption DEF RecordTypeOK, ActivityTypeOK
  <2>3. KeepsYoung(s, log) /\ IsLatest(last, log)
    BY DEF RepliesInv
  <2>4. DOMAIN s = 1..Len(s) /\ DOMAIN log = 1..Len(log)
    BY <2>1
  <2>5. HourlyReplyCount(c) = Cardinality(kept)
    BY <2>4 DEF HourlyReplyCount, Young
  <2>6. IsInCooldown(c, Cooldown) <=> (last # 0 /\ now < last + Cooldown)
    BY DEF IsInCooldown
  <2> HIDE DEF s, log, last
  <2>7. PICK n \in 0..Len(log) : Suffix(s, log, n) /\ \A i \in 1..n : log[i] + Hour < now
    BY <2>3 DEF KeepsYoung
  <2>8. /\ n \in Nat /\ Len(s) \in Nat /\ Len(log) \in Nat /\ n + Len(s) = Len(log)
        /\ \A i \in 1..Len(s) : s[i] = log[i + n]
    BY <2>1, <2>7 DEF Suffix
  <2>9. Cardinality(kept) = Cardinality(young)
    <3>1. kept \subseteq 1..Len(s) /\ kept \subseteq Nat /\ young \subseteq Nat
      OBVIOUS
    <3>2. IsFiniteSet(kept)
      <4>1. IsFiniteSet(1..Len(s))
        BY <2>8, FS_Interval
      <4> QED
        BY <3>1, <4>1, FS_Subset
    <3>3. ASSUME NEW i \in kept
          PROVE  i + n \in young
      <4>1. i + n \in 1..Len(log)
        BY <2>8, <3>1
      <4> QED
        BY <2>8, <4>1
    <3>4. ASSUME NEW j \in young
          PROVE  \E i \in kept : j = i + n
      <4>1. j \in 1..Len(log) /\ log[j] + Hour >= now
        OBVIOUS
      <4>2. log[j] \in Nat
        BY <2>1, <4>1, ReplyAt
      <4>3. j \notin 1..n
        BY <2>2, <2>7, <4>1, <4>2
      <4>4. (j - n) \in 1..Len(s) /\ j = (j - n) + n
        BY <2>8, <4>1, <4>3
      <4>5. s[j - n] = log[j]
        BY <2>8, <4>4
      <4>6. (j - n) \in kept
        BY <4>1, <4>4, <4>5
      <4> QED
        BY <4>4, <4>6
    <3> HIDE DEF kept, young
    <3> QED
      BY <2>8, <3>1, <3>2, <3>3, <3>4, ShiftedSetSize
  <2>10. (last # 0 /\ now < last + Cooldown) <=> \E i \in 1..Len(log) : now - log[i] < Cooldown
    <3>1. \A i \in 1..Len(log) : log[i] \in Nat /\ log[i] # 0 /\ log[i] <= last
      BY <2>1, <2>3, ReplyAt DEF IsLatest
    <3>2. ASSUME last # 0, now < last + Cooldown
          PROVE  \E i \in 1..Len(log) : now - log[i] < Cooldown
      <4>1. PICK i \in 1..Len(log) : log[i] = last
        BY <2>3, <3>2 DEF IsLatest
      <4>2. now - last < Cooldown
        BY <2>1, <2>2, <3>2
      <4> QED
        BY <4>1, <4>2
    <3>3. ASSUME NEW i \in 1..Len(log), now - log[i] < Cooldown
          PROVE  last # 0 /\ now < last + Cooldown
      <4>1. log[i] \in Nat /\ log[i] # 0 /\ log[i] <= last
        BY <3>1
      <4> QED
        BY <2>1, <2>2, <3>3, <4>1
    <3> QED
      BY <3>2, <3>3
  <2> QED
    BY <2>4, <2>5, <2>6, <2>9, <2>10 DEF log
<1> QED
  BY <1>1, RecordTypeInit, RecordTypeNext, RepliesInvInit, RepliesInvNext, PTL DEF Spec

=============================================================================
