----------------------------- MODULE Queues_proofs -----------------------------
(***************************************************************************)
(* What holds of a message queue for any handlers, waiting threads, posts  *)
(* and depth of nested run loops: a message is in one place, a handler     *)
(* that was cancelled and waited for is not called, who waits is known to  *)
(* what it waits for, and a wait outlasts the run of its message.          *)
(***************************************************************************)
EXTENDS MCQueues, ActiveSync_proofs, SequenceTheorems, WellFoundedInduction

Messages == [id : Nat, to : Handlers \cup {Mq!Broadcast}, type : Mq!Types, due : Nat,
             waiting : SUBSET Users]
RunLoops == [at : {"top", "call"}, id : Nat, type : Mq!Types, running : SUBSET Handlers,
             left : SUBSET Handlers, waiting : SUBSET Users, until : Nat]
Standing == {Mq!Idle} \cup [at : {"cancel", "wait"}, on : Handlers]
                      \cup [at : {"message", "level"}, on : Nat]

QueueTypes ==
  /\ mq_clock \in 0..MaxClock /\ lastSeq \in 0..MaxPosts /\ breakflag \in BOOLEAN
  /\ installed \subseteq Handlers /\ gone \subseteq Handlers
  /\ list \in Seq(Messages) /\ levels \in Seq(RunLoops) /\ Len(levels) <= MaxDepth
  /\ user \in [Users -> Standing]

Unique(q) == \A i, j \in DOMAIN q : q[i].id = q[j].id => i = j

Numbered ==
  \A m \in Members(list) :
    m.id \in 1..lastSeq /\ m.due <= mq_clock + 1 /\ (m.type = "period" => m.waiting = {})

(* What a run loop holds at its two places.                                *)
Placed(l) ==
  /\ l.id <= lastSeq /\ l.left \subseteq l.running
  /\ l.at = "top" => l.left = {} /\ l.waiting = {}
  /\ l.id = 0 => l.at = "top" /\ l.running = {}
  /\ l.type = "period" => l.waiting = {}
LoopInv == \A n \in DOMAIN levels : Placed(levels[n])

(* A message that runs is listed no more, and runs once.                   *)
Running(n) == levels[n].at = "call" /\ levels[n].type # "period"
InHand ==
  \A n \in DOMAIN levels : Running(n) =>
    /\ \A m \in Members(list) : m.id # levels[n].id
    /\ \A k \in DOMAIN levels : Running(k) /\ levels[k].id = levels[n].id => k = n

(* Who is noted with a message waits for it, and the other way round.      *)
For(id) == [at |-> "message", on |-> id]
Waiters ==
  /\ \A m \in Members(list) : \A u \in m.waiting : user[u] = For(m.id)
  /\ \A n \in DOMAIN levels : \A u \in levels[n].waiting : user[u] = For(levels[n].id)
Noted ==
  \A u \in Users :
    /\ user[u].at = "message" =>
         \/ \E m \in Members(list) : m.id = user[u].on /\ u \in m.waiting
         \/ \E n \in DOMAIN levels : levels[n].id = user[u].on /\ u \in levels[n].waiting
    /\ user[u].at = "level" => user[u].on \in DOMAIN levels /\ levels[user[u].on].id # 0

(* A cancelled handler is installed no more; after the wait it is not      *)
(* called, or somebody still waits for the outermost loop that runs it.    *)
Outlives(u, h) ==
  user[u].at = "level" /\ \A n \in DOMAIN levels : h \in levels[n].running => n >= user[u].on
Cancelled ==
  /\ \A u \in Users : user[u].at \in {"cancel", "wait"} => user[u].on \notin installed
  /\ \A h \in gone :
       /\ h \notin installed
       /\ (\A n \in DOMAIN levels : h \notin levels[n].left) \/ (\E u \in Users : Outlives(u, h))

QueueInv ==
  QueueTypes /\ Unique(list) /\ Numbered /\ LoopInv /\ InHand /\ Waiters /\ Noted /\ Cancelled
-----------------------------------------------------------------------------
(* Lists of messages                                                       *)

LEMMA SameSelection == \A q, K : Mq!Only(q, K) = Only(q, K) /\ Mq!Members(q) = Members(q)
BY DEF Mq!Only, Only, Mq!PlacesOf, PlacesOf, Mq!Rank, Rank, Mq!Cardinality, Cardinality, Mq!Members, Members

(* With one message to an id, a message is known by its id.                *)
LEMMA ById ==
  ASSUME NEW q \in Seq(Messages), Unique(q)
  PROVE  /\ Members(q) \subseteq Messages
         /\ \A m, k \in Members(q) : m.id = k.id => m = k
BY DEF Unique, Members

LEMMA Posted1 ==
  ASSUME NEW q \in Seq(Messages), NEW m \in Messages, Unique(q), \A k \in Members(q) : k.id # m.id
  PROVE  Append(q, m) \in Seq(Messages) /\ Members(Append(q, m)) = Members(q) \cup {m} /\ Unique(Append(q, m))
<1> DEFINE r == Append(q, m)
<1>1. r \in Seq(Messages) /\ Members(r) = Members(q) \cup {m}
  BY MembersAppend
<1>2. /\ DOMAIN q = 1..Len(q) /\ DOMAIN r = 1..Len(q) + 1 /\ Len(q) \in Nat
      /\ \A i \in 1..Len(q) : r[i] = q[i]
      /\ r[Len(q) + 1] = m
  OBVIOUS
<1> HIDE DEF r
<1>3. \A i \in 1..Len(q) : q[i].id # m.id
  BY <1>2 DEF Members
<1>4. Unique(r)
  <2> SUFFICES ASSUME NEW i \in DOMAIN r, NEW j \in DOMAIN r, r[i].id = r[j].id  PROVE i = j
    BY DEF Unique
  <2>1. CASE i \in 1..Len(q) /\ j \in 1..Len(q)
    BY <1>2, <2>1 DEF Unique
  <2>2. CASE i = Len(q) + 1 /\ j \in 1..Len(q)
    BY <1>2, <1>3, <2>2
  <2>3. CASE j = Len(q) + 1 /\ i \in 1..Len(q)
    BY <1>2, <1>3, <2>3
  <2>4. CASE i = Len(q) + 1 /\ j = Len(q) + 1
    BY <2>4
  <2> QED BY <1>2, <2>1, <2>2, <2>3, <2>4
<1> QED BY <1>1, <1>4 DEF r

LEMMA Selected ==
  ASSUME NEW q \in Seq(Messages), NEW K, Unique(q)
  PROVE  Only(q, K) \in Seq(Messages) /\ Members(Only(q, K)) = Members(q) \cap K /\ Unique(Only(q, K))
<1>1. Only(q, K) \in Seq(Messages) /\ Members(Only(q, K)) = Members(q) \cap K
  BY MembersOnly
<1>2. PICK f : \A k, l \in DOMAIN Only(q, K) :
                 /\ f[k] \in DOMAIN q /\ Only(q, K)[k] = q[f[k]]
                 /\ k < l => f[k] < f[l]
                 /\ f[k] = f[l] => k = l
  BY OnlyInOrder
<1>3. Unique(Only(q, K))
  BY <1>2 DEF Unique
<1> QED BY <1>1, <1>3

LEMMA RemovedAt ==
  ASSUME NEW S, NEW q \in Seq(S), NEW i \in DOMAIN q
  PROVE  /\ Mq!RemoveAt(q, i) \in Seq(S) /\ DOMAIN Mq!RemoveAt(q, i) = 1..(Len(q) - 1)
         /\ \A k \in 1..(Len(q) - 1) : Mq!RemoveAt(q, i)[k] = IF k < i THEN q[k] ELSE q[k + 1]
<1> DEFINE n == Len(q)
           a == SubSeq(q, 1, i - 1)
           b == SubSeq(q, i + 1, n)
<1>1. n \in Nat /\ i \in 1..n /\ \A k \in 1..n : q[k] \in S
  OBVIOUS
<1>2. a \in Seq(S) /\ Len(a) = i - 1 /\ \A k \in 1..(i - 1) : a[k] = q[k]
  <2>1. 1 \in Int /\ i - 1 \in Int /\ \A k \in 1..(i - 1) : q[k] \in S
    BY <1>1
  <2>2. Len(a) = IF 1 <= i - 1 THEN (i - 1) - 1 + 1 ELSE 0
    BY <2>1, SubSeqProperties
  <2>3. a \in Seq(S)
    BY <2>1, SubSeqProperties
  <2>4. \A k \in 1..((i - 1) - 1 + 1) : a[k] = q[1 + k - 1]
    BY <2>1, SubSeqProperties
  <2> QED BY <1>1, <2>2, <2>3, <2>4
<1>3. b \in Seq(S) /\ Len(b) = n - i /\ \A k \in 1..(n - i) : b[k] = q[i + k]
  <2>1. i + 1 \in Int /\ n \in Int /\ \A k \in (i + 1)..n : q[k] \in S
    BY <1>1
  <2>2. Len(b) = IF i + 1 <= n THEN n - (i + 1) + 1 ELSE 0
    BY <2>1, SubSeqProperties
  <2>3. b \in Seq(S)
    BY <2>1, SubSeqProperties
  <2>4. \A k \in 1..(n - (i + 1) + 1) : b[k] = q[(i + 1) + k - 1]
    BY <2>1, SubSeqProperties
  <2>5. n - (i + 1) + 1 = n - i /\ \A k \in 1..(n - i) : (i + 1) + k - 1 = i + k
    BY <1>1
  <2>6. \A k \in 1..(n - i) : b[k] = q[i + k]
    BY <2>4, <2>5
  <2>7. Len(b) = n - i
    BY <1>1, <2>2
  <2> QED BY <2>3, <2>6, <2>7
<1>4. Mq!RemoveAt(q, i) = a \o b
  BY DEF Mq!RemoveAt
<1> HIDE DEF a, b, n
<1>5. /\ a \o b \in Seq(S) /\ Len(a \o b) = Len(a) + Len(b)
      /\ \A k \in 1..(Len(a) + Len(b)) : (a \o b)[k] = IF k <= Len(a) THEN a[k] ELSE b[k - Len(a)]
  BY <1>2, <1>3, ConcatProperties
<1>6. ASSUME NEW k \in 1..(n - 1) PROVE (a \o b)[k] = IF k < i THEN q[k] ELSE q[k + 1]
  <2>1. CASE k < i
    <3>1. k \in 1..(i - 1) /\ k <= i - 1
      BY <1>1, <2>1
    <3>2. k \in 1..(Len(a) + Len(b)) /\ Len(a) = i - 1
      BY <1>1, <1>2, <1>3
    <3>3. (a \o b)[k] = a[k]
      BY <1>5, <3>1, <3>2
    <3> QED BY <1>2, <2>1, <3>1, <3>3
  <2>2. CASE ~(k < i)
    <3>1. k - (i - 1) \in 1..(n - i) /\ i + (k - (i - 1)) = k + 1 /\ ~(k <= i - 1)
      BY <1>1, <2>2
    <3>2. k \in 1..(Len(a) + Len(b)) /\ Len(a) = i - 1
      BY <1>1, <1>2, <1>3
    <3>3. (a \o b)[k] = b[k - (i - 1)]
      BY <1>5, <3>1, <3>2
    <3>4. b[k - (i - 1)] = q[i + (k - (i - 1))]
      BY <1>3, <3>1
    <3> QED BY <2>2, <3>1, <3>3, <3>4
  <2> QED BY <2>1, <2>2
<1>7. DOMAIN (a \o b) = 1..(n - 1)
  <2>1. Len(a \o b) = n - 1
    BY <1>1, <1>2, <1>3, <1>5
  <2>2. a \o b \in Seq(S)
    BY <1>5
  <2> QED BY <2>1, <2>2
<1> QED BY <1>4, <1>5, <1>6, <1>7 DEF n

LEMMA Removed ==
  ASSUME NEW q \in Seq(Messages), NEW i \in DOMAIN q, Unique(q)
  PROVE  /\ Mq!RemoveAt(q, i) \in Seq(Messages) /\ Unique(Mq!RemoveAt(q, i))
         /\ Members(Mq!RemoveAt(q, i)) = Members(q) \ {q[i]}
<1> DEFINE r == Mq!RemoveAt(q, i)
           n == Len(q)
<1>1. /\ r \in Seq(Messages) /\ DOMAIN r = 1..(n - 1) /\ DOMAIN q = 1..n /\ n \in Nat /\ i \in 1..n
      /\ \A k \in 1..(n - 1) : r[k] = IF k < i THEN q[k] ELSE q[k + 1]
  BY RemovedAt
<1> HIDE DEF r, n
<1>2. Unique(r)
  <2> SUFFICES ASSUME NEW k \in DOMAIN r, NEW l \in DOMAIN r, r[k].id = r[l].id  PROVE k = l
    BY DEF Unique
  <2>0. k \in 1..(n - 1) /\ l \in 1..(n - 1)
    BY <1>1
  <2>1. PICK a \in 1..n : a = (IF k < i THEN k ELSE k + 1) /\ r[k] = q[a]
    BY <1>1, <2>0
  <2>2. PICK b \in 1..n : b = (IF l < i THEN l ELSE l + 1) /\ r[l] = q[b]
    BY <1>1, <2>0
  <2>3. a = b
    BY <1>1, <2>1, <2>2 DEF Unique
  <2>4. i \in Int /\ k \in Int /\ l \in Int
    BY <1>1, <2>0
  <2> QED BY <2>1, <2>2, <2>3, <2>4
<1>3. \A x \in Members(r) : x \in Members(q) \ {q[i]}
  <2> SUFFICES ASSUME NEW k \in DOMAIN r PROVE r[k] \in Members(q) \ {q[i]}
    BY DEF Members
  <2> DEFINE at == IF k < i THEN k ELSE k + 1
  <2>1. at \in DOMAIN q /\ r[k] = q[at] /\ at # i
    BY <1>1
  <2>2. q[at] # q[i]
    BY <2>1 DEF Unique
  <2> HIDE DEF at
  <2> QED BY <2>1, <2>2 DEF Members
<1>4. \A x \in Members(q) \ {q[i]} : x \in Members(r)
  <2> SUFFICES ASSUME NEW k \in DOMAIN q, k # i PROVE q[k] \in Members(r)
    BY DEF Members
  <2>1. CASE k < i
    <3>1. k \in DOMAIN r /\ r[k] = q[k]
      BY <1>1, <2>1
    <3> QED BY <3>1 DEF Members
  <2>2. CASE k > i
    <3>1. k - 1 \in DOMAIN r /\ r[k - 1] = q[k]
      BY <1>1, <2>2
    <3> QED BY <3>1 DEF Members
  <2> QED BY <1>1, <2>1, <2>2
<1> QED BY <1>1, <1>2, <1>3, <1>4 DEF r

(* A message changes in its place, and keeps its id.                       *)
Changes(q, i, m, r) ==
  /\ q \in Seq(Messages) /\ i \in DOMAIN q /\ m \in Messages /\ Unique(q) /\ m.id = q[i].id
  /\ r = [q EXCEPT ![i] = m]

LEMMA Changed ==
  ASSUME NEW q, NEW i, NEW m, NEW r, Changes(q, i, m, r)
  PROVE  r \in Seq(Messages) /\ Unique(r) /\ Members(r) = (Members(q) \ {q[i]}) \cup {m}
<1> USE DEF Changes
<1>1. r \in Seq(Messages) /\ DOMAIN r = DOMAIN q /\ r[i] = m /\ \A k \in DOMAIN q \ {i} : r[k] = q[k]
  OBVIOUS
<1>2. \A k \in DOMAIN q : r[k].id = q[k].id
  BY <1>1
<1>3. Unique(r)
  BY <1>1, <1>2 DEF Unique
<1>4. \A k \in DOMAIN q \ {i} : q[k] # q[i]
  BY DEF Unique
<1>5. Members(r) = (Members(q) \ {q[i]}) \cup {m}
  BY <1>1, <1>4 DEF Members
<1> QED BY <1>1, <1>3, <1>5
-----------------------------------------------------------------------------
(* Steps that change messages, and nothing in the run loops                *)

LEMMA Standings ==
  /\ \A s \in Standing : (s.at = "idle" => s = Mq!Idle) /\ (s.at \in {"cancel", "wait"} => s.on \in Handlers)
  /\ Mq!Idle.at = "idle" /\ Mq!Idle \in Standing
  /\ \A id : For(id).at = "message" /\ For(id).on = id
BY DEF Standing, Mq!Idle, For

LEMMA LoopTypes ==
  ASSUME QueueInv
  PROVE  /\ \A n \in DOMAIN levels : levels[n] \in RunLoops /\ levels[n].id \in Nat
         /\ DOMAIN levels = 1..Len(levels) /\ Len(levels) \in Nat
<1>1. PICK q \in Seq(RunLoops) : q = levels
  BY DEF QueueInv, QueueTypes
<1>2. \A l \in RunLoops : l.id \in Nat
  BY DEF RunLoops
<1>3. \A n \in DOMAIN q : q[n] \in RunLoops
  OBVIOUS
<1>4. DOMAIN q = 1..Len(q) /\ Len(q) \in Nat
  OBVIOUS
<1> QED BY <1>1, <1>2, <1>3, <1>4

(* Messages of D go and those who waited for them go on; N comes, with the *)
(* id of one of D or the next one, and nobody waits for it yet.            *)
Freed(D, u) == \E m \in D : u \in m.waiting
NewIn(N, D) ==
  \A m \in N : /\ m.waiting = {} /\ m.id \in 1..lastSeq' /\ m.due <= mq_clock + 1
               /\ m.id > lastSeq \/ \E d \in D : d.id = m.id

LEMMA ListStep ==
  ASSUME QueueInv, NEW D, NEW N, D \subseteq Members(list), NewIn(N, D),
         list' \in Seq(Messages), Unique(list'), Members(list') = (Members(list) \ D) \cup N,
         lastSeq' \in lastSeq..MaxPosts, user' \in [Users -> Standing],
         \A u \in Users : Freed(D, u) => user'[u] = Mq!Idle,
         \A u \in Users : ~Freed(D, u) =>
           \/ user'[u] = user[u]
           \/ user[u].at = "cancel" /\ user'[u].at = "wait" /\ user'[u].on = user[u].on,
         UNCHANGED <<mq_clock, levels, installed, gone, breakflag>>
  PROVE  QueueInv'
<1> USE DEF QueueInv
<1>1. /\ lastSeq \in Nat /\ lastSeq <= lastSeq' /\ lastSeq' \in 0..MaxPosts
      /\ \A n \in DOMAIN levels : levels[n] \in RunLoops /\ levels[n].id \in Nat
  <2>1. /\ lastSeq \in Nat /\ lastSeq <= lastSeq' /\ lastSeq' \in 0..MaxPosts
    BY QueuesAssumption DEF QueueTypes
  <2> QED BY <2>1, LoopTypes
<1>2. Members(list) \subseteq Messages /\ \A m, k \in Members(list) : m.id = k.id => m = k
  BY ById DEF QueueTypes
<1>3. QueueTypes'
  BY <1>1 DEF QueueTypes
<1>4. Numbered'
  <2> SUFFICES ASSUME NEW m \in Members(list')
               PROVE m.id \in 1..lastSeq' /\ m.due <= mq_clock + 1 /\ (m.type = "period" => m.waiting = {})
    BY DEF Numbered
  <2>1. CASE m \in N
    BY <2>1 DEF NewIn
  <2>2. CASE m \in Members(list)
    BY <1>1, <2>2 DEF Numbered
  <2> QED BY <2>1, <2>2
<1>5. LoopInv'
  <2> SUFFICES ASSUME NEW n \in DOMAIN levels PROVE Placed(levels[n])'
    BY DEF LoopInv
  <2>1. Placed(levels[n])
    BY DEF LoopInv
  <2>2. levels[n].id <= lastSeq'
    BY <1>1, <2>1 DEF Placed
  <2> QED BY <2>1, <2>2 DEF Placed
<1>6. InHand'
  <2>1. ASSUME NEW n \in DOMAIN levels, Running(n), NEW m \in Members(list') PROVE m.id # levels[n].id
    <3>1. CASE m \in Members(list)
      BY <2>1, <3>1 DEF InHand
    <3>2. CASE m \in N /\ m.id > lastSeq
      <4>1. levels[n].id <= lastSeq /\ m.id \in Nat
        BY <2>1, <3>2 DEF LoopInv, Placed, NewIn
      <4> QED BY <1>1, <3>2, <4>1
    <3>3. CASE m \in N /\ \E d \in D : d.id = m.id
      BY <2>1, <3>3 DEF InHand
    <3> QED BY <3>1, <3>2, <3>3 DEF NewIn
  <2>2. \A n \in DOMAIN levels : Running(n)' = Running(n)
    BY DEF Running
  <2> QED BY <2>1, <2>2 DEF InHand
<1>7. \A m \in Members(list) \ D : \A u \in m.waiting : ~Freed(D, u)
  <2> SUFFICES ASSUME NEW m \in Members(list) \ D, NEW d \in D, NEW u \in m.waiting, u \in d.waiting PROVE FALSE
    BY DEF Freed
  <2>1. For(m.id) = For(d.id)
    BY DEF Waiters
  <2>2. m.id = d.id
    BY <2>1, Standings
  <2> QED BY <1>2, <2>2
<1>8. \A n \in DOMAIN levels : \A u \in levels[n].waiting : ~Freed(D, u)
  <2> SUFFICES ASSUME NEW n \in DOMAIN levels, NEW d \in D, NEW u \in levels[n].waiting, u \in d.waiting PROVE FALSE
    BY DEF Freed
  <2>1. For(levels[n].id) = For(d.id)
    BY DEF Waiters
  <2>2. levels[n].id = d.id
    BY <2>1, Standings
  <2>3. Running(n)
    BY <1>1 DEF LoopInv, Placed, Running, RunLoops
  <2> QED BY <2>2, <2>3 DEF InHand
<1>9. \A u \in Users : user[u].at \in {"message", "level"} /\ ~Freed(D, u) => user'[u] = user[u]
  OBVIOUS
<1>10. \A m \in Members(list) : m.waiting \subseteq Users
  BY <1>2 DEF Messages
<1>11. \A n \in DOMAIN levels : levels[n].waiting \subseteq Users
  BY <1>1 DEF RunLoops
<1>12. Waiters'
  <2>1. ASSUME NEW m \in Members(list'), NEW u \in m.waiting PROVE user'[u] = For(m.id)
    <3>1. m \in Members(list) \ D
      BY <2>1 DEF NewIn
    <3>2. user[u] = For(m.id) /\ ~Freed(D, u) /\ u \in Users
      BY <1>7, <1>10, <2>1, <3>1 DEF Waiters
    <3> QED BY <1>9, <3>2, Standings
  <2>2. ASSUME NEW n \in DOMAIN levels, NEW u \in levels[n].waiting PROVE user'[u] = For(levels[n].id)
    <3>1. user[u] = For(levels[n].id) /\ ~Freed(D, u) /\ u \in Users
      BY <1>8, <1>11, <2>2 DEF Waiters
    <3> QED BY <1>9, <3>1, Standings
  <2> QED BY <2>1, <2>2 DEF Waiters
<1>13. \A u \in Users : user'[u].at \in {"message", "level"} => ~Freed(D, u) /\ user'[u] = user[u]
  BY Standings
<1>14. Noted'
  <2>1. ASSUME NEW u \in Users, user'[u].at = "message"
        PROVE  \/ \E m \in Members(list') : m.id = user'[u].on /\ u \in m.waiting
               \/ \E n \in DOMAIN levels : levels[n].id = user'[u].on /\ u \in levels[n].waiting
    <3>1. user'[u] = user[u] /\ ~Freed(D, u)
      BY <1>13, <2>1
    <3>2. CASE \E m \in Members(list) : m.id = user[u].on /\ u \in m.waiting
      BY <3>1, <3>2 DEF Freed
    <3>3. CASE \E n \in DOMAIN levels : levels[n].id = user[u].on /\ u \in levels[n].waiting
      BY <3>1, <3>3
    <3> QED BY <2>1, <3>1, <3>2, <3>3 DEF Noted
  <2>2. ASSUME NEW u \in Users, user'[u].at = "level"
        PROVE  user'[u].on \in DOMAIN levels /\ levels[user'[u].on].id # 0
    BY <1>13, <2>2 DEF Noted
  <2> QED BY <2>1, <2>2 DEF Noted
<1>15. Cancelled'
  <2>1. ASSUME NEW u \in Users, user'[u].at \in {"cancel", "wait"} PROVE user'[u].on \notin installed
    BY <2>1, Standings DEF Cancelled
  <2>2. ASSUME NEW u \in Users, NEW h, Outlives(u, h) PROVE Outlives(u, h)'
    <3>1. ~Freed(D, u)
      <4> SUFFICES ASSUME NEW d \in D, u \in d.waiting PROVE FALSE
        BY DEF Freed
      <4>1. user[u] = For(d.id)
        BY DEF Waiters
      <4> QED BY <2>2, <4>1, Standings DEF Outlives
    <3>2. user'[u] = user[u]
      BY <1>9, <2>2, <3>1 DEF Outlives
    <3> QED BY <2>2, <3>2 DEF Outlives
  <2> QED BY <2>1, <2>2 DEF Cancelled
<1> QED BY <1>3, <1>4, <1>5, <1>6, <1>12, <1>14, <1>15

LEMMA Waits1 == \A type \in Mq!Types : Mq!WaitOf(type) \in 0..1
BY DEF Mq!Types, Mq!WaitOf

(* A message as it is posted.                                              *)
LEMMA NewMessage ==
  ASSUME QueueInv, NEW id \in Nat, NEW to \in Handlers \cup {Mq!Broadcast}, NEW type \in Mq!Types
  PROVE  LET m == Mq!Message(id, to, type, Mq!WaitOf(type)) IN
         m \in Messages /\ m.id = id /\ m.waiting = {} /\ m.due <= mq_clock + 1
<1>1. mq_clock \in Nat /\ Mq!WaitOf(type) \in 0..1
  BY QueuesAssumption, Waits1 DEF QueueInv, QueueTypes
<1>2. PICK d \in Nat : d = mq_clock + Mq!WaitOf(type) /\ d <= mq_clock + 1
  BY <1>1
<1> QED BY <1>2 DEF Messages, Mq!Message

LEMMA PostStep ==
  ASSUME QueueInv, NEW to \in Handlers \cup {Mq!Broadcast}, NEW type \in Mq!Types, Mq!PostMessage(to, type)
  PROVE  QueueInv'
<1> DEFINE m == Mq!Message(lastSeq + 1, to, type, Mq!WaitOf(type))
<1>1. /\ lastSeq < MaxPosts /\ lastSeq' = lastSeq + 1 /\ list' = Append(list, m)
      /\ UNCHANGED <<mq_clock, levels, installed, gone, breakflag, user>>
  BY DEF Mq!PostMessage
<1>2. lastSeq \in Nat /\ lastSeq + 1 \in Nat /\ list \in Seq(Messages) /\ Unique(list) /\ user \in [Users -> Standing]
  BY DEF QueueInv, QueueTypes
<1>3. m \in Messages /\ m.id = lastSeq + 1 /\ m.waiting = {} /\ m.due <= mq_clock + 1
  BY <1>2, NewMessage
<1>4. PICK n \in Messages : n = m
  BY <1>3
<1> HIDE DEF m
<1>5. \A k \in Members(list) : k.id # n.id
  <2> SUFFICES ASSUME NEW k \in Members(list), k.id = lastSeq + 1 PROVE FALSE
    BY <1>3, <1>4
  <2>1. k.id \in 1..lastSeq
    BY DEF QueueInv, Numbered
  <2> QED BY <1>2, <2>1
<1>6. list' \in Seq(Messages) /\ Unique(list') /\ Members(list') = Members(list) \cup {n}
  BY <1>1, <1>2, <1>4, <1>5, Posted1
<1>7. PICK N, D : N = {n} /\ D = {}
  OBVIOUS
<1>8. NewIn(N, D)
  <2>1. n.id \in 1..lastSeq' /\ n.id > lastSeq
    BY <1>1, <1>2, <1>3, <1>4
  <2> QED BY <1>3, <1>4, <1>7, <2>1 DEF NewIn
<1>9. lastSeq' \in lastSeq..MaxPosts
  BY <1>1, <1>2, QueuesAssumption
<1>10. D \subseteq Members(list) /\ Members(list') = (Members(list) \ D) \cup N /\ \A u : ~Freed(D, u)
  BY <1>6, <1>7 DEF Freed
<1> QED BY <1>1, <1>2, <1>6, <1>8, <1>9, <1>10, ListStep

(* Wake in the words of the invariant.                                     *)
LEMMA Woken ==
  ASSUME QueueInv, NEW us, Mq!Wake(us)
  PROVE  /\ user' \in [Users -> Standing]
         /\ \A u \in Users : (u \in us => user'[u] = Mq!Idle) /\ (u \notin us => user'[u] = user[u])
<1>1. user \in [Users -> Standing] /\ Mq!Idle \in Standing
  BY Standings DEF QueueInv, QueueTypes
<1>2. user' = [u \in Users |-> IF u \in us THEN Mq!Idle ELSE user[u]]
  BY DEF Mq!Wake
<1> QED BY <1>1, <1>2

LEMMA ReplaceStep ==
  ASSUME QueueInv, NEW i \in DOMAIN list, NEW type \in Mq!Types, Mq!Replace(i, type)
  PROVE  QueueInv'
<1> DEFINE m == Mq!Message(list[i].id, list[i].to, type, Mq!WaitOf(type))
           r == Mq!RemoveAt(list, i)
<1>1. /\ list' = Append(r, m) /\ Mq!Wake(list[i].waiting)
      /\ UNCHANGED <<mq_clock, levels, installed, gone, breakflag, lastSeq>>
  BY DEF Mq!Replace
<1>2. lastSeq \in 0..MaxPosts /\ list \in Seq(Messages) /\ Unique(list)
  BY DEF QueueInv, QueueTypes
<1>3. PICK d \in Messages : d = list[i] /\ d \in Members(list) /\ d.id \in Nat /\ d.to \in Handlers \cup {Mq!Broadcast}
  <2>1. PICK q \in Seq(Messages) : q = list
    BY <1>2
  <2>2. list[i] \in Messages
    BY <2>1
  <2>3. list[i] \in Members(list)
    BY DEF Members
  <2>4. \A k \in Messages : k.id \in Nat /\ k.to \in Handlers \cup {Mq!Broadcast}
    BY DEF Messages
  <2> QED BY <2>2, <2>3, <2>4
<1>4. m \in Messages /\ m.id = d.id /\ m.waiting = {} /\ m.due <= mq_clock + 1
  <2>1. PICK x \in Nat, y \in Handlers \cup {Mq!Broadcast} : x = d.id /\ y = d.to
    BY <1>3
  <2>2. PICK n : n = Mq!Message(x, y, type, Mq!WaitOf(type))
    OBVIOUS
  <2>3. n \in Messages /\ n.id = x /\ n.waiting = {} /\ n.due <= mq_clock + 1
    BY <2>2, NewMessage
  <2> QED BY <1>3, <2>1, <2>2, <2>3
<1>5. r \in Seq(Messages) /\ Unique(r) /\ Members(r) = Members(list) \ {d}
  BY <1>2, <1>3, Removed
<1>6. PICK n \in Messages, q \in Seq(Messages) : n = m /\ q = r
  BY <1>4, <1>5
<1> HIDE DEF m, r
<1>7. \A k \in Members(q) : k.id # n.id
  BY <1>2, <1>3, <1>4, <1>5, <1>6, ById
<1>8. list' \in Seq(Messages) /\ Unique(list') /\ Members(list') = Members(q) \cup {n}
  BY <1>1, <1>5, <1>6, <1>7, Posted1
<1>9. PICK N, D : N = {n} /\ D = {d}
  OBVIOUS
<1>10. NewIn(N, D)
  <2>1. d.id \in 1..lastSeq
    BY <1>3 DEF QueueInv, Numbered
  <2> QED BY <1>1, <1>4, <1>6, <1>9, <2>1 DEF NewIn
<1>11. lastSeq' \in lastSeq..MaxPosts
  BY <1>1, <1>2, QueuesAssumption
<1>12. D \subseteq Members(list) /\ Members(list') = (Members(list) \ D) \cup N
  BY <1>3, <1>5, <1>6, <1>8, <1>9
<1>13. \A u : Freed(D, u) <=> u \in d.waiting
  BY <1>9 DEF Freed
<1>14. /\ user' \in [Users -> Standing]
       /\ \A u \in Users : (u \in d.waiting => user'[u] = Mq!Idle) /\ (u \notin d.waiting => user'[u] = user[u])
  BY <1>1, <1>3, Woken
<1> QED BY <1>1, <1>8, <1>10, <1>11, <1>12, <1>13, <1>14, ListStep

LEMMA DeleteStep ==
  ASSUME QueueInv, NEW ids, Mq!Delete(ids)
  PROVE  QueueInv'
<1> DEFINE K == {m \in Members(list) : m.id \notin ids}
           W == UNION {list[i].waiting : i \in {j \in DOMAIN list : list[j].id \in ids}}
<1>1. /\ list' = Only(list, K) /\ Mq!Wake(W)
      /\ UNCHANGED <<mq_clock, levels, installed, gone, breakflag, lastSeq>>
  BY SameSelection DEF Mq!Delete
<1>2. lastSeq \in 0..MaxPosts /\ list \in Seq(Messages) /\ Unique(list)
  BY DEF QueueInv, QueueTypes
<1>3. PICK N, D : N = {} /\ D = {m \in Members(list) : m.id \in ids}
  OBVIOUS
<1>4. \A u : u \in W <=> Freed(D, u)
  BY <1>3 DEF Freed, Members
<1>5. PICK k : k = K
  OBVIOUS
<1>6. Members(list) \cap k = Members(list) \ D
  BY <1>3, <1>5
<1> HIDE DEF K, W
<1>7. list' \in Seq(Messages) /\ Unique(list') /\ Members(list') = Members(list) \ D
  BY <1>1, <1>2, <1>5, <1>6, Selected
<1>8. NewIn(N, D) /\ D \subseteq Members(list) /\ Members(list') = (Members(list) \ D) \cup N
  BY <1>3, <1>7 DEF NewIn
<1>9. lastSeq' \in lastSeq..MaxPosts
  BY <1>1, <1>2, QueuesAssumption
<1>10. PICK us : us = W
  OBVIOUS
<1>11. /\ user' \in [Users -> Standing]
       /\ \A u \in Users : (u \in us => user'[u] = Mq!Idle) /\ (u \notin us => user'[u] = user[u])
  BY <1>1, <1>10, Woken
<1> QED BY <1>1, <1>4, <1>7, <1>8, <1>9, <1>10, <1>11, ListStep

LEMMA CancelAllStep ==
  ASSUME QueueInv, NEW u \in Users, Mq!CancelAll(u)
  PROVE  QueueInv'
<1> DEFINE h == user[u].on
           K == {m \in Members(list) : m.to # h}
           W == UNION {list[i].waiting : i \in Mq!Same(h)}
<1>1. /\ user[u].at = "cancel" /\ list' = Only(list, K)
      /\ user' = [v \in Users |-> IF v = u THEN [at |-> "wait", on |-> h] ELSE IF v \in W THEN Mq!Idle ELSE user[v]]
      /\ UNCHANGED <<mq_clock, levels, installed, gone, breakflag, lastSeq>>
  BY SameSelection DEF Mq!CancelAll
<1>2. lastSeq \in 0..MaxPosts /\ list \in Seq(Messages) /\ Unique(list) /\ user \in [Users -> Standing]
  BY DEF QueueInv, QueueTypes
<1>3. PICK N, D : N = {} /\ D = {m \in Members(list) : m.to = h}
  OBVIOUS
<1>4. \A v : v \in W <=> Freed(D, v)
  BY <1>3 DEF Freed, Members, Mq!Same
<1>5. PICK k : k = K
  OBVIOUS
<1>6. Members(list) \cap k = Members(list) \ D
  BY <1>3, <1>5
<1>7. h \in Handlers /\ [at |-> "wait", on |-> h] \in Standing
  <2>1. h \in Handlers
    BY <1>1, <1>2, Standings
  <2> QED BY <2>1 DEF Standing
<1>8. ~Freed(D, u)
  <2> SUFFICES ASSUME NEW m \in D, u \in m.waiting PROVE FALSE
    BY DEF Freed
  <2>1. user[u] = For(m.id)
    BY <1>3 DEF QueueInv, Waiters
  <2> QED BY <1>1, <2>1, Standings
<1> HIDE DEF K, W, h
<1>9. list' \in Seq(Messages) /\ Unique(list') /\ Members(list') = Members(list) \ D
  BY <1>1, <1>2, <1>5, <1>6, Selected
<1>10. NewIn(N, D) /\ D \subseteq Members(list) /\ Members(list') = (Members(list) \ D) \cup N
  BY <1>3, <1>9 DEF NewIn
<1>11. lastSeq' \in lastSeq..MaxPosts
  BY <1>1, <1>2, QueuesAssumption
<1>12. user' \in [Users -> Standing]
  BY <1>1, <1>2, <1>7, Standings
<1>13. \A v \in Users : Freed(D, v) => user'[v] = Mq!Idle
  BY <1>1, <1>4, <1>8
<1>14. \A v \in Users : ~Freed(D, v) =>
           \/ user'[v] = user[v]
           \/ user[v].at = "cancel" /\ user'[v].at = "wait" /\ user'[v].on = user[v].on
  BY <1>1, <1>4 DEF h
<1> QED BY <1>1, <1>9, <1>10, <1>11, <1>12, <1>13, <1>14, ListStep
-----------------------------------------------------------------------------
(* Steps of one user                                                       *)

LEMMA FirstIsLeast ==
  ASSUME NEW S \in SUBSET Nat, S # {}
  PROVE  Mq!First(S) \in S /\ \A j \in S : Mq!First(S) <= j
<1>1. PICK R : R = {ss \in Nat \X Nat : ss[1] < ss[2]}
  OBVIOUS
<1>2. IsWellFoundedOn({ss \in Nat \X Nat : ss[1] < ss[2]}, Nat)
  BY NatLessThanWellFounded DEF OpToRel
<1>3. PICK i \in S : \A j \in S : <<j, i>> \notin R
  BY <1>1, <1>2, WFMin
<1>4. \A j \in S : i <= j
  <2> SUFFICES ASSUME NEW j \in S, j < i PROVE FALSE
    OBVIOUS
  <2>1. <<j, i>> \in Nat \X Nat /\ <<j, i>>[1] < <<j, i>>[2]
    OBVIOUS
  <2> QED BY <1>1, <1>3, <2>1
<1>5. \E x \in S : \A j \in S : x <= j
  BY <1>4
<1> QED BY <1>5 DEF Mq!First

(* A user goes on in its call; a handler may be taken out on the way, or   *)
(* its wait begin.                                                         *)
LEMMA UserStep ==
  ASSUME QueueInv, NEW u \in Users, NEW s \in Standing,
         user' = [user EXCEPT ![u] = s], user[u].at \notin {"message", "level"}, s.at # "message",
         s.at = "level" => s.on \in DOMAIN levels /\ levels[s.on].id # 0,
         s.at \in {"cancel", "wait"} => s.on \notin installed',
         installed' \subseteq installed, gone' \subseteq Handlers,
         \A h \in gone' :
           \/ h \in gone
           \/ /\ h \notin installed
              /\ (\A n \in DOMAIN levels : h \notin levels[n].left) \/ Outlives(u, h)',
         UNCHANGED <<mq_clock, lastSeq, list, levels, breakflag>>
  PROVE  QueueInv'
<1> USE DEF QueueInv
<1>1. user \in [Users -> Standing]
  BY DEF QueueTypes
<1>2. \A v \in Users : user'[v] = IF v = u THEN s ELSE user[v]
  BY <1>1
<1>3. QueueTypes' /\ Unique(list)' /\ Numbered'
  <2>1. user' \in [Users -> Standing]
    BY <1>1
  <2>2. QueueTypes'
    BY <2>1 DEF QueueTypes
  <2> QED BY <2>2 DEF Numbered
<1>4. LoopInv' /\ InHand'
  <2>1. LoopInv'
    BY DEF LoopInv, Placed
  <2>2. \A n \in DOMAIN levels : Running(n)' = Running(n)
    BY DEF Running
  <2> QED BY <2>1, <2>2 DEF InHand
<1>5. \A v \in Users : user[v].at \in {"message", "level"} => v # u /\ user'[v] = user[v]
  BY <1>2
<1>6. Waiters'
  <2>1. ASSUME NEW m \in Members(list), NEW v \in m.waiting PROVE user'[v] = For(m.id)
    <3>1. user[v] = For(m.id) /\ v \in Users
      <4>1. m.waiting \subseteq Users
        BY ById DEF QueueTypes, Messages
      <4> QED BY <4>1 DEF Waiters
    <3> QED BY <1>5, <3>1, Standings
  <2>2. ASSUME NEW n \in DOMAIN levels, NEW v \in levels[n].waiting PROVE user'[v] = For(levels[n].id)
    <3>1. user[v] = For(levels[n].id) /\ v \in Users
      <4>1. levels[n].waiting \subseteq Users
        BY LoopTypes DEF RunLoops
      <4> QED BY <4>1 DEF Waiters
    <3> QED BY <1>5, <3>1, Standings
  <2> QED BY <2>1, <2>2 DEF Waiters
<1>7. Noted'
  <2>1. ASSUME NEW v \in Users, user'[v].at = "message"
        PROVE  \/ \E m \in Members(list) : m.id = user'[v].on /\ v \in m.waiting
               \/ \E n \in DOMAIN levels : levels[n].id = user'[v].on /\ v \in levels[n].waiting
    <3>1. user'[v] = user[v]
      BY <1>2, <2>1
    <3> QED BY <2>1, <3>1 DEF Noted
  <2>2. ASSUME NEW v \in Users, user'[v].at = "level"
        PROVE  user'[v].on \in DOMAIN levels /\ levels[user'[v].on].id # 0
    BY <1>2, <2>2 DEF Noted
  <2> QED BY <2>1, <2>2 DEF Noted
<1>8. Cancelled'
  <2>1. ASSUME NEW v \in Users, user'[v].at \in {"cancel", "wait"} PROVE user'[v].on \notin installed'
    BY <1>2, <2>1 DEF Cancelled
  <2>2. ASSUME NEW v \in Users, NEW h, Outlives(v, h) PROVE Outlives(v, h)'
    BY <1>5, <2>2 DEF Outlives
  <2>3. ASSUME NEW h \in gone'
        PROVE  /\ h \notin installed'
               /\ (\A n \in DOMAIN levels : h \notin levels[n].left) \/ (\E v \in Users : Outlives(v, h)')
    <3>1. CASE h \in gone
      <4>1. h \notin installed
        BY <3>1 DEF Cancelled
      <4>2. (\A n \in DOMAIN levels : h \notin levels[n].left) \/ (\E v \in Users : Outlives(v, h))
        BY <3>1 DEF Cancelled
      <4> QED BY <2>2, <4>1, <4>2
    <3>2. CASE h \notin gone
      BY <3>2
    <3> QED BY <3>1, <3>2
  <2> QED BY <2>1, <2>3 DEF Cancelled
<1> QED BY <1>3, <1>4, <1>6, <1>7, <1>8

LEMMA UnInstallStep ==
  ASSUME QueueInv, NEW u \in Users, NEW h \in Handlers, Mq!UnInstall(u, h)
  PROVE  QueueInv'
<1>1. /\ user[u] = Mq!Idle /\ installed' = installed \ {h}
      /\ user' = [user EXCEPT ![u] = [at |-> "cancel", on |-> h]]
      /\ UNCHANGED <<mq_clock, lastSeq, list, levels, breakflag, gone>>
  BY DEF Mq!UnInstall, Mq!Call
<1>2. PICK s \in Standing : s = [at |-> "cancel", on |-> h]
  BY DEF Standing
<1>3. s.at = "cancel" /\ s.on \notin installed'
  BY <1>1, <1>2
<1>4. user[u].at = "idle" /\ gone' \subseteq Handlers
  BY <1>1, Standings DEF QueueInv, QueueTypes
<1> QED BY <1>1, <1>2, <1>3, <1>4, UserStep

LEMMA WaitRunningStep ==
  ASSUME QueueInv, NEW u \in Users, Mq!WaitRunning(u)
  PROVE  QueueInv'
<1>1. PICK h : h = user[u].on
  OBVIOUS
<1>2. PICK ns : ns = {n \in DOMAIN levels : h \in levels[n].running}
  OBVIOUS
<1>3. /\ user[u].at = "wait" /\ gone' = gone \cup {h}
      /\ IF ns = {} THEN Mq!Call(u, "idle", 0) ELSE Mq!Call(u, "level", Mq!First(ns))
      /\ UNCHANGED <<mq_clock, lastSeq, list, installed, levels, breakflag>>
  BY <1>1, <1>2 DEF Mq!WaitRunning
<1>4. h \in Handlers /\ h \notin installed /\ gone' \subseteq Handlers
  <2>1. user[u] \in Standing
    BY DEF QueueInv, QueueTypes
  <2>2. h \in Handlers
    BY <1>1, <1>3, <2>1, Standings
  <2>3. h \notin installed
    BY <1>1, <1>3 DEF QueueInv, Cancelled
  <2> QED BY <1>3, <2>2, <2>3 DEF QueueInv, QueueTypes
<1>5. \A n \in DOMAIN levels : levels[n].left \subseteq levels[n].running /\ (levels[n].id = 0 => levels[n].running = {})
  BY DEF QueueInv, LoopInv, Placed
<1>6. CASE ns = {}
  <2>1. PICK s \in Standing : s = Mq!Idle
    BY Standings
  <2>2. s.at = "idle" /\ user' = [user EXCEPT ![u] = s]
    BY <1>3, <1>6, <2>1, Standings DEF Mq!Call, Mq!Idle
  <2>3. \A n \in DOMAIN levels : h \notin levels[n].left
    BY <1>2, <1>5, <1>6
  <2> QED BY <1>3, <1>4, <2>2, <2>3, UserStep
<1>7. CASE ns # {}
  <2>1. ns \in SUBSET Nat
    BY <1>2, LoopTypes
  <2>2. PICK k \in ns : k = Mq!First(ns) /\ \A j \in ns : k <= j
    BY <1>7, <2>1, FirstIsLeast
  <2>3. k \in Nat /\ k \in DOMAIN levels /\ levels[k].id # 0
    BY <1>2, <1>5, <2>1
  <2>4. PICK s \in Standing : s = [at |-> "level", on |-> k]
    BY <2>3 DEF Standing
  <2>5. s.at = "level" /\ s.on = k /\ user' = [user EXCEPT ![u] = s]
    BY <1>3, <1>7, <2>2, <2>4 DEF Mq!Call
  <2>6. user'[u] = s
    BY <2>5 DEF QueueInv, QueueTypes
  <2>7. \A n \in DOMAIN levels : h \in levels[n].running => n >= k
    <3>1. DOMAIN levels \subseteq Nat
      BY LoopTypes
    <3> QED BY <1>2, <2>2, <2>3, <3>1
  <2>8. Outlives(u, h)'
    BY <1>3, <2>5, <2>6, <2>7 DEF Outlives
  <2> QED BY <1>3, <1>4, <2>3, <2>5, <2>8, UserStep
<1> QED BY <1>6, <1>7

(* WaitMessage of a message that runs.                                     *)
LEMMA WaitLevelStep ==
  ASSUME QueueInv, NEW u \in Users, NEW id \in Mq!Ids,
         user[u] = Mq!Idle, Mq!LevelsOf(id) # {}, Mq!Call(u, "level", Mq!First(Mq!LevelsOf(id))),
         UNCHANGED <<mq_clock, lastSeq, list, installed, levels, breakflag, gone>>
  PROVE  QueueInv'
<1>1. PICK ns : ns = Mq!LevelsOf(id)
  OBVIOUS
<1>2. ns \in SUBSET Nat /\ \A n \in ns : n \in DOMAIN levels /\ levels[n].id = id
  BY <1>1, LoopTypes DEF Mq!LevelsOf
<1>3. PICK k \in ns : k = Mq!First(ns)
  BY <1>1, <1>2, FirstIsLeast
<1>4. id # 0
  BY DEF Mq!Ids
<1>5. PICK s \in Standing : s = [at |-> "level", on |-> k]
  BY <1>2 DEF Standing
<1>6. /\ s.at = "level" /\ s.on \in DOMAIN levels /\ levels[s.on].id # 0
      /\ user' = [user EXCEPT ![u] = s]
  BY <1>1, <1>2, <1>3, <1>4, <1>5 DEF Mq!Call
<1>7. user[u].at = "idle" /\ gone' \subseteq Handlers
  BY Standings DEF QueueInv, QueueTypes
<1> QED BY <1>6, <1>7, UserStep

(* WaitMessage of a message that is listed.                                *)
LEMMA WaitListedStep ==
  ASSUME QueueInv, NEW u \in Users, NEW i \in DOMAIN list,
         user[u] = Mq!Idle, list[i].type # "period",
         list' = [list EXCEPT ![i].waiting = @ \cup {u}], Mq!Call(u, "message", list[i].id),
         UNCHANGED <<mq_clock, lastSeq, installed, levels, breakflag, gone>>
  PROVE  QueueInv'
<1> USE DEF QueueInv
<1>1. /\ list \in Seq(Messages) /\ Unique(list) /\ user \in [Users -> Standing]
      /\ user' = [user EXCEPT ![u] = For(list[i].id)]
  BY DEF QueueTypes, Mq!Call, For
<1>2. PICK d \in Messages : d = list[i] /\ d \in Members(list)
  <2>1. PICK q \in Seq(Messages) : q = list
    BY <1>1
  <2>2. list[i] \in Messages
    BY <2>1
  <2> QED BY <2>2 DEF Members
<1>3. PICK m \in Messages : m = [d EXCEPT !.waiting = @ \cup {u}]
  BY DEF Messages
<1>4. /\ m.id = d.id /\ m.type = d.type /\ m.due = d.due /\ m.waiting = d.waiting \cup {u} /\ d.id \in Nat
      /\ d.waiting \subseteq Users
  BY <1>3 DEF Messages
<1>5. list' = [list EXCEPT ![i] = m]
  <2>1. m = [list[i] EXCEPT !.waiting = @ \cup {u}]
    BY <1>2, <1>3
  <2>2. list' = [list EXCEPT ![i] = [list[i] EXCEPT !.waiting = @ \cup {u}]]
    OBVIOUS
  <2> QED BY <2>1, <2>2
<1>6. list' \in Seq(Messages) /\ Unique(list') /\ Members(list') = (Members(list) \ {d}) \cup {m}
  <2>1. m.id = list[i].id
    BY <1>2, <1>4
  <2>2. Changes(list, i, m, list')
    BY <1>1, <1>5, <2>1 DEF Changes
  <2>3. PICK q, r : q = list /\ r = list'
    OBVIOUS
  <2>4. Changes(q, i, m, r)
    BY <2>2, <2>3
  <2>5. r \in Seq(Messages) /\ Unique(r) /\ Members(r) = (Members(q) \ {q[i]}) \cup {m}
    BY <2>4, Changed
  <2> QED BY <1>2, <2>3, <2>5
<1>7. For(d.id) \in Standing
  BY <1>4 DEF For, Standing
<1>8. \A v \in Users : user'[v] = IF v = u THEN For(d.id) ELSE user[v]
  BY <1>1, <1>2
<1>9. QueueTypes'
  <2>1. user' \in [Users -> Standing]
    BY <1>1, <1>2, <1>7
  <2> QED BY <1>6, <2>1 DEF QueueTypes
<1>10. Numbered'
  BY <1>2, <1>4, <1>6 DEF Numbered
<1>11. LoopInv' /\ InHand'
  <2>1. LoopInv'
    BY DEF LoopInv, Placed
  <2>2. \A n \in DOMAIN levels : Running(n)' = Running(n)
    BY DEF Running
  <2>3. ASSUME NEW n \in DOMAIN levels, Running(n), NEW x \in Members(list') PROVE x.id # levels[n].id
    <3>1. \A y \in Members(list) : y.id # levels[n].id
      BY <2>3 DEF InHand
    <3> QED BY <1>2, <1>4, <1>6, <3>1
  <2> QED BY <2>1, <2>2, <2>3 DEF InHand
<1>12. \A v \in Users : user[v].at # "idle" => v # u /\ user'[v] = user[v]
  BY <1>8, Standings
<1>13. Waiters'
  <2>1. ASSUME NEW x \in Members(list'), NEW v \in x.waiting PROVE user'[v] = For(x.id)
    <3>1. CASE x = m /\ v = u
      BY <1>4, <1>8, <3>1
    <3>2. CASE x = m /\ v # u
      <4>1. v \in d.waiting
        BY <1>4, <2>1, <3>2
      <4>2. user[v] = For(d.id) /\ v \in Users
        BY <1>2, <1>4, <4>1 DEF Waiters
      <4> QED BY <1>4, <1>8, <3>2, <4>2
    <3>3. CASE x # m
      <4>1. x \in Members(list)
        BY <1>6, <3>3
      <4>2. x.waiting \subseteq Users
        BY <1>1, <4>1, ById DEF Messages
      <4>3. user[v] = For(x.id) /\ v \in Users
        BY <4>1, <4>2 DEF Waiters
      <4>4. user[v].at = "message"
        BY <4>3, Standings
      <4> QED BY <1>12, <4>3, <4>4
    <3> QED BY <3>1, <3>2, <3>3
  <2>2. ASSUME NEW n \in DOMAIN levels, NEW v \in levels[n].waiting PROVE user'[v] = For(levels[n].id)
    <3>1. levels[n].waiting \subseteq Users
      BY LoopTypes DEF RunLoops
    <3>2. user[v] = For(levels[n].id) /\ v \in Users
      BY <3>1 DEF Waiters
    <3>3. user[v].at = "message"
      BY <3>2, Standings
    <3> QED BY <1>12, <3>2, <3>3
  <2> QED BY <2>1, <2>2 DEF Waiters
<1>14. Noted'
  <2>1. ASSUME NEW v \in Users, user'[v].at = "message"
        PROVE  \/ \E x \in Members(list') : x.id = user'[v].on /\ v \in x.waiting
               \/ \E n \in DOMAIN levels : levels[n].id = user'[v].on /\ v \in levels[n].waiting
    <3>1. CASE v = u
      <4>1. user'[v].on = m.id /\ v \in m.waiting
        BY <1>4, <1>8, <3>1, Standings
      <4> QED BY <1>6, <4>1
    <3>2. CASE v # u
      <4>1. user'[v] = user[v]
        BY <1>8, <3>2
      <4>2. CASE \E x \in Members(list) : x.id = user[v].on /\ v \in x.waiting
        BY <1>4, <1>6, <4>1, <4>2
      <4>3. CASE \E n \in DOMAIN levels : levels[n].id = user[v].on /\ v \in levels[n].waiting
        BY <4>1, <4>3
      <4> QED BY <2>1, <4>1, <4>2, <4>3 DEF Noted
    <3> QED BY <3>1, <3>2
  <2>2. ASSUME NEW v \in Users, user'[v].at = "level"
        PROVE  user'[v].on \in DOMAIN levels /\ levels[user'[v].on].id # 0
    <3>1. user'[v] = user[v]
      BY <1>8, <2>2, Standings
    <3> QED BY <2>2, <3>1 DEF Noted
  <2> QED BY <2>1, <2>2 DEF Noted
<1>15. Cancelled'
  <2>1. ASSUME NEW v \in Users, user'[v].at \in {"cancel", "wait"} PROVE user'[v].on \notin installed
    BY <1>8, <2>1, Standings DEF Cancelled
  <2>2. ASSUME NEW v \in Users, NEW h, Outlives(v, h) PROVE Outlives(v, h)'
    BY <1>12, <2>2 DEF Outlives
  <2> QED BY <2>1, <2>2 DEF Cancelled
<1> QED BY <1>6, <1>9, <1>10, <1>11, <1>13, <1>14, <1>15

LEMMA WaitMessageStep ==
  ASSUME QueueInv, NEW u \in Users, NEW id \in Mq!Ids, Mq!WaitMessage(u, id)
  PROVE  QueueInv'
<1>1. /\ user[u] = Mq!Idle
      /\ UNCHANGED <<mq_clock, lastSeq, installed, levels, breakflag, gone>>
      /\ \/ /\ \E i \in DOMAIN list :
                 /\ list[i].id = id /\ list[i].type # "period"
                 /\ list' = [list EXCEPT ![i].waiting = @ \cup {u}]
            /\ Mq!Call(u, "message", id)
         \/ /\ Mq!LevelsOf(id) # {}
            /\ Mq!Call(u, "level", Mq!First(Mq!LevelsOf(id)))
            /\ UNCHANGED list
  BY DEF Mq!WaitMessage
<1> QED BY <1>1, WaitLevelStep, WaitListedStep
-----------------------------------------------------------------------------
(* Steps of the run loops                                                  *)

(* Who is noted with what runs waits for nothing else.                     *)
LEMMA NotedOnce ==
  ASSUME QueueInv, NEW n \in DOMAIN levels, NEW u \in levels[n].waiting
  PROVE  /\ u \in Users /\ user[u].at = "message"
         /\ \A m \in Members(list) : u \notin m.waiting
         /\ \A k \in DOMAIN levels : u \in levels[k].waiting => k = n
<1> USE DEF QueueInv
<1>1. ASSUME NEW k \in DOMAIN levels, u \in levels[k].waiting
      PROVE  Running(k) /\ u \in Users /\ user[u] = For(levels[k].id)
  <2>1. levels[k].waiting \subseteq Users /\ levels[k].at \in {"top", "call"}
    BY LoopTypes DEF RunLoops
  <2>2. Placed(levels[k])
    BY DEF LoopInv
  <2> QED BY <1>1, <2>1, <2>2 DEF Waiters, Placed, Running
<1>2. Running(n) /\ u \in Users /\ user[u] = For(levels[n].id)
  BY <1>1
<1>3. ASSUME NEW m \in Members(list), u \in m.waiting PROVE FALSE
  <2>1. user[u] = For(m.id)
    BY <1>3 DEF Waiters
  <2>2. m.id = levels[n].id
    BY <1>2, <2>1, Standings
  <2> QED BY <1>2, <2>2 DEF InHand
<1>4. ASSUME NEW k \in DOMAIN levels, u \in levels[k].waiting PROVE k = n
  <2>1. Running(k) /\ user[u] = For(levels[k].id)
    BY <1>1, <1>4
  <2>2. levels[k].id = levels[n].id
    BY <1>2, <2>1, Standings
  <2> QED BY <1>2, <2>1, <2>2 DEF InHand
<1> QED BY <1>2, <1>3, <1>4, Standings

(* The innermost loop o becomes l, and W go on: they waited for o, or for  *)
(* its message.  A message that leaves the list is l's, with its waiters.  *)
Stays(m, q) == \E d \in Members(q) : d.id = m.id /\ d.waiting = m.waiting
WaitsAt(u, n) == user[u].at = "level" /\ user[u].on = n
TopChange(n, o, l, W) ==
  /\ n = Len(levels) /\ n # 0 /\ o = levels[n] /\ l \in RunLoops /\ Placed(l)
  /\ levels' = [levels EXCEPT ![n] = l] /\ Mq!Wake(W)
  /\ UNCHANGED <<mq_clock, lastSeq, installed, breakflag, gone>>
  /\ list' \in Seq(Messages) /\ Unique(list') /\ Numbered'
  /\ \A m \in Members(list') : Stays(m, list)
  /\ \A m \in Members(list) : Stays(m, list') \/ (m.waiting \subseteq l.waiting /\ l.id = m.id)
  /\ l.at = "call" /\ l.type # "period" =>
       /\ \A m \in Members(list') : m.id # l.id
       /\ \A k \in DOMAIN levels \ {n} : Running(k) => levels[k].id # l.id
  /\ \A u \in l.waiting : user[u] = For(l.id) /\ u \notin W
  /\ \A u \in o.waiting : u \in W \/ (u \in l.waiting /\ l.id = o.id)
  /\ \A u \in W : u \in o.waiting \/ WaitsAt(u, n)
  /\ l.id = 0 => \A u \in Users : WaitsAt(u, n) => u \in W
  /\ l.left \cap gone = {} \/ (l.left \subseteq o.left /\ W \subseteq o.waiting)

LEMMA TopStep ==
  ASSUME QueueInv, NEW n, NEW o, NEW l, NEW W, TopChange(n, o, l, W)
  PROVE  QueueInv'
<1> USE DEF TopChange, Stays, WaitsAt
<1> USE DEF QueueInv
<1>1. /\ n \in DOMAIN levels /\ DOMAIN levels' = DOMAIN levels /\ levels'[n] = l
      /\ \A k \in DOMAIN levels \ {n} : levels'[k] = levels[k]
      /\ DOMAIN levels = 1..n /\ n \in Nat
      /\ levels' \in Seq(RunLoops) /\ Len(levels') = Len(levels)
  <2>1. PICK q \in Seq(RunLoops) : q = levels
    BY DEF QueueTypes
  <2>2. n \in DOMAIN q /\ DOMAIN q = 1..n /\ n \in Nat
    BY <2>1
  <2>3. PICK r : r = [q EXCEPT ![n] = l]
    OBVIOUS
  <2>4. r \in Seq(RunLoops) /\ Len(r) = Len(q)
    BY <2>2, <2>3
  <2>5. DOMAIN r = DOMAIN q /\ r[n] = l /\ \A k \in DOMAIN q \ {n} : r[k] = q[k]
    BY <2>2, <2>3
  <2>6. levels' = r
    BY <2>1, <2>3
  <2> QED BY <2>1, <2>2, <2>4, <2>5, <2>6
<1>2. /\ user' \in [Users -> Standing]
      /\ \A u \in Users : (u \in W => user'[u] = Mq!Idle) /\ (u \notin W => user'[u] = user[u])
  BY Woken
<1>3. QueueTypes' /\ LoopInv'
  <2>1. QueueTypes'
    BY <1>1, <1>2 DEF QueueTypes
  <2>2. \A k \in DOMAIN levels' : Placed(levels'[k])
    BY <1>1 DEF LoopInv
  <2> QED BY <2>1, <2>2 DEF LoopInv, Placed
<1>4. \A k \in DOMAIN levels \ {n} : Running(k)' = Running(k)
  BY <1>1 DEF Running
<1>5. Running(n)' = (l.at = "call" /\ l.type # "period")
  BY <1>1 DEF Running
<1>6. InHand'
  <2>1. ASSUME NEW k \in DOMAIN levels, Running(k)' PROVE \A m \in Members(list') : m.id # levels'[k].id
    <3>1. CASE k = n
      BY <1>1, <1>5, <2>1, <3>1
    <3>2. CASE k # n
      <4>1. Running(k) /\ levels'[k] = levels[k]
        BY <1>1, <1>4, <2>1, <3>2
      <4>2. \A d \in Members(list) : d.id # levels[k].id
        BY <4>1 DEF InHand
      <4> QED BY <4>1, <4>2
    <3> QED BY <3>1, <3>2
  <2>2. ASSUME NEW k \in DOMAIN levels, NEW j \in DOMAIN levels, Running(k)', Running(j)', levels'[k].id = levels'[j].id
        PROVE  k = j
    <3>1. CASE k # n /\ j # n
      BY <1>1, <1>4, <2>2, <3>1 DEF InHand
    <3>2. CASE k = n /\ j # n
      BY <1>1, <1>4, <1>5, <2>2, <3>2
    <3>3. CASE k # n /\ j = n
      BY <1>1, <1>4, <1>5, <2>2, <3>3
    <3> QED BY <3>1, <3>2, <3>3
  <2> QED BY <1>1, <2>1, <2>2 DEF InHand
<1>7. \A u \in W : user[u].at = "message" => u \in o.waiting
  OBVIOUS
<1>8. Waiters'
  <2>1. ASSUME NEW m \in Members(list'), NEW u \in m.waiting PROVE user'[u] = For(m.id)
    <3>1. PICK d \in Members(list) : d.id = m.id /\ d.waiting = m.waiting
      OBVIOUS
    <3>2. user[u] = For(m.id) /\ u \in Users
      <4>1. d \in Messages
        BY ById DEF QueueTypes
      <4>2. d.waiting \subseteq Users
        BY <4>1 DEF Messages
      <4> QED BY <2>1, <3>1, <4>2 DEF Waiters
    <3>3. u \notin W
      <4>1. u \notin o.waiting
        BY <1>1, <2>1, <3>1, NotedOnce
      <4> QED BY <1>7, <3>2, <4>1, Standings
    <3> QED BY <1>2, <3>2, <3>3
  <2>2. ASSUME NEW u \in l.waiting PROVE user'[u] = For(l.id)
    BY <1>2 DEF RunLoops
  <2>3. ASSUME NEW k \in DOMAIN levels \ {n}, NEW u \in levels[k].waiting PROVE user'[u] = For(levels[k].id)
    <3>1. u \in Users /\ user[u].at = "message" /\ u \notin o.waiting
      BY <1>1, NotedOnce
    <3>2. u \notin W
      BY <1>7, <3>1
    <3>3. user[u] = For(levels[k].id)
      BY DEF Waiters
    <3> QED BY <1>2, <3>1, <3>2, <3>3
  <2> QED BY <1>1, <2>1, <2>2, <2>3 DEF Waiters
<1>9. \A u \in Users : user'[u].at # "idle" => u \notin W /\ user'[u] = user[u]
  BY <1>2, Standings
<1>10. Noted'
  <2>1. ASSUME NEW u \in Users, user'[u].at = "message"
        PROVE  \/ \E m \in Members(list') : m.id = user'[u].on /\ u \in m.waiting
               \/ \E k \in DOMAIN levels : levels'[k].id = user'[u].on /\ u \in levels'[k].waiting
    <3>1. user'[u] = user[u] /\ u \notin W
      BY <1>9, <2>1
    <3>2. ASSUME NEW m \in Members(list), m.id = user[u].on, u \in m.waiting
          PROVE  \/ \E d \in Members(list') : d.id = user[u].on /\ u \in d.waiting
                 \/ l.id = user[u].on /\ u \in l.waiting
      BY <3>2
    <3>3. ASSUME NEW k \in DOMAIN levels, levels[k].id = user[u].on, u \in levels[k].waiting
          PROVE  levels'[k].id = user[u].on /\ u \in levels'[k].waiting
      BY <1>1, <3>1, <3>3
    <3>4. \/ \E m \in Members(list) : m.id = user[u].on /\ u \in m.waiting
          \/ \E k \in DOMAIN levels : levels[k].id = user[u].on /\ u \in levels[k].waiting
      BY <2>1, <3>1 DEF Noted
    <3> QED BY <1>1, <3>1, <3>2, <3>3, <3>4
  <2>2. ASSUME NEW u \in Users, user'[u].at = "level"
        PROVE  user'[u].on \in DOMAIN levels /\ levels'[user'[u].on].id # 0
    <3>1. user'[u] = user[u] /\ u \notin W
      BY <1>9, <2>2
    <3>2. user[u].on \in DOMAIN levels /\ levels[user[u].on].id # 0
      BY <2>2, <3>1 DEF Noted
    <3> QED BY <1>1, <2>2, <3>1, <3>2
  <2> QED BY <1>1, <2>1, <2>2 DEF Noted
<1>11. Cancelled'
  <2>1. ASSUME NEW u \in Users, user'[u].at \in {"cancel", "wait"} PROVE user'[u].on \notin installed
    BY <1>9, <2>1 DEF Cancelled
  <2>2. ASSUME NEW u \in Users, NEW h, Outlives(u, h), u \notin W PROVE Outlives(u, h)'
    <3>1. user'[u] = user[u] /\ user[u].at = "level" /\ user[u].on \in 1..n
      BY <1>1, <1>2, <2>2 DEF Outlives, Noted
    <3>2. n >= user[u].on
      BY <1>1, <3>1
    <3>3. \A k \in DOMAIN levels' : h \in levels'[k].running => k >= user[u].on
      BY <1>1, <2>2, <3>2 DEF Outlives
    <3> QED BY <3>1, <3>3 DEF Outlives
  <2>3. ASSUME NEW h \in gone, NEW u \in Users, Outlives(u, h), u \in W
        PROVE  \A k \in DOMAIN levels' : h \notin levels'[k].left
    <3>1. user[u].at = "level"
      BY <2>3 DEF Outlives
    <3>2. u \notin o.waiting
      BY <1>1, <3>1, NotedOnce
    <3>3. user[u].on = n /\ h \notin l.left
      BY <2>3, <3>2
    <3>4. ASSUME NEW k \in DOMAIN levels \ {n} PROVE h \notin levels[k].left
      <4>1. k \in 1..n /\ k # n
        BY <1>1
      <4>2. ~(k >= n)
        BY <1>1, <4>1
      <4>3. h \notin levels[k].running
        BY <2>3, <3>3, <4>2 DEF Outlives
      <4> QED BY <4>3 DEF LoopInv, Placed
    <3> QED BY <1>1, <3>3, <3>4
  <2>4. ASSUME NEW h \in gone, \A k \in DOMAIN levels : h \notin levels[k].left
        PROVE  \A k \in DOMAIN levels' : h \notin levels'[k].left
    BY <1>1, <2>4
  <2> QED BY <2>1, <2>2, <2>3, <2>4 DEF Cancelled
<1> QED BY <1>3, <1>6, <1>8, <1>10, <1>11

LEMMA Innermost ==
  ASSUME QueueInv, Mq!Alive
  PROVE  /\ Mq!Depth = Len(levels) /\ Mq!Depth \in Nat \ {0} /\ Mq!Depth \in DOMAIN levels
         /\ Mq!Here = levels[Mq!Depth] /\ Mq!Here \in RunLoops /\ Placed(Mq!Here)
<1>1. levels \in Seq(RunLoops)
  BY DEF QueueInv, QueueTypes
<1>2. PICK q \in Seq(RunLoops) : q = levels
  BY <1>1
<1>3. q # <<>> /\ Mq!Depth = Len(q) /\ Mq!Here = q[Mq!Depth]
  BY <1>2 DEF Mq!Alive, Mq!Depth, Mq!Here
<1>4. Len(q) \in DOMAIN q /\ Len(q) # 0
  BY <1>3
<1>5. q[Len(q)] \in RunLoops
  BY <1>4
<1> QED BY <1>2, <1>3, <1>4, <1>5 DEF QueueInv, LoopInv

LEMMA NobodyWoken ==
  ASSUME QueueInv, UNCHANGED user
  PROVE  Mq!Wake({})
BY DEF QueueInv, QueueTypes, Mq!Wake

LEMMA AtTheLevel ==
  \A n : \A u : u \in Mq!AtLevel(n) <=> u \in Users /\ user[u].at = "level" /\ user[u].on = n
BY DEF Mq!AtLevel

LEMMA HandlerReturnsStep ==
  ASSUME QueueInv, NEW h \in Handlers, Mq!HandlerReturns(h)
  PROVE  QueueInv'
<1>1. /\ Mq!Alive /\ Mq!Here.at = "call"
      /\ levels' = [levels EXCEPT ![Mq!Depth].left = @ \ {h}]
      /\ UNCHANGED <<mq_clock, lastSeq, list, installed, breakflag, user, gone>>
  BY DEF Mq!HandlerReturns
<1>2. PICK n \in Nat, o \in RunLoops :
        n = Len(levels) /\ n # 0 /\ n = Mq!Depth /\ n \in DOMAIN levels /\ o = levels[n] /\ Placed(o)
  BY <1>1, Innermost
<1>3. PICK l \in RunLoops : l = [o EXCEPT !.left = @ \ {h}]
  BY DEF RunLoops
<1>4. /\ l.id = o.id /\ l.at = o.at /\ l.type = o.type /\ l.running = o.running /\ l.waiting = o.waiting
      /\ l.left \subseteq o.left /\ o.waiting \subseteq Users
  BY <1>3 DEF RunLoops
<1>5. o.at = "call"
  BY <1>1, <1>2, Innermost
<1>6. levels' = [levels EXCEPT ![n] = l]
  BY <1>1, <1>2, <1>3
<1>7. Placed(l)
  BY <1>2, <1>4, <1>5 DEF Placed
<1>8. /\ list' \in Seq(Messages) /\ Unique(list') /\ Numbered'
  BY <1>1 DEF QueueInv, QueueTypes, Numbered
<1>9. PICK W : W = {}
  OBVIOUS
<1>10. Mq!Wake(W)
  BY <1>1, <1>9, NobodyWoken
<1>11. l.at = "call" /\ l.type # "period" =>
           /\ \A m \in Members(list') : m.id # l.id
           /\ \A k \in DOMAIN levels \ {n} : Running(k) => levels[k].id # l.id
  <2>1. l.at = "call" /\ l.type # "period" => Running(n)
    BY <1>2, <1>4 DEF Running
  <2> QED BY <1>1, <1>2, <1>4, <2>1 DEF QueueInv, InHand
<1>12. \A u \in l.waiting : user[u] = For(l.id) /\ u \notin W
  BY <1>2, <1>4, <1>9 DEF QueueInv, Waiters
<1>13. l.id = 0 => \A u \in Users : WaitsAt(u, n) => u \in W
  BY <1>2, <1>4 DEF QueueInv, Noted, WaitsAt
<1>14. TopChange(n, o, l, W)
  BY <1>1, <1>2, <1>4, <1>6, <1>7, <1>8, <1>9, <1>10, <1>11, <1>12, <1>13 DEF TopChange, Stays
<1> QED BY <1>14, TopStep

(* What ran last is put away: at the end of its run, or for the rest.      *)
PutAway(n, o, l, W) ==
  /\ n = Len(levels) /\ n # 0 /\ o = levels[n] /\ l \in RunLoops /\ Placed(l)
  /\ levels' = [levels EXCEPT ![n] = l] /\ Mq!Wake(W)
  /\ UNCHANGED <<mq_clock, lastSeq, list, installed, breakflag, gone>>
  /\ l.at = "top" /\ l.waiting = {} /\ o.waiting \subseteq W
  /\ \A u \in W : u \in o.waiting \/ WaitsAt(u, n)
  /\ l.id = 0 => \A u \in Users : WaitsAt(u, n) => u \in W

LEMMA PutAwayStep ==
  ASSUME QueueInv, NEW n, NEW o, NEW l, NEW W, PutAway(n, o, l, W)
  PROVE  QueueInv'
<1> USE DEF PutAway
<1>1. /\ list' \in Seq(Messages) /\ Unique(list') /\ Numbered'
  BY DEF QueueInv, QueueTypes, Numbered
<1>2. l.left \cap gone = {}
  BY DEF Placed
<1>3. TopChange(n, o, l, W)
  BY <1>1, <1>2 DEF TopChange, Stays
<1> QED BY <1>3, TopStep

LEMMA FinishStep ==
  ASSUME QueueInv, Mq!Finish
  PROVE  QueueInv'
<1>1. /\ Mq!Alive /\ Mq!Here.at = "call" /\ Mq!Here.left = {}
      /\ levels' = [levels EXCEPT ![Mq!Depth].at = "top", ![Mq!Depth].waiting = {}]
      /\ Mq!Wake(Mq!Here.waiting)
      /\ UNCHANGED <<mq_clock, lastSeq, list, installed, breakflag, gone>>
  BY DEF Mq!Finish
<1>2. PICK n \in Nat, o \in RunLoops :
        /\ n = Len(levels) /\ n # 0 /\ n = Mq!Depth /\ n \in DOMAIN levels /\ o = levels[n] /\ Placed(o)
        /\ o = Mq!Here
  BY <1>1, Innermost
<1>3. PICK l \in RunLoops : l = [o EXCEPT !.at = "top", !.waiting = {}]
  BY DEF RunLoops
<1>4. /\ l.id = o.id /\ l.at = "top" /\ l.type = o.type /\ l.running = o.running /\ l.waiting = {}
      /\ l.left = o.left
  BY <1>3 DEF RunLoops
<1>5. levels' = [levels EXCEPT ![n] = l]
  <2>1. PICK q \in Seq(RunLoops) : q = levels
    BY DEF QueueInv, QueueTypes
  <2> QED BY <1>1, <1>2, <1>3, <2>1
<1>6. Placed(l)
  BY <1>1, <1>2, <1>4 DEF Placed
<1>7. l.id = 0 => \A u \in Users : ~WaitsAt(u, n)
  BY <1>2, <1>4 DEF QueueInv, Noted, WaitsAt
<1>8. PICK W : W = o.waiting
  OBVIOUS
<1>9. Mq!Wake(W)
  BY <1>1, <1>2, <1>8
<1>10. PutAway(n, o, l, W)
  BY <1>1, <1>2, <1>4, <1>5, <1>6, <1>7, <1>8, <1>9 DEF PutAway
<1> QED BY <1>10, PutAwayStep

LEMMA RestStep ==
  ASSUME QueueInv, Mq!Rest
  PROVE  QueueInv'
<1>1. /\ Mq!Alive /\ Mq!Here.at = "top"
      /\ levels' = [levels EXCEPT ![Mq!Depth] = [Mq!Fresh EXCEPT !.until = Mq!Here.until]]
      /\ Mq!Wake(Mq!AtLevel(Mq!Depth))
      /\ UNCHANGED <<mq_clock, lastSeq, list, installed, breakflag, gone>>
  BY DEF Mq!Rest
<1>2. PICK n \in Nat, o \in RunLoops :
        /\ n = Len(levels) /\ n # 0 /\ n = Mq!Depth /\ n \in DOMAIN levels /\ o = levels[n] /\ Placed(o)
        /\ o = Mq!Here
  BY <1>1, Innermost
<1>3. PICK l \in RunLoops : l = [Mq!Fresh EXCEPT !.until = o.until]
  BY DEF RunLoops, Mq!Fresh, Mq!Types
<1>4. l.id = 0 /\ l.at = "top" /\ l.running = {} /\ l.waiting = {} /\ l.left = {}
  BY <1>3 DEF Mq!Fresh
<1>5. Placed(l)
  BY <1>4 DEF Placed, QueueInv, QueueTypes
<1>6. PICK W : W = Mq!AtLevel(n)
  OBVIOUS
<1>7. levels' = [levels EXCEPT ![n] = l] /\ Mq!Wake(W)
  BY <1>1, <1>2, <1>3, <1>6
<1>8. o.waiting = {}
  BY <1>1, <1>2 DEF Placed
<1>9. (\A u \in W : WaitsAt(u, n)) /\ (\A u \in Users : WaitsAt(u, n) => u \in W)
  BY <1>6, AtTheLevel DEF WaitsAt
<1>10. PutAway(n, o, l, W)
  BY <1>1, <1>2, <1>4, <1>5, <1>7, <1>8, <1>9 DEF PutAway
<1> QED BY <1>10, PutAwayStep

(* What the loop runs: the message m, by the handlers that receive it.     *)
Called(o, m, R, w) ==
  [o EXCEPT !.at = "call", !.id = m.id, !.type = m.type, !.running = R, !.left = R, !.waiting = w]

LEMMA Calls ==
  ASSUME QueueInv, NEW m \in Members(list), NEW o \in RunLoops, NEW R \in SUBSET installed,
         NEW w \in SUBSET m.waiting, m.type = "period" => w = {}, NEW l, l = Called(o, m, R, w)
  PROVE  /\ l \in RunLoops /\ Placed(l) /\ l.at = "call" /\ l.id = m.id /\ l.id # 0
         /\ l.type = m.type /\ l.waiting = w /\ l.left = R
<1>1. PICK d \in Messages : d = m
  BY ById DEF QueueInv, QueueTypes
<1>2. d.id \in Nat /\ d.type \in Mq!Types /\ d.waiting \subseteq Users
  BY DEF Messages
<1>3. m.id \in 1..lastSeq /\ installed \subseteq Handlers /\ lastSeq \in Nat
  BY DEF QueueInv, QueueTypes, Numbered
<1>4. /\ l.at = "call" /\ l.id = m.id /\ l.type = m.type /\ l.waiting = w /\ l.left = R /\ l.running = R
      /\ l \in RunLoops
  BY <1>1, <1>2, <1>3 DEF RunLoops, Called
<1>5. Placed(l)
  BY <1>3, <1>4 DEF Placed
<1> QED BY <1>3, <1>4, <1>5

TakeFrom(i, R, w) ==
  /\ Mq!Alive /\ Mq!Here.at = "top"
  /\ levels' = [levels EXCEPT ![Mq!Depth] = Called(Mq!Here, list[i], R, w)]
  /\ Mq!Wake(Mq!AtLevel(Mq!Depth)) /\ UNCHANGED <<mq_clock, lastSeq, installed, breakflag, gone>>

LEMMA TakeOnceStep ==
  ASSUME QueueInv, NEW i \in DOMAIN list, list[i].type # "period", NEW R \in SUBSET installed,
         list' = Mq!RemoveAt(list, i), TakeFrom(i, R, list[i].waiting)
  PROVE  QueueInv'
<1>1. PICK n \in Nat, o \in RunLoops :
        /\ n = Len(levels) /\ n # 0 /\ n = Mq!Depth /\ n \in DOMAIN levels /\ o = levels[n] /\ Placed(o)
        /\ o = Mq!Here
  BY Innermost DEF TakeFrom
<1>2. PICK m \in Members(list) : m = list[i]
  BY DEF Members
<1>3. PICK w, l : w = m.waiting /\ l = Called(o, m, R, w)
  OBVIOUS
<1>4. /\ l \in RunLoops /\ Placed(l) /\ l.at = "call" /\ l.id = m.id /\ l.id # 0
      /\ l.type = m.type /\ l.waiting = m.waiting /\ l.left = R
  BY <1>2, <1>3, Calls
<1>5. list \in Seq(Messages) /\ Unique(list)
  BY DEF QueueInv, QueueTypes
<1>6. list' \in Seq(Messages) /\ Unique(list') /\ Members(list') = Members(list) \ {m}
  BY <1>2, <1>5, Removed
<1>7. Numbered'
  BY <1>6 DEF QueueInv, Numbered, TakeFrom
<1>8. PICK W : W = Mq!AtLevel(n)
  OBVIOUS
<1>9. Mq!Wake(W) /\ levels' = [levels EXCEPT ![n] = l]
  BY <1>1, <1>2, <1>3, <1>8 DEF TakeFrom
<1>10. (\A u \in W : WaitsAt(u, n)) /\ (\A u \in Users : WaitsAt(u, n) => u \in W)
  BY <1>8, AtTheLevel DEF WaitsAt
<1>11. \A x \in Members(list') : x.id # l.id
  BY <1>4, <1>5, <1>6, ById
<1>12. \A k \in DOMAIN levels \ {n} : Running(k) => levels[k].id # l.id
  BY <1>4 DEF QueueInv, InHand
<1>13. \A u \in l.waiting : user[u] = For(l.id) /\ u \notin W
  <2>1. \A u \in l.waiting : user[u] = For(l.id)
    BY <1>4 DEF QueueInv, Waiters
  <2> QED BY <1>10, <2>1, Standings DEF WaitsAt
<1>14. o.waiting = {} /\ l.left \cap gone = {}
  BY <1>1, <1>4 DEF Placed, QueueInv, Cancelled, TakeFrom
<1>15. (\A x \in Members(list') : Stays(x, list)) /\ (\A x \in Members(list) \ {m} : Stays(x, list'))
  BY <1>6 DEF Stays
<1>16. TopChange(n, o, l, W)
  BY <1>1, <1>4, <1>6, <1>7, <1>9, <1>10, <1>11, <1>12, <1>13, <1>14, <1>15 DEF TopChange, TakeFrom
<1> QED BY <1>16, TopStep

LEMMA TakePeriodStep ==
  ASSUME QueueInv, NEW i \in DOMAIN list, list[i].type = "period", NEW R \in SUBSET installed,
         list' = [list EXCEPT ![i].due = mq_clock + 1], TakeFrom(i, R, {})
  PROVE  QueueInv'
<1>1. PICK n \in Nat, o \in RunLoops :
        /\ n = Len(levels) /\ n # 0 /\ n = Mq!Depth /\ n \in DOMAIN levels /\ o = levels[n] /\ Placed(o)
        /\ o = Mq!Here
  BY Innermost DEF TakeFrom
<1>2. PICK m \in Members(list) : m = list[i]
  BY DEF Members
<1>3. PICK w : w = {}
  OBVIOUS
<1>4. PICK l : l = Called(o, m, R, w)
  OBVIOUS
<1>5. /\ l \in RunLoops /\ Placed(l) /\ l.at = "call" /\ l.id = m.id /\ l.id # 0
      /\ l.type = m.type /\ l.waiting = w /\ l.left = R
  BY <1>2, <1>3, <1>4, Calls
<1>6. list \in Seq(Messages) /\ Unique(list) /\ mq_clock \in Nat
  BY DEF QueueInv, QueueTypes
<1>7. PICK d \in Messages : d = m
  BY <1>6, ById
<1>8. PICK c \in Messages : c = [d EXCEPT !.due = mq_clock + 1]
  <2>1. PICK t \in Nat : t = mq_clock + 1
    BY <1>6
  <2> QED BY <2>1 DEF Messages
<1>9. c.id = d.id /\ c.type = d.type /\ c.due = mq_clock + 1 /\ c.waiting = d.waiting
  BY <1>8 DEF Messages
<1>10. list' = [list EXCEPT ![i] = c]
  <2>1. c = [list[i] EXCEPT !.due = mq_clock + 1]
    BY <1>2, <1>7, <1>8
  <2>2. list' = [list EXCEPT ![i] = [list[i] EXCEPT !.due = mq_clock + 1]]
    OBVIOUS
  <2> QED BY <2>1, <2>2
<1>11. list' \in Seq(Messages) /\ Unique(list') /\ Members(list') = (Members(list) \ {m}) \cup {c}
  <2>1. c.id = list[i].id
    BY <1>2, <1>7, <1>9
  <2>2. Changes(list, i, c, list')
    BY <1>6, <1>10, <2>1 DEF Changes
  <2>3. PICK q, r : q = list /\ r = list'
    OBVIOUS
  <2>4. Changes(q, i, c, r)
    BY <2>2, <2>3
  <2>5. r \in Seq(Messages) /\ Unique(r) /\ Members(r) = (Members(q) \ {q[i]}) \cup {c}
    BY <2>4, Changed
  <2> QED BY <1>2, <2>3, <2>5
<1>12. Numbered'
  <2>1. \A x \in Members(list) : x.id \in 1..lastSeq /\ x.due <= mq_clock + 1 /\ (x.type = "period" => x.waiting = {})
    BY DEF QueueInv, Numbered
  <2>2. c.id \in 1..lastSeq /\ c.due <= mq_clock + 1 /\ (c.type = "period" => c.waiting = {})
    BY <1>6, <1>7, <1>9, <2>1
  <2> QED BY <1>11, <2>1, <2>2 DEF Numbered, TakeFrom
<1>13. PICK W : W = Mq!AtLevel(n)
  OBVIOUS
<1>14. Mq!Wake(W) /\ levels' = [levels EXCEPT ![n] = l]
  BY <1>1, <1>2, <1>3, <1>4, <1>13 DEF TakeFrom
<1>15. (\A u \in W : WaitsAt(u, n)) /\ (\A u \in Users : WaitsAt(u, n) => u \in W)
  BY <1>13, AtTheLevel DEF WaitsAt
<1>16. o.waiting = {} /\ l.left \cap gone = {} /\ l.waiting = {} /\ l.type = "period"
  BY <1>1, <1>2, <1>3, <1>5 DEF Placed, QueueInv, Cancelled, TakeFrom
<1>17. (\A x \in Members(list') : Stays(x, list)) /\ (\A x \in Members(list) : Stays(x, list'))
  BY <1>7, <1>9, <1>11 DEF Stays
<1>18. TopChange(n, o, l, W)
  BY <1>1, <1>5, <1>11, <1>12, <1>14, <1>15, <1>16, <1>17 DEF TopChange, TakeFrom
<1> QED BY <1>18, TopStep

LEMMA TakeStep ==
  ASSUME QueueInv, Mq!Take
  PROVE  QueueInv'
<1>1. PICK i : i = Mq!First(Mq!Due)
  OBVIOUS
<1>2. PICK R : R = Mq!Receivers(list[i])
  OBVIOUS
<1>3. /\ Mq!Alive /\ Mq!Here.at = "top" /\ Mq!Due # {}
      /\ list' = IF list[i].type = "period" THEN [list EXCEPT ![i].due = mq_clock + 1]
                                            ELSE Mq!RemoveAt(list, i)
      /\ levels' = [levels EXCEPT ![Mq!Depth] =
           [Mq!Here EXCEPT !.at = "call", !.id = list[i].id, !.type = list[i].type,
              !.running = R, !.left = R,
              !.waiting = IF list[i].type = "period" THEN {} ELSE list[i].waiting]]
      /\ Mq!Wake(Mq!AtLevel(Mq!Depth)) /\ UNCHANGED <<mq_clock, lastSeq, installed, breakflag, gone>>
  BY <1>1, <1>2 DEF Mq!Take
<1>4. i \in DOMAIN list
  <2>1. PICK S : S = Mq!Due
    OBVIOUS
  <2>2. DOMAIN list \subseteq Nat
    BY DEF QueueInv, QueueTypes
  <2>3. S \in SUBSET Nat /\ S # {} /\ S \subseteq DOMAIN list
    BY <1>3, <2>1, <2>2 DEF Mq!Due
  <2>4. Mq!First(S) \in S
    BY <2>3, FirstIsLeast
  <2> QED BY <1>1, <2>1, <2>3, <2>4
<1>5. R \in SUBSET installed
  BY <1>2 DEF Mq!Receivers
<1>6. CASE list[i].type = "period"
  <2>1. TakeFrom(i, R, {}) /\ list' = [list EXCEPT ![i].due = mq_clock + 1]
    BY <1>3, <1>6 DEF TakeFrom, Called
  <2> QED BY <1>4, <1>5, <1>6, <2>1, TakePeriodStep
<1>7. CASE list[i].type # "period"
  <2>1. TakeFrom(i, R, list[i].waiting) /\ list' = Mq!RemoveAt(list, i)
    BY <1>3, <1>7 DEF TakeFrom, Called
  <2> QED BY <1>4, <1>5, <1>7, <2>1, TakeOnceStep
<1> QED BY <1>6, <1>7

(* A nested loop begins; nobody waits for it.                              *)
LEMMA WaitInsideStep ==
  ASSUME QueueInv, NEW id \in Mq!Ids, Mq!WaitInside(id)
  PROVE  QueueInv'
<1> USE DEF QueueInv
<1>1. /\ Mq!Depth < MaxDepth /\ levels' = Append(levels, [Mq!Fresh EXCEPT !.until = id])
      /\ UNCHANGED <<mq_clock, lastSeq, list, installed, breakflag, user, gone>>
  BY DEF Mq!WaitInside
<1>2. PICK l \in RunLoops : l = [Mq!Fresh EXCEPT !.until = id]
  <2>1. PICK k \in Nat : k = id
    BY QueuesAssumption DEF Mq!Ids
  <2> QED BY <2>1 DEF RunLoops, Mq!Fresh, Mq!Types
<1>3. /\ l.id = 0 /\ l.at = "top" /\ l.running = {} /\ l.waiting = {} /\ l.left = {}
      /\ l.type = "immediately"
  BY <1>2 DEF Mq!Fresh
<1>4. PICK q \in Seq(RunLoops) : q = levels
  BY DEF QueueTypes
<1>5. PICK n \in Nat : n = Len(q) + 1
  OBVIOUS
<1>6. PICK r : r = Append(q, l)
  OBVIOUS
<1>7. /\ r \in Seq(RunLoops) /\ Len(r) = n /\ DOMAIN q = 1..n - 1 /\ DOMAIN r = 1..n /\ r[n] = l
      /\ \A k \in 1..n - 1 : r[k] = q[k]
  BY <1>5, <1>6
<1>8. levels' = r
  BY <1>1, <1>2, <1>4, <1>6
<1>9. DOMAIN r = DOMAIN q \cup {n}
  BY <1>5, <1>7
<1>10. QueueTypes'
  <2>1. Len(r) <= MaxDepth
    BY <1>1, <1>4, <1>5, <1>7, QueuesAssumption DEF Mq!Depth
  <2> QED BY <1>1, <1>7, <1>8, <2>1 DEF QueueTypes
<1>11. LoopInv'
  <2>1. \A k \in DOMAIN q : Placed(q[k])
    BY <1>4 DEF LoopInv
  <2>2. Placed(l)
    BY <1>3 DEF Placed, QueueTypes
  <2>3. \A k \in DOMAIN r : Placed(r[k])
    BY <1>7, <1>9, <2>1, <2>2
  <2> QED BY <1>1, <1>8, <2>3 DEF LoopInv, Placed
<1>12. /\ \A k \in DOMAIN r : (k \in DOMAIN q /\ r[k] = q[k]) \/ (k = n /\ r[k] = l)
       /\ \A k \in DOMAIN q : k \in DOMAIN r /\ r[k] = q[k]
  BY <1>7, <1>9
<1>13. \A k \in DOMAIN r : r[k].at = "call" => k \in DOMAIN q /\ r[k] = q[k]
  BY <1>3, <1>12
<1>14. InHand'
  <2>1. \A k \in DOMAIN r : Running(k)' => k \in DOMAIN levels /\ Running(k) /\ levels'[k] = levels[k]
    BY <1>4, <1>8, <1>13 DEF Running
  <2> QED BY <1>1, <1>8, <2>1 DEF InHand
<1>15. Waiters' /\ Numbered'
  <2>1. \A k \in DOMAIN r : \A u \in r[k].waiting : user[u] = For(r[k].id)
    BY <1>3, <1>4, <1>12 DEF Waiters
  <2>2. Waiters'
    BY <1>1, <1>8, <2>1 DEF Waiters
  <2>3. Numbered'
    BY <1>1 DEF Numbered
  <2> QED BY <2>2, <2>3
<1>16. Noted'
  <2>1. ASSUME NEW u \in Users, user[u].at = "message"
        PROVE  \/ \E m \in Members(list) : m.id = user[u].on /\ u \in m.waiting
               \/ \E k \in DOMAIN r : r[k].id = user[u].on /\ u \in r[k].waiting
    BY <1>4, <1>12, <2>1 DEF Noted
  <2>2. ASSUME NEW u \in Users, user[u].at = "level"
        PROVE  user[u].on \in DOMAIN r /\ r[user[u].on].id # 0
    BY <1>4, <1>12, <2>2 DEF Noted
  <2> QED BY <1>1, <1>8, <2>1, <2>2 DEF Noted
<1>17. Cancelled'
  <2>1. ASSUME NEW u \in Users, user[u].at \in {"cancel", "wait"} PROVE user[u].on \notin installed
    BY <2>1 DEF Cancelled
  <2>2. ASSUME NEW h, NEW u, Outlives(u, h) PROVE Outlives(u, h)'
    <3>1. \A k \in DOMAIN q : h \in q[k].running => k >= user[u].on
      BY <1>4, <2>2 DEF Outlives
    <3>2. \A k \in DOMAIN r : h \in r[k].running => k \in DOMAIN q /\ r[k] = q[k]
      BY <1>3, <1>12
    <3> QED BY <1>1, <1>8, <2>2, <3>1, <3>2 DEF Outlives
  <2>3. ASSUME NEW h, \A k \in DOMAIN q : h \notin q[k].left PROVE \A k \in DOMAIN r : h \notin r[k].left
    BY <1>3, <1>12, <2>3
  <2> QED BY <1>1, <1>4, <1>8, <2>1, <2>2, <2>3 DEF Cancelled
<1> QED BY <1>1, <1>10, <1>11, <1>14, <1>15, <1>16, <1>17

(* A nested loop ends.                                                     *)
LEMMA LeaveInnerStep ==
  ASSUME QueueInv, NEW n \in Nat, n = Len(levels), n > 1, levels[n].at = "top",
         levels' = Mq!Front(levels), Mq!Wake(Mq!AtLevel(n)),
         UNCHANGED <<mq_clock, lastSeq, list, installed, breakflag, gone>>
  PROVE  QueueInv'
<1> USE DEF QueueInv
<1>1. PICK q \in Seq(RunLoops) : q = levels
  BY DEF QueueTypes
<1>2. PICK r : r = SubSeq(q, 1, n - 1)
  OBVIOUS
<1>3. r \in Seq(RunLoops) /\ DOMAIN r = 1..n - 1 /\ Len(r) = n - 1 /\ (\A k \in 1..n - 1 : r[k] = q[k])
  BY <1>1, <1>2
<1>4. DOMAIN q = 1..n
  BY <1>1
<1>5. levels' = r
  BY <1>1, <1>2 DEF Mq!Front
<1>6. \A k \in DOMAIN r : k \in DOMAIN q /\ r[k] = q[k]
  BY <1>3, <1>4
<1>7. \A k \in DOMAIN q : k # n => k \in DOMAIN r /\ r[k] = q[k]
  BY <1>3, <1>4
<1>8. PICK W : W = Mq!AtLevel(n)
  OBVIOUS
<1>9. /\ user' \in [Users -> Standing]
      /\ \A u \in Users : (u \in W => user'[u] = Mq!Idle) /\ (u \notin W => user'[u] = user[u])
  BY <1>8, Woken
<1>10. \A u : u \in W <=> u \in Users /\ user[u].at = "level" /\ user[u].on = n
  BY <1>8, AtTheLevel
<1>11. QueueTypes'
  <2>1. Len(r) <= MaxDepth
    <3>1. n <= MaxDepth
      BY DEF QueueTypes
    <3> QED BY <1>3, <3>1, QueuesAssumption
  <2> QED BY <1>3, <1>5, <1>9, <2>1 DEF QueueTypes
<1>12. LoopInv'
  <2>1. \A k \in DOMAIN r : Placed(r[k])
    BY <1>1, <1>6 DEF LoopInv
  <2> QED BY <1>5, <2>1 DEF LoopInv, Placed
<1>13. InHand'
  BY <1>1, <1>5, <1>6 DEF InHand, Running
<1>14. \A u \in Users : user[u].at = "message" => user'[u] = user[u]
  BY <1>9, <1>10
<1>15. \A u \in Users : user'[u].at # "idle" => u \notin W /\ user'[u] = user[u]
  BY <1>9, Standings
<1>16. Waiters'
  <2>1. ASSUME NEW m \in Members(list), NEW u \in m.waiting PROVE user'[u] = For(m.id)
    <3>1. m \in Messages
      BY ById DEF QueueTypes
    <3>2. user[u] = For(m.id) /\ u \in Users
      BY <3>1 DEF Waiters, Messages
    <3> QED BY <1>14, <3>2, Standings
  <2>2. ASSUME NEW k \in DOMAIN levels, NEW u \in levels[k].waiting PROVE user'[u] = For(levels[k].id)
    <3>1. user[u] = For(levels[k].id)
      BY DEF Waiters
    <3>2. u \in Users /\ user[u].at = "message"
      BY NotedOnce
    <3> QED BY <1>14, <3>1, <3>2
  <2>3. \A k \in DOMAIN r : \A u \in r[k].waiting : user'[u] = For(r[k].id)
    BY <1>1, <1>6, <2>2
  <2> QED BY <1>5, <2>1, <2>3 DEF Waiters
<1>17. Numbered'
  BY DEF Numbered
<1>18. levels[n].waiting = {} /\ levels[n].left = {}
  BY <1>1, <1>4 DEF LoopInv, Placed
<1>19. Noted'
  <2>1. ASSUME NEW u \in Users, user'[u].at = "message"
        PROVE  \/ \E m \in Members(list) : m.id = user'[u].on /\ u \in m.waiting
               \/ \E k \in DOMAIN r : r[k].id = user'[u].on /\ u \in r[k].waiting
    <3>1. user'[u] = user[u]
      BY <1>15, <2>1
    <3>2. CASE \E m \in Members(list) : m.id = user[u].on /\ u \in m.waiting
      BY <3>1, <3>2
    <3>3. CASE \E k \in DOMAIN levels : levels[k].id = user[u].on /\ u \in levels[k].waiting
      <4>1. PICK k \in DOMAIN q : q[k].id = user[u].on /\ u \in q[k].waiting
        BY <1>1, <3>3
      <4>2. k # n
        BY <1>1, <1>18, <4>1
      <4> QED BY <1>7, <3>1, <4>1, <4>2
    <3> QED BY <2>1, <3>1, <3>2, <3>3 DEF Noted
  <2>2. ASSUME NEW u \in Users, user'[u].at = "level"
        PROVE  user'[u].on \in DOMAIN r /\ r[user'[u].on].id # 0
    <3>1. user'[u] = user[u] /\ u \notin W
      BY <1>15, <2>2
    <3>2. user[u].on \in DOMAIN q /\ q[user[u].on].id # 0 /\ user[u].on # n
      BY <1>1, <1>10, <2>2, <3>1 DEF Noted
    <3> QED BY <1>7, <3>1, <3>2
  <2> QED BY <1>5, <2>1, <2>2 DEF Noted
<1>20. Cancelled'
  <2>1. ASSUME NEW u \in Users, user'[u].at \in {"cancel", "wait"} PROVE user'[u].on \notin installed
    BY <1>15, <2>1 DEF Cancelled
  <2>2. ASSUME NEW h, NEW u \in Users, Outlives(u, h), u \notin W PROVE Outlives(u, h)'
    <3>1. \A k \in DOMAIN q : h \in q[k].running => k >= user[u].on
      BY <1>1, <2>2 DEF Outlives
    <3>2. user'[u] = user[u]
      BY <1>9, <2>2
    <3> QED BY <1>5, <1>6, <2>2, <3>1, <3>2 DEF Outlives
  <2>3. ASSUME NEW h, NEW u \in Users, Outlives(u, h), u \in W PROVE \A k \in DOMAIN r : h \notin r[k].left
    <3>1. ASSUME NEW k \in DOMAIN r PROVE h \notin r[k].left
      <4>1. k \in DOMAIN q /\ r[k] = q[k] /\ ~(k >= n)
        BY <1>3, <1>6
      <4>2. h \notin q[k].running
        BY <1>1, <1>10, <2>3, <4>1 DEF Outlives
      <4> QED BY <1>1, <4>1, <4>2 DEF LoopInv, Placed
    <3> QED BY <3>1
  <2>4. ASSUME NEW h, \A k \in DOMAIN q : h \notin q[k].left PROVE \A k \in DOMAIN r : h \notin r[k].left
    BY <1>6, <2>4
  <2> QED BY <1>1, <1>5, <2>1, <2>2, <2>3, <2>4 DEF Cancelled
<1> QED BY <1>11, <1>12, <1>13, <1>16, <1>17, <1>19, <1>20

(* The end of the outermost loop.                                          *)
LEMMA LeaveLastStep ==
  ASSUME QueueInv, Len(levels) = 1, levels[1].at = "top",
         levels' = Mq!Front(levels), list' = <<>>, installed' = {},
         Mq!Wake(Mq!AtLevel(1) \cup UNION {list[i].waiting : i \in DOMAIN list}),
         UNCHANGED <<mq_clock, lastSeq, breakflag, gone>>
  PROVE  QueueInv'
<1> USE DEF QueueInv
<1>1. levels' = <<>> /\ DOMAIN levels = {1} /\ DOMAIN levels' = {} /\ Len(levels') = 0 /\ levels' \in Seq(RunLoops)
  <2>1. PICK q \in Seq(RunLoops) : q = levels
    BY DEF QueueTypes
  <2>2. SubSeq(q, 1, Len(q) - 1) = <<>> /\ DOMAIN q = {1}
    <3>0. DOMAIN q = 1..Len(q)
      OBVIOUS
    <3>1. Len(q) = 1
      BY <2>1, Zenon
    <3>2. Len(q) - 1 = 0 /\ DOMAIN q = {1}
      BY <3>0, <3>1
    <3>3. SubSeq(q, 1, 0) = <<>>
      <4>1. 1 \in Int /\ 0 \in Int /\ \A k \in 1..0 : q[k] \in RunLoops
        OBVIOUS
      <4>2. SubSeq(q, 1, 0) \in Seq(RunLoops) /\ Len(SubSeq(q, 1, 0)) = IF 1 <= 0 THEN 0 - 1 + 1 ELSE 0
        BY <4>1, SubSeqProperties
      <4>3. Len(SubSeq(q, 1, 0)) = 0
        BY <4>2
      <4> QED BY <4>2, <4>3, EmptySeq
    <3> QED BY <3>2, <3>3
  <2>3. levels' = <<>> /\ DOMAIN levels = {1}
    BY <2>1, <2>2 DEF Mq!Front
  <2> QED BY <2>3
<1>2. list' \in Seq(Messages) /\ Members(list') = {} /\ Unique(list')
  BY DEF Members, Unique
<1>3. PICK W : W = Mq!AtLevel(1) \cup UNION {list[i].waiting : i \in DOMAIN list}
  OBVIOUS
<1>4. /\ user' \in [Users -> Standing]
      /\ \A u \in Users : (u \in W => user'[u] = Mq!Idle) /\ (u \notin W => user'[u] = user[u])
  BY <1>3, Woken
<1>5. \A u \in Users : user[u].at \in {"message", "level"} => u \in W
  <2>1. ASSUME NEW u \in Users, user[u].at = "level" PROVE u \in W
    <3>1. user[u].on = 1
      BY <1>1, <2>1 DEF Noted
    <3> QED BY <1>3, <2>1, <3>1, AtTheLevel
  <2>2. ASSUME NEW u \in Users, user[u].at = "message" PROVE u \in W
    <3>1. levels[1].waiting = {}
      BY <1>1 DEF LoopInv, Placed
    <3>2. PICK m \in Members(list) : u \in m.waiting
      BY <1>1, <2>2, <3>1 DEF Noted
    <3> QED BY <1>3, <3>2 DEF Members
  <2> QED BY <2>1, <2>2
<1>6. \A u \in Users : user'[u].at \notin {"message", "level"}
  BY <1>4, <1>5, Standings
<1>7. QueueTypes'
  <2>1. 0 <= MaxDepth
    BY QueuesAssumption
  <2> QED BY <1>1, <1>2, <1>4, <2>1 DEF QueueTypes
<1>8. Numbered' /\ LoopInv' /\ InHand' /\ Waiters' /\ Noted' /\ Cancelled'
  BY <1>1, <1>2, <1>6 DEF Numbered, LoopInv, InHand, Waiters, Noted, Cancelled
<1> QED BY <1>2, <1>7, <1>8

LEMMA LeaveStep ==
  ASSUME QueueInv, Mq!Leave
  PROVE  QueueInv'
<1>1. /\ Mq!Alive /\ Mq!Here.at = "top" /\ levels' = Mq!Front(levels)
      /\ IF Mq!Depth > 1
         THEN Mq!Wake(Mq!AtLevel(Mq!Depth)) /\ UNCHANGED <<list, installed>>
         ELSE /\ list' = <<>> /\ installed' = {}
              /\ Mq!Wake(Mq!AtLevel(1) \cup UNION {list[i].waiting : i \in DOMAIN list})
      /\ UNCHANGED <<mq_clock, lastSeq, breakflag, gone>>
  BY DEF Mq!Leave
<1>2. PICK n \in Nat, o \in RunLoops :
        /\ n = Len(levels) /\ n # 0 /\ n = Mq!Depth /\ n \in DOMAIN levels /\ o = levels[n] /\ Placed(o)
        /\ o = Mq!Here
  BY <1>1, Innermost
<1>3. CASE n > 1
  BY <1>1, <1>2, <1>3, LeaveInnerStep
<1>4. CASE ~(n > 1)
  <2>1. n = 1 /\ Mq!Depth = 1
    BY <1>2, <1>4
  <2>2. /\ list' = <<>> /\ installed' = {}
        /\ Mq!Wake(Mq!AtLevel(1) \cup UNION {list[i].waiting : i \in DOMAIN list})
    BY <1>1, <2>1
  <2>3. Len(levels) = 1 /\ levels[1].at = "top"
    BY <1>1, <1>2, <2>1
  <2> QED BY <1>1, <2>2, <2>3, LeaveLastStep
<1> QED BY <1>3, <1>4
-----------------------------------------------------------------------------
(* The queue                                                               *)

LEMMA QuietStep ==
  ASSUME QueueInv, mq_clock' \in 0..MaxClock, mq_clock <= mq_clock', breakflag' \in BOOLEAN,
         UNCHANGED <<lastSeq, list, installed, levels, user, gone>>
  PROVE  QueueInv'
<1> USE DEF QueueInv
<1>1. QueueTypes'
  BY DEF QueueTypes
<1>2. Numbered'
  <2> SUFFICES ASSUME NEW m \in Members(list)
               PROVE m.id \in 1..lastSeq /\ m.due <= mq_clock' + 1 /\ (m.type = "period" => m.waiting = {})
    BY DEF Numbered
  <2>1. m.id \in 1..lastSeq /\ m.due <= mq_clock + 1 /\ (m.type = "period" => m.waiting = {})
    BY DEF Numbered
  <2>2. m \in Messages
    BY ById DEF QueueTypes
  <2>3. m.due \in Nat /\ mq_clock \in Int /\ mq_clock' \in Int
    BY <2>2 DEF Messages, QueueTypes
  <2> QED BY <2>1, <2>3
<1>3. LoopInv' /\ InHand' /\ Waiters' /\ Noted' /\ Cancelled'
  BY DEF LoopInv, Placed, InHand, Running, Waiters, Noted, Cancelled, Outlives
<1> QED BY <1>1, <1>2, <1>3

LEMMA FirstSame ==
  ASSUME QueueInv, NEW to, Mq!Same(to) # {}
  PROVE  Mq!First(Mq!Same(to)) \in DOMAIN list /\ list[Mq!First(Mq!Same(to))].to = to
<1>1. PICK S : S = Mq!Same(to)
  OBVIOUS
<1>2. DOMAIN list \subseteq Nat
  BY DEF QueueInv, QueueTypes
<1>3. S \in SUBSET Nat /\ \A i \in S : i \in DOMAIN list /\ list[i].to = to
  BY <1>1, <1>2 DEF Mq!Same
<1>4. Mq!First(S) \in S
  BY <1>1, <1>3, FirstIsLeast
<1> QED BY <1>1, <1>3, <1>4

LEMMA AnyoneStep ==
  ASSUME QueueInv, Mq!Anyone
  PROVE  QueueInv'
<1>1. ASSUME NEW to \in Handlers \cup {Mq!Broadcast}, NEW type \in Mq!Types, Mq!PostMessage(to, type)
      PROVE  QueueInv'
  BY <1>1, PostStep
<1>2. ASSUME NEW to \in Handlers, NEW type \in {"immediately", "after"},
             Mq!SingletonMessage(to, type) \/ Mq!FasterMessage(to, type)
      PROVE  QueueInv'
  <2>1. Mq!Same(to) # {} /\ Mq!Replace(Mq!First(Mq!Same(to)), type)
    BY <1>2 DEF Mq!SingletonMessage, Mq!FasterMessage
  <2>2. type \in Mq!Types
    BY DEF Mq!Types
  <2>3. PICK i \in DOMAIN list : i = Mq!First(Mq!Same(to))
    BY <2>1, FirstSame
  <2> QED BY <2>1, <2>2, <2>3, ReplaceStep
<1>3. ASSUME NEW id \in Mq!Ids, Mq!CancelMessage(id)  PROVE QueueInv'
  <2>1. PICK ids : ids = {id}
    OBVIOUS
  <2>2. Mq!Delete(ids)
    BY <1>3, <2>1 DEF Mq!CancelMessage
  <2> QED BY <2>2, DeleteStep
<1>4. ASSUME NEW id \in Mq!Ids, Mq!WaitInside(id)  PROVE QueueInv'
  BY <1>4, WaitInsideStep
<1>5. ASSUME NEW h \in Handlers, Mq!CancelMessagesOf(h)  PROVE QueueInv'
  <2>1. PICK ids : ids = {list[i].id : i \in Mq!Same(h)}
    OBVIOUS
  <2>2. Mq!Delete(ids)
    BY <1>5, <2>1 DEF Mq!CancelMessagesOf
  <2> QED BY <2>2, DeleteStep
<1>6. ASSUME Mq!BreakMessageQueueRunloop  PROVE QueueInv'
  <2>1. breakflag' = TRUE /\ UNCHANGED <<mq_clock, lastSeq, list, installed, levels, user, gone>>
    BY <1>6 DEF Mq!BreakMessageQueueRunloop
  <2>2. mq_clock' \in 0..MaxClock /\ mq_clock <= mq_clock' /\ breakflag' \in BOOLEAN
    BY <2>1, QueuesAssumption DEF QueueInv, QueueTypes
  <2> QED BY <2>1, <2>2, QuietStep
<1> QED BY <1>1, <1>2, <1>3, <1>4, <1>5, <1>6 DEF Mq!Anyone

LEMMA QueueNext == QueueInv /\ [Mq!Next]_(Mq!queueVars) => QueueInv'
<1> SUFFICES ASSUME QueueInv, [Mq!Next]_(Mq!queueVars)  PROVE QueueInv'
  OBVIOUS
<1>1. CASE Mq!Tick
  <2>1. mq_clock < MaxClock /\ mq_clock' = mq_clock + 1 /\ UNCHANGED <<lastSeq, list, installed, levels, breakflag, user, gone>>
    BY <1>1 DEF Mq!Tick
  <2>2. mq_clock \in 0..MaxClock /\ breakflag' \in BOOLEAN
    BY <2>1 DEF QueueInv, QueueTypes
  <2>3. mq_clock' \in 0..MaxClock /\ mq_clock <= mq_clock'
    BY <2>1, <2>2, QueuesAssumption
  <2> QED BY <2>1, <2>2, <2>3, QuietStep
<1>2. CASE Mq!Anyone
  BY <1>2, AnyoneStep
<1>3. CASE Mq!Loop
  BY <1>3, LeaveStep, RestStep, TakeStep, FinishStep, HandlerReturnsStep DEF Mq!Loop
<1>4. ASSUME NEW u \in Users, Mq!Waiter(u)  PROVE QueueInv'
  BY <1>4, CancelAllStep, WaitRunningStep DEF Mq!Waiter
<1>5. ASSUME NEW u \in Users, NEW h \in Handlers, Mq!UnInstall(u, h)  PROVE QueueInv'
  BY <1>5, UnInstallStep
<1>6. ASSUME NEW u \in Users, NEW id \in Mq!Ids, Mq!WaitMessage(u, id)  PROVE QueueInv'
  BY <1>6, WaitMessageStep
<1>7. CASE UNCHANGED Mq!queueVars
  <2>1. UNCHANGED <<mq_clock, lastSeq, list, installed, levels, breakflag, user, gone>>
    BY <1>7 DEF Mq!queueVars
  <2>2. mq_clock' \in 0..MaxClock /\ mq_clock <= mq_clock' /\ breakflag' \in BOOLEAN
    BY <2>1, QueuesAssumption DEF QueueInv, QueueTypes
  <2> QED BY <2>1, <2>2, QuietStep
<1> QED BY <1>1, <1>2, <1>3, <1>4, <1>5, <1>6, <1>7 DEF Mq!Next

LEMMA QueueInit == Mq!Init => QueueInv
<1> SUFFICES ASSUME Mq!Init  PROVE QueueInv
  OBVIOUS
<1>1. /\ mq_clock = 0 /\ lastSeq = 0 /\ list = <<>> /\ installed = Handlers /\ levels = <<Mq!Fresh>>
      /\ breakflag = FALSE /\ user = [u \in Users |-> Mq!Idle] /\ gone = {}
  BY DEF Mq!Init
<1>2. PICK l \in RunLoops : l = Mq!Fresh
  BY DEF RunLoops, Mq!Fresh, Mq!Types
<1>3. l.at = "top" /\ l.id = 0 /\ l.left = {} /\ l.running = {} /\ l.waiting = {} /\ l.type = "immediately"
  BY <1>2 DEF Mq!Fresh
<1>4. levels \in Seq(RunLoops) /\ Len(levels) = 1 /\ DOMAIN levels = {1} /\ levels[1] = l
  BY <1>1, <1>2
<1>5. list \in Seq(Messages) /\ DOMAIN list = {} /\ Members(list) = {}
  BY <1>1 DEF Members
<1>6. \A u \in Users : user[u].at = "idle"
  BY <1>1, Standings
<1>7. QueueTypes
  <2>1. user \in [Users -> Standing]
    BY <1>1, Standings
  <2>2. 1 <= MaxDepth /\ 0 \in 0..MaxClock /\ 0 \in 0..MaxPosts
    BY QueuesAssumption
  <2> QED BY <1>1, <1>4, <1>5, <2>1, <2>2 DEF QueueTypes
<1>8. Unique(list) /\ Numbered
  BY <1>5 DEF Unique, Numbered
<1>9. LoopInv /\ InHand
  BY <1>1, <1>3, <1>4, <1>5 DEF LoopInv, Placed, InHand, Running
<1>10. Waiters /\ Noted /\ Cancelled
  BY <1>1, <1>3, <1>4, <1>5, <1>6 DEF Waiters, Noted, Cancelled
<1> QED BY <1>7, <1>8, <1>9, <1>10 DEF QueueInv

LEMMA AtMostOne ==
  ASSUME NEW S, \A x, y \in S : x = y
  PROVE  Mq!Cardinality(S) \in {0, 1} /\ (S = {} => Mq!Cardinality(S) = 0)
<1>1. Mq!Cardinality(S) = Cardinality(S)
  BY DEF Mq!Cardinality, Cardinality
<1>2. CASE S = {}
  BY <1>1, <1>2, FS_EmptySet
<1>3. CASE S # {}
  <2>1. PICK x : S = {x}
    BY <1>3
  <2> QED BY <1>1, <1>3, <2>1, FS_Singleton
<1> QED BY <1>2, <1>3

(* What the invariant says, in the words of the properties.                *)
LEMMA QueueMeans == QueueInv => Mq!TypeOK /\ QueueSafe
<1> SUFFICES ASSUME QueueInv  PROVE Mq!TypeOK /\ QueueSafe
  OBVIOUS
<1> USE DEF QueueInv
<1>1. \A i \in DOMAIN list : list[i] \in Members(list)
  BY DEF Members
<1>2. Mq!TypeOK
  <2>1. \A i \in DOMAIN list : list[i].id \in 1..lastSeq /\ list[i].due <= mq_clock + 1
    BY <1>1 DEF Numbered
  <2> QED BY <2>1 DEF QueueTypes, Mq!TypeOK, Mq!Depth
<1>3. Mq!OnePlace
  <2> SUFFICES ASSUME NEW id \in Mq!Ids, NEW P, NEW R,
                      P = {i \in DOMAIN list : list[i].id = id},
                      R = {n \in Mq!LevelsOf(id) : levels[n].at = "call" /\ levels[n].type # "period"}
               PROVE  Mq!Cardinality(P) + Mq!Cardinality(R) <= 1
    BY DEF Mq!OnePlace
  <2>1. \A x, y \in P : x = y
    BY DEF Unique
  <2>2. \A n \in R : n \in DOMAIN levels /\ Running(n) /\ levels[n].id = id
    BY DEF Mq!LevelsOf, Running
  <2>3. \A x, y \in R : x = y
    BY <2>2 DEF InHand
  <2>4. P = {} \/ R = {}
    BY <1>1, <2>2 DEF InHand
  <2>5. Mq!Cardinality(P) \in {0, 1} /\ (P = {} => Mq!Cardinality(P) = 0)
    BY <2>1, AtMostOne
  <2>6. Mq!Cardinality(R) \in {0, 1} /\ (R = {} => Mq!Cardinality(R) = 0)
    BY <2>3, AtMostOne
  <2> QED BY <2>4, <2>5, <2>6
<1>4. Mq!NoCallAfterWait
  BY DEF Cancelled, Outlives, Mq!NoCallAfterWait
<1>5. Mq!NoForgottenWaiter
  <2> SUFFICES ASSUME NEW u \in Users
               PROVE  /\ user[u].at = "message" =>
                           \/ \E i \in DOMAIN list : list[i].id = user[u].on /\ u \in list[i].waiting
                           \/ \E n \in DOMAIN levels : levels[n].id = user[u].on /\ u \in levels[n].waiting
                      /\ user[u].at = "level" => user[u].on \in DOMAIN levels /\ levels[user[u].on].id # 0
    BY DEF Mq!NoForgottenWaiter
  <2>1. ASSUME NEW m \in Members(list), m.id = user[u].on, u \in m.waiting
        PROVE  \E i \in DOMAIN list : list[i].id = user[u].on /\ u \in list[i].waiting
    BY <2>1 DEF Members
  <2> QED BY <2>1 DEF Noted
<1> QED BY <1>2, <1>3, <1>4, <1>5 DEF QueueSafe
-----------------------------------------------------------------------------
(* What a step never does                                                  *)

(* A wait that ends, ends after the run of its message.                    *)
Outlasts ==
  \A u \in Users : user[u].at = "message" /\ user'[u].at = "idle" =>
    \A n \in DOMAIN levels' : levels'[n].id = user[u].on => levels'[n].at = "top" \/ levels'[n].type = "period"

LEMMA ListedDoesNotRun ==
  ASSUME QueueInv, UNCHANGED levels,
         \A u \in Users : user[u].at = "message" /\ user'[u].at = "idle" => \E m \in Members(list) : u \in m.waiting
  PROVE  Outlasts
<1> SUFFICES ASSUME NEW u \in Users, user[u].at = "message", user'[u].at = "idle",
                    NEW n \in DOMAIN levels, levels[n].id = user[u].on
             PROVE  levels[n].at = "top" \/ levels[n].type = "period"
  BY DEF Outlasts
<1>1. PICK m \in Members(list) : u \in m.waiting
  OBVIOUS
<1>2. user[u] = For(m.id)
  BY <1>1 DEF QueueInv, Waiters
<1>3. m.id = levels[n].id
  BY <1>2, Standings
<1>4. ~Running(n)
  BY <1>3 DEF QueueInv, InHand
<1>5. levels[n].at \in {"top", "call"}
  BY LoopTypes DEF RunLoops
<1> QED BY <1>4, <1>5 DEF Running

LEMMA NobodyGoesOn ==
  ASSUME \A u \in Users : user[u].at = "message" => user'[u].at # "idle"
  PROVE  Outlasts
BY DEF Outlasts

LEMMA DeletingOutlasts ==
  ASSUME QueueInv, NEW i, i \in DOMAIN list, NEW type, Mq!Replace(i, type)
  PROVE  Outlasts
<1>1. PICK W : W = list[i].waiting
  OBVIOUS
<1>2. Mq!Wake(W) /\ UNCHANGED levels /\ list[i] \in Members(list)
  BY <1>1 DEF Mq!Replace, Members
<1>3. \A u \in Users : (u \in W => user'[u] = Mq!Idle) /\ (u \notin W => user'[u] = user[u])
  BY <1>2, Woken
<1>4. \A u \in Users : user[u].at = "message" /\ user'[u].at = "idle" => u \in list[i].waiting
  BY <1>1, <1>3
<1> QED BY <1>2, <1>4, ListedDoesNotRun

LEMMA CancellingOutlasts ==
  ASSUME QueueInv, NEW ids, Mq!Delete(ids)
  PROVE  Outlasts
<1>1. PICK W : W = UNION {list[i].waiting : i \in {j \in DOMAIN list : list[j].id \in ids}}
  OBVIOUS
<1>2. Mq!Wake(W) /\ UNCHANGED levels
  BY <1>1 DEF Mq!Delete
<1>3. \A u \in Users : (u \in W => user'[u] = Mq!Idle) /\ (u \notin W => user'[u] = user[u])
  BY <1>2, Woken
<1>4. \A u \in W : \E m \in Members(list) : u \in m.waiting
  BY <1>1 DEF Members
<1> QED BY <1>2, <1>3, <1>4, ListedDoesNotRun

LEMMA CancelAllOutlasts ==
  ASSUME QueueInv, NEW u \in Users, Mq!CancelAll(u)
  PROVE  Outlasts
<1>1. PICK W : W = UNION {list[i].waiting : i \in Mq!Same(user[u].on)}
  OBVIOUS
<1>2. /\ user[u].at = "cancel" /\ UNCHANGED levels
      /\ user' = [v \in Users |-> IF v = u THEN [at |-> "wait", on |-> user[u].on]
                                  ELSE IF v \in W THEN Mq!Idle ELSE user[v]]
  BY <1>1 DEF Mq!CancelAll
<1>3. \A v \in W : \E m \in Members(list) : v \in m.waiting
  BY <1>1 DEF Mq!Same, Members
<1>4. \A v \in Users : user[v].at = "message" /\ user'[v].at = "idle" => v \in W
  BY <1>2
<1> QED BY <1>2, <1>3, <1>4, ListedDoesNotRun

LEMMA FinishOutlasts ==
  ASSUME QueueInv, Mq!Finish
  PROVE  Outlasts
<1>1. /\ Mq!Alive /\ Mq!Here.at = "call"
      /\ levels' = [levels EXCEPT ![Mq!Depth].at = "top", ![Mq!Depth].waiting = {}]
      /\ Mq!Wake(Mq!Here.waiting)
  BY DEF Mq!Finish
<1>2. PICK n \in Nat, o \in RunLoops :
        n = Len(levels) /\ n = Mq!Depth /\ n \in DOMAIN levels /\ o = levels[n] /\ o = Mq!Here
  BY <1>1, Innermost
<1>3. /\ DOMAIN levels' = DOMAIN levels /\ levels'[n].at = "top"
      /\ \A k \in DOMAIN levels \ {n} : levels'[k] = levels[k]
  <2>1. PICK q \in Seq(RunLoops) : q = levels
    BY DEF QueueInv, QueueTypes
  <2>2. PICK l : l = [o EXCEPT !.at = "top", !.waiting = {}]
    OBVIOUS
  <2>3. l.at = "top"
    BY <2>2 DEF RunLoops
  <2>4. levels' = [q EXCEPT ![n] = l]
    BY <1>1, <1>2, <2>1, <2>2
  <2> QED BY <1>2, <2>1, <2>3, <2>4
<1>4. PICK W : W = o.waiting
  OBVIOUS
<1>5. \A u \in Users : (u \in W => user'[u] = Mq!Idle) /\ (u \notin W => user'[u] = user[u])
  BY <1>1, <1>2, <1>4, Woken
<1> SUFFICES ASSUME NEW u \in Users, user[u].at = "message", user'[u].at = "idle",
                    NEW k \in DOMAIN levels \ {n}, levels[k].id = user[u].on
             PROVE  levels[k].at = "top" \/ levels[k].type = "period"
  BY <1>3 DEF Outlasts
<1>6. u \in levels[n].waiting
  BY <1>2, <1>4, <1>5
<1>7. user[u] = For(levels[n].id)
  BY <1>2, <1>6 DEF QueueInv, Waiters
<1>8. levels[k].id = levels[n].id
  BY <1>7, Standings
<1>9. Running(n)
  <2>1. levels[n].type # "period"
    BY <1>2, <1>6 DEF QueueInv, LoopInv, Placed
  <2> QED BY <1>1, <1>2, <2>1 DEF Running
<1>10. ~Running(k)
  BY <1>2, <1>8, <1>9 DEF QueueInv, InHand
<1>11. levels[k].at \in {"top", "call"}
  BY LoopTypes DEF RunLoops
<1> QED BY <1>10, <1>11 DEF Running

LEMMA LevelsOutlast ==
  ASSUME QueueInv, NEW n, Mq!Wake(Mq!AtLevel(n))
  PROVE  Outlasts
<1>1. PICK W : W = Mq!AtLevel(n)
  OBVIOUS
<1>2. \A u \in Users : (u \in W => user'[u] = Mq!Idle) /\ (u \notin W => user'[u] = user[u])
  BY <1>1, Woken
<1>3. \A u \in W : user[u].at = "level"
  BY <1>1, AtTheLevel
<1> QED BY <1>2, <1>3, NobodyGoesOn

LEMMA LoopOutlasts ==
  ASSUME QueueInv, Mq!Loop
  PROVE  Outlasts
<1>1. CASE Mq!Leave
  <2>1. /\ Mq!Alive /\ levels' = Mq!Front(levels)
        /\ Mq!Depth > 1 => Mq!Wake(Mq!AtLevel(Mq!Depth))
    BY <1>1 DEF Mq!Leave
  <2>2. CASE Mq!Depth > 1
    BY <2>1, <2>2, LevelsOutlast
  <2>3. CASE ~(Mq!Depth > 1)
    <3>1. PICK q \in Seq(RunLoops) : q = levels
      BY DEF QueueInv, QueueTypes
    <3>2. Len(q) = 1
      <4>1. Mq!Depth \in Nat \ {0} /\ Mq!Depth = Len(levels)
        BY <2>1, Innermost
      <4>2. PICK n \in Nat : n = Mq!Depth
        BY <4>1
      <4> QED BY <2>3, <3>1, <4>1, <4>2
    <3>3. levels' = SubSeq(q, 1, Len(q) - 1)
      BY <2>1, <3>1 DEF Mq!Front
    <3>4. DOMAIN levels' = {}
      <4>1. DOMAIN SubSeq(q, 1, 0) = {}
        OBVIOUS
      <4> QED BY <3>2, <3>3, <4>1
    <3> QED BY <3>4 DEF Outlasts
  <2> QED BY <2>2, <2>3
<1>2. CASE Mq!Rest \/ Mq!Take
  <2>1. Mq!Wake(Mq!AtLevel(Mq!Depth))
    BY <1>2 DEF Mq!Rest, Mq!Take
  <2> QED BY <2>1, LevelsOutlast
<1>3. CASE Mq!Finish
  BY <1>3, FinishOutlasts
<1>4. CASE \E h \in Handlers : Mq!HandlerReturns(h)
  <2>1. UNCHANGED user
    BY <1>4 DEF Mq!HandlerReturns
  <2> QED BY <2>1, NobodyGoesOn
<1> QED BY <1>1, <1>2, <1>3, <1>4 DEF Mq!Loop

LEMMA NextOutlasts == QueueInv /\ [Mq!Next]_(Mq!queueVars) => Outlasts
<1> SUFFICES ASSUME QueueInv, [Mq!Next]_(Mq!queueVars)  PROVE Outlasts
  OBVIOUS
<1>0. UNCHANGED user => Outlasts
  BY NobodyGoesOn
<1>1. CASE Mq!Tick \/ UNCHANGED Mq!queueVars
  BY <1>0, <1>1 DEF Mq!Tick, Mq!queueVars
<1>2. CASE Mq!Anyone
  <2>1. ASSUME NEW to, NEW type, Mq!PostMessage(to, type) PROVE Outlasts
    BY <1>0, <2>1 DEF Mq!PostMessage
  <2>2. ASSUME NEW to, NEW type, Mq!SingletonMessage(to, type) \/ Mq!FasterMessage(to, type) PROVE Outlasts
    <3>1. Mq!Same(to) # {} /\ Mq!Replace(Mq!First(Mq!Same(to)), type)
      BY <2>2 DEF Mq!SingletonMessage, Mq!FasterMessage
    <3>2. PICK i \in DOMAIN list : i = Mq!First(Mq!Same(to))
      BY <3>1, FirstSame
    <3> QED BY <3>1, <3>2, DeletingOutlasts
  <2>3. ASSUME NEW id, Mq!CancelMessage(id) PROVE Outlasts
    <3>1. PICK ids : ids = {id}
      OBVIOUS
    <3>2. Mq!Delete(ids)
      BY <2>3, <3>1 DEF Mq!CancelMessage
    <3> QED BY <3>2, CancellingOutlasts
  <2>4. ASSUME NEW id, Mq!WaitInside(id) PROVE Outlasts
    BY <1>0, <2>4 DEF Mq!WaitInside
  <2>5. ASSUME NEW h, Mq!CancelMessagesOf(h) PROVE Outlasts
    <3>1. PICK ids : ids = {list[i].id : i \in Mq!Same(h)}
      OBVIOUS
    <3>2. Mq!Delete(ids)
      BY <2>5, <3>1 DEF Mq!CancelMessagesOf
    <3> QED BY <3>2, CancellingOutlasts
  <2>6. CASE Mq!BreakMessageQueueRunloop
    BY <1>0, <2>6 DEF Mq!BreakMessageQueueRunloop
  <2> QED BY <1>2, <2>1, <2>2, <2>3, <2>4, <2>5, <2>6 DEF Mq!Anyone
<1>3. CASE Mq!Loop
  BY <1>3, LoopOutlasts
<1>4. ASSUME NEW u \in Users, NEW s, user' = [user EXCEPT ![u] = s], user[u].at # "message" PROVE Outlasts
  <2>1. \A v \in Users : v # u => user'[v] = user[v]
    BY <1>4 DEF QueueInv, QueueTypes
  <2> QED BY <1>4, <2>1, NobodyGoesOn
<1>5. ASSUME NEW u \in Users, Mq!WaitRunning(u) PROVE Outlasts
  <2>1. PICK s : user' = [user EXCEPT ![u] = s]
    BY <1>5 DEF Mq!WaitRunning, Mq!Call
  <2>2. user[u].at = "wait"
    BY <1>5 DEF Mq!WaitRunning
  <2> QED BY <1>4, <2>1, <2>2
<1>6. ASSUME NEW u \in Users, NEW h, Mq!UnInstall(u, h) PROVE Outlasts
  <2>1. user[u] = Mq!Idle /\ user' = [user EXCEPT ![u] = [at |-> "cancel", on |-> h]]
    BY <1>6 DEF Mq!UnInstall, Mq!Call
  <2>2. user[u].at # "message"
    BY <2>1, Standings
  <2> QED BY <1>4, <2>1, <2>2
<1>7. ASSUME NEW u \in Users, NEW id, Mq!WaitMessage(u, id) PROVE Outlasts
  <2>1. PICK s : user' = [user EXCEPT ![u] = s]
    BY <1>7 DEF Mq!WaitMessage, Mq!Call
  <2>2. user[u].at # "message"
    BY <1>7, Standings DEF Mq!WaitMessage
  <2> QED BY <1>4, <2>1, <2>2
<1> QED BY <1>1, <1>2, <1>3, <1>5, <1>6, <1>7, CancelAllOutlasts DEF Mq!Next, Mq!Waiter

(* A message is put off only by SingletonMessage, and a periodic one when  *)
(* it is run.                                                              *)
PutOffWell(i) ==
  \/ list[i].type = "period" /\ Mq!LevelsOf(list[i].id)' # {}
  \/ Mq!SingletonMessage(list[i].to, "after")
NotPutOff ==
  \A i \in DOMAIN list, j \in DOMAIN list' :
    list[i].id = list'[j].id /\ list'[j].due > list[i].due /\ list'[j].due > mq_clock => PutOffWell(i)

LEMMA Listed1 ==
  ASSUME QueueInv, NEW i \in DOMAIN list
  PROVE  /\ list[i] \in Messages /\ list[i] \in Members(list) /\ list[i].due \in Nat
         /\ list[i].id \in Nat /\ list[i].id <= lastSeq
         /\ mq_clock \in Nat /\ lastSeq \in Nat /\ list \in Seq(Messages) /\ Unique(list)
         /\ \A m \in Members(list) : m.id = list[i].id => m = list[i]
<1>1. list[i] \in Members(list)
  BY DEF Members
<1>2. list \in Seq(Messages) /\ Unique(list) /\ mq_clock \in Nat /\ lastSeq \in Nat
  BY QueuesAssumption DEF QueueInv, QueueTypes
<1>3. Members(list) \subseteq Messages /\ \A m, k \in Members(list) : m.id = k.id => m = k
  BY <1>2, ById
<1>4. list[i].id \in 1..lastSeq
  BY <1>1 DEF QueueInv, Numbered
<1>5. list[i] \in Messages
  BY <1>1, <1>3
<1>6. list[i].due \in Nat
  BY <1>5 DEF Messages
<1> QED BY <1>1, <1>2, <1>3, <1>4, <1>5, <1>6

LEMMA Undelayed ==
  ASSUME QueueInv,
         \A m \in Members(list') : m.id > lastSeq \/ \E d \in Members(list) : d.id = m.id /\ d.due = m.due
  PROVE  NotPutOff
<1> SUFFICES ASSUME NEW i \in DOMAIN list, NEW j \in DOMAIN list',
                    list[i].id = list'[j].id, list'[j].due > list[i].due
             PROVE  FALSE
  BY DEF NotPutOff
<1>1. list'[j] \in Members(list')
  BY DEF Members
<1>2. PICK m \in Members(list') : m = list'[j]
  BY <1>1
<1>3. ~(m.id > lastSeq)
  BY <1>2, Listed1
<1>4. PICK d \in Members(list) : d.id = m.id /\ d.due = m.due
  BY <1>3
<1>5. d = list[i]
  BY <1>2, <1>4, Listed1
<1>6. m.due = list[i].due /\ list[i].due \in Nat
  BY <1>4, <1>5, Listed1
<1> QED BY <1>2, <1>6

LEMMA FewerUndelayed ==
  ASSUME QueueInv, \A m \in Members(list') : m \in Members(list)
  PROVE  NotPutOff
BY Undelayed

LEMMA OnlyUndelayed ==
  ASSUME QueueInv, NEW K, list' = Mq!Only(list, K)
  PROVE  NotPutOff
<1>1. list \in Seq(Messages) /\ Unique(list) /\ list' = Only(list, K)
  BY SameSelection DEF QueueInv, QueueTypes
<1>2. Members(list') = Members(list) \cap K
  BY <1>1, Selected
<1> QED BY <1>2, FewerUndelayed

LEMMA PostUndelayed ==
  ASSUME QueueInv, NEW to, NEW type, Mq!PostMessage(to, type)
  PROVE  NotPutOff
<1>1. PICK m : m = Mq!Message(lastSeq + 1, to, type, Mq!WaitOf(type))
  OBVIOUS
<1>2. list' = Append(list, m) /\ m.id = lastSeq + 1
  BY <1>1 DEF Mq!PostMessage, Mq!Message
<1>3. lastSeq \in Nat /\ list \in Seq(Messages)
  BY DEF QueueInv, QueueTypes
<1>4. list \in Seq(Messages \cup {m})
  BY <1>3
<1>5. Members(list') = Members(list) \cup {m}
  BY <1>2, <1>4, MembersAppend
<1>6. m.id > lastSeq
  BY <1>2, <1>3
<1> QED BY <1>5, <1>6, Undelayed

LEMMA ReplaceUndelayed ==
  ASSUME QueueInv, NEW i \in DOMAIN list, NEW type \in {"immediately", "after"}, Mq!Replace(i, type),
         \/ Mq!SingletonMessage(list[i].to, type)
         \/ Mq!WaitTime(list[i]) >= Mq!WaitOf(type)
  PROVE  NotPutOff
<1>1. PICK n : n = Mq!Message(list[i].id, list[i].to, type, Mq!WaitOf(type))
  OBVIOUS
<1>2. PICK q : q = Mq!RemoveAt(list, i)
  OBVIOUS
<1>3. list' = Append(q, n) /\ n.id = list[i].id /\ n.due = mq_clock + Mq!WaitOf(type)
  BY <1>1, <1>2 DEF Mq!Replace, Mq!Message
<1>4. q \in Seq(Messages) /\ Members(q) = Members(list) \ {list[i]}
  BY <1>2, Listed1, Removed
<1>5. q \in Seq(Messages \cup {n})
  BY <1>4
<1>6. Members(list') = (Members(list) \ {list[i]}) \cup {n}
  BY <1>3, <1>4, <1>5, MembersAppend
<1> SUFFICES ASSUME NEW k \in DOMAIN list, NEW j \in DOMAIN list', list[k].id = list'[j].id,
                    list'[j].due > list[k].due, list'[j].due > mq_clock
             PROVE  PutOffWell(k)
  BY DEF NotPutOff
<1>7. list'[j] \in Members(list')
  BY DEF Members
<1>8. CASE list'[j] # n
  <2>1. list'[j] = list[k] /\ list[k].due \in Nat
    BY <1>6, <1>7, <1>8, Listed1
  <2> QED BY <2>1
<1>9. CASE list'[j] = n
  <2>1. k = i
    BY <1>3, <1>9 DEF QueueInv, Unique
  <2>2. mq_clock \in Nat /\ list[i].due \in Nat
    BY Listed1
  <2>3. type = "after"
    <3>1. CASE type = "immediately"
      <4>1. n.due = mq_clock + 0
        BY <1>3, <3>1 DEF Mq!WaitOf
      <4>2. n.due > mq_clock
        BY <1>9
      <4> QED BY <2>2, <4>1, <4>2
    <3> QED BY <3>1
  <2>4. n.due = mq_clock + 1 /\ Mq!WaitOf(type) = 1
    BY <1>3, <2>3 DEF Mq!WaitOf
  <2>5. CASE Mq!SingletonMessage(list[i].to, type)
    BY <2>1, <2>3, <2>5 DEF PutOffWell
  <2>6. CASE Mq!WaitTime(list[i]) >= Mq!WaitOf(type)
    <3>1. (IF list[i].due > mq_clock THEN list[i].due - mq_clock ELSE 0) >= 1
      BY <2>4, <2>6 DEF Mq!WaitTime
    <3>2. list[i].due >= mq_clock + 1
      BY <2>2, <3>1
    <3>3. mq_clock + 1 > list[i].due
      BY <1>9, <2>1, <2>4
    <3> QED BY <2>2, <3>2, <3>3
  <2> QED BY <2>5, <2>6
<1> QED BY <1>8, <1>9

LEMMA TakeUndelayed ==
  ASSUME QueueInv, Mq!Take
  PROVE  NotPutOff
<1>1. PICK i : i = Mq!First(Mq!Due)
  OBVIOUS
<1>2. /\ Mq!Alive /\ Mq!Due # {}
      /\ list' = IF list[i].type = "period" THEN [list EXCEPT ![i].due = mq_clock + 1]
                                            ELSE Mq!RemoveAt(list, i)
  BY <1>1 DEF Mq!Take
<1>3. i \in DOMAIN list
  <2>1. PICK S : S = Mq!Due
    OBVIOUS
  <2>2. DOMAIN list \subseteq Nat
    BY DEF QueueInv, QueueTypes
  <2>3. S \in SUBSET Nat /\ S # {} /\ S \subseteq DOMAIN list
    BY <1>2, <2>1, <2>2 DEF Mq!Due
  <2>4. Mq!First(S) \in S
    BY <2>3, FirstIsLeast
  <2> QED BY <1>1, <2>1, <2>3, <2>4
<1>4. CASE list[i].type # "period"
  <2>1. Members(list') = Members(list) \ {list[i]}
    BY <1>2, <1>3, <1>4, Listed1, Removed
  <2> QED BY <2>1, FewerUndelayed
<1>5. CASE list[i].type = "period"
  <2>1. PICK q \in Seq(Messages) : q = list
    BY <1>3, Listed1
  <2>2. PICK r : r = [q EXCEPT ![i].due = mq_clock + 1]
    OBVIOUS
  <2>3. DOMAIN r = DOMAIN q /\ (\A k \in DOMAIN q \ {i} : r[k] = q[k])
    BY <2>1, <2>2
  <2>4. r[i].id = q[i].id
    <3>1. q[i] \in Messages /\ i \in DOMAIN q
      BY <1>3, <2>1
    <3>2. PICK x : x = [q[i] EXCEPT !.due = mq_clock + 1]
      OBVIOUS
    <3>3. r[i] = x
      BY <2>2, <3>1, <3>2
    <3>4. x.id = q[i].id
      BY <3>1, <3>2 DEF Messages
    <3> QED BY <3>3, <3>4
  <2>5. list' = r
    BY <1>2, <1>5, <2>1, <2>2
  <2>6. PICK n \in Nat, o \in RunLoops :
          n = Len(levels) /\ n = Mq!Depth /\ n \in DOMAIN levels /\ o = levels[n] /\ o = Mq!Here
    BY <1>2, Innermost
  <2>7. Mq!LevelsOf(list[i].id)' # {}
    <3>1. levels' = [levels EXCEPT ![Mq!Depth] =
            [Mq!Here EXCEPT !.at = "call", !.id = list[i].id, !.type = list[i].type,
               !.running = Mq!Receivers(list[i]), !.left = Mq!Receivers(list[i]),
               !.waiting = IF list[i].type = "period" THEN {} ELSE list[i].waiting]]
      BY <1>1 DEF Mq!Take
    <3>2. PICK l : l = [o EXCEPT !.at = "call", !.id = list[i].id, !.type = list[i].type,
                          !.running = Mq!Receivers(list[i]), !.left = Mq!Receivers(list[i]),
                          !.waiting = IF list[i].type = "period" THEN {} ELSE list[i].waiting]
      OBVIOUS
    <3>3. l.id = list[i].id
      BY <3>2 DEF RunLoops
    <3>4. levels' = [levels EXCEPT ![n] = l]
      BY <2>6, <3>1, <3>2
    <3>5. n \in DOMAIN levels' /\ levels'[n].id = list[i].id
      <4>1. PICK s \in Seq(RunLoops) : s = levels
        BY DEF QueueInv, QueueTypes
      <4> QED BY <2>6, <3>3, <3>4, <4>1
    <3>6. PICK id : id = list[i].id
      OBVIOUS
    <3>7. list'[i].id = id
      BY <2>1, <2>4, <2>5, <3>6
    <3> QED BY <3>5, <3>6, <3>7 DEF Mq!LevelsOf
  <2> SUFFICES ASSUME NEW k \in DOMAIN list, NEW j \in DOMAIN list', list[k].id = list'[j].id,
                      list'[j].due > list[k].due
               PROVE  PutOffWell(k)
    BY DEF NotPutOff
  <2>8. \A j1 \in DOMAIN q : r[j1].id = q[j1].id
    BY <2>3, <2>4
  <2>9. j = k
    BY <2>1, <2>3, <2>5, <2>8 DEF QueueInv, Unique
  <2>10. k = i
    <3>1. CASE k # i
      <4>1. list'[j] = list[k] /\ list[k].due \in Nat
        BY <2>1, <2>3, <2>5, <2>9, <3>1, Listed1
      <4> QED BY <4>1
    <3> QED BY <3>1
  <2> QED BY <1>5, <2>7, <2>10 DEF PutOffWell
<1> QED BY <1>4, <1>5

LEMMA NextNotPutOff == QueueInv /\ [Mq!Next]_(Mq!queueVars) => NotPutOff
<1> SUFFICES ASSUME QueueInv, [Mq!Next]_(Mq!queueVars)  PROVE NotPutOff
  OBVIOUS
<1>0. UNCHANGED list => NotPutOff
  BY FewerUndelayed
<1>1. CASE Mq!Tick \/ UNCHANGED Mq!queueVars
  BY <1>0, <1>1 DEF Mq!Tick, Mq!queueVars
<1>2. ASSUME NEW ids, Mq!Delete(ids) PROVE NotPutOff
  <2>1. PICK K : K = {m \in Mq!Members(list) : m.id \notin ids}
    OBVIOUS
  <2>2. list' = Mq!Only(list, K)
    BY <1>2, <2>1 DEF Mq!Delete
  <2> QED BY <2>2, OnlyUndelayed
<1>3. CASE Mq!Anyone
  <2>1. ASSUME NEW to, NEW type, Mq!PostMessage(to, type) PROVE NotPutOff
    BY <2>1, PostUndelayed
  <2>2. ASSUME NEW to \in Handlers, NEW type \in {"immediately", "after"},
               Mq!SingletonMessage(to, type) \/ Mq!FasterMessage(to, type)
        PROVE  NotPutOff
    <3>1. Mq!Same(to) # {} /\ Mq!Replace(Mq!First(Mq!Same(to)), type)
      BY <2>2 DEF Mq!SingletonMessage, Mq!FasterMessage
    <3>2. PICK i \in DOMAIN list : i = Mq!First(Mq!Same(to)) /\ list[i].to = to
      BY <3>1, FirstSame
    <3>3. CASE Mq!SingletonMessage(to, type)
      BY <3>1, <3>2, <3>3, ReplaceUndelayed
    <3>4. CASE Mq!FasterMessage(to, type)
      <4>1. Mq!WaitTime(list[i]) >= Mq!WaitOf(type)
        BY <3>2, <3>4 DEF Mq!FasterMessage
      <4> QED BY <3>1, <3>2, <4>1, ReplaceUndelayed
    <3> QED BY <2>2, <3>3, <3>4
  <2>3. ASSUME NEW id, Mq!CancelMessage(id) PROVE NotPutOff
    BY <1>2, <2>3 DEF Mq!CancelMessage
  <2>4. ASSUME NEW id, Mq!WaitInside(id) PROVE NotPutOff
    BY <1>0, <2>4 DEF Mq!WaitInside
  <2>5. ASSUME NEW h, Mq!CancelMessagesOf(h) PROVE NotPutOff
    <3>1. PICK ids : ids = {list[i].id : i \in Mq!Same(h)}
      OBVIOUS
    <3>2. Mq!Delete(ids)
      BY <2>5, <3>1 DEF Mq!CancelMessagesOf
    <3> QED BY <1>2, <3>2
  <2>6. CASE Mq!BreakMessageQueueRunloop
    BY <1>0, <2>6 DEF Mq!BreakMessageQueueRunloop
  <2> QED BY <1>3, <2>1, <2>2, <2>3, <2>4, <2>5, <2>6 DEF Mq!Anyone
<1>4. CASE Mq!Loop
  <2>1. CASE Mq!Leave
    <3>1. UNCHANGED list \/ list' = <<>>
      BY <2>1 DEF Mq!Leave
    <3>2. CASE list' = <<>>
      BY <3>2, FewerUndelayed DEF Members
    <3> QED BY <1>0, <3>1, <3>2
  <2>2. CASE Mq!Take
    BY <2>2, TakeUndelayed
  <2>3. CASE Mq!Rest \/ Mq!Finish \/ \E h \in Handlers : Mq!HandlerReturns(h)
    BY <1>0, <2>3 DEF Mq!Rest, Mq!Finish, Mq!HandlerReturns
  <2> QED BY <1>4, <2>1, <2>2, <2>3 DEF Mq!Loop
<1>5. ASSUME NEW u, Mq!CancelAll(u) PROVE NotPutOff
  <2>1. PICK K : K = {m \in Mq!Members(list) : m.to # user[u].on}
    OBVIOUS
  <2>2. list' = Mq!Only(list, K)
    BY <1>5, <2>1 DEF Mq!CancelAll
  <2> QED BY <2>2, OnlyUndelayed
<1>6. ASSUME NEW u, NEW h, Mq!WaitRunning(u) \/ Mq!UnInstall(u, h) PROVE NotPutOff
  BY <1>0, <1>6 DEF Mq!WaitRunning, Mq!UnInstall
<1>7. ASSUME NEW u, NEW id, Mq!WaitMessage(u, id) PROVE NotPutOff
  <2>1. CASE UNCHANGED list
    BY <1>0, <2>1
  <2>2. ASSUME NEW i \in DOMAIN list, list' = [list EXCEPT ![i].waiting = @ \cup {u}] PROVE NotPutOff
    <3>1. PICK q \in Seq(Messages) : q = list
      BY <2>2, Listed1
    <3>2. PICK d \in Messages : d = q[i]
      BY <2>2, <3>1
    <3>3. PICK x : x = [d EXCEPT !.waiting = @ \cup {u}]
      OBVIOUS
    <3>4. x.id = d.id /\ x.due = d.due
      BY <3>3 DEF Messages
    <3>5. list' = [q EXCEPT ![i] = x]
      BY <2>2, <3>1, <3>2, <3>3
    <3>6. \A k \in DOMAIN list' : k \in DOMAIN q /\ q[k].id = list'[k].id /\ q[k].due = list'[k].due
      BY <3>2, <3>4, <3>5
    <3>7. \A m \in Members(list') : \E d1 \in Members(list) : d1.id = m.id /\ d1.due = m.due
      BY <3>1, <3>6 DEF Members
    <3> QED BY <3>7, Undelayed
  <2> QED BY <1>7, <2>1, <2>2 DEF Mq!WaitMessage
<1> QED BY <1>1, <1>3, <1>4, <1>5, <1>6, <1>7 DEF Mq!Next, Mq!Waiter
-----------------------------------------------------------------------------
(* The theorems                                                            *)

LEMMA OneOfTheTwo ==
  ASSUME [QueuesNext]_all
  PROVE  [Next]_syncVars /\ [Mq!Next]_(Mq!queueVars)
<1>1. CASE Next /\ AlarmOnly
  BY <1>1 DEF AlarmOnly, mqVars, Mq!queueVars
<1>2. CASE Mq!Next /\ MqOnly
  BY <1>2 DEF MqOnly
<1>3. CASE UNCHANGED all
  BY <1>3 DEF all, mqVars, Mq!queueVars
<1> QED BY <1>1, <1>2, <1>3 DEF QueuesNext

(* A behaviour of the two is one of each: what is proved of a module holds *)
(* where it runs beside the other.                                         *)
THEOREM QueuesAreTheirModules == QueuesSpec => Spec /\ Mq!Spec
<1>1. QueuesInit => Init /\ Mq!Init
  BY DEF QueuesInit
<1> QED BY <1>1, OneOfTheTwo, PTL DEF QueuesSpec, Spec, Mq!Spec

LEMMA QueueAlways == Mq!Spec => []QueueInv
BY QueueInit, QueueNext, PTL DEF Mq!Spec

(* Through posting, replacing, cancelling, waiting and nested loops: a     *)
(* message is in one place, a handler that was cancelled and waited for is *)
(* called no more, and who waits is known to what it waits for.            *)
THEOREM QueuesSafe == QueuesSpec => []QueueSafe
BY QueuesAreTheirModules, QueueAlways, QueueMeans, PTL

(* The types of the queue and of the alarms.                               *)
THEOREM QueuesTypes == QueuesSpec => []TypesOK
<1>1. QueueInv /\ TypeOK => TypesOK
  BY QueueMeans DEF TypesOK
<1> QED BY <1>1, QueuesAreTheirModules, QueueAlways, AlarmTypes, PTL

(* The alarms stay armed beside the queue.                                 *)
THEOREM QueuesAlarmsKept == QueuesSpec => []AlarmsHold
BY QueuesAreTheirModules, AlarmsKept, PTL

(* When a wait for a message ends, the message is not in the middle of its *)
(* run, in whichever of the nested loops it was.                           *)
THEOREM WaitsOutlastRuns == QueuesSpec => Mq!WaitOutlastsRun
<1>1. Outlasts => \A u \in Users : user[u].at = "message" /\ user'[u].at = "idle" =>
                    \A n \in DOMAIN levels' : levels'[n].id = user[u].on =>
                      levels'[n].at = "top" \/ levels'[n].type = "period"
  BY DEF Outlasts
<1>2. QueueInv /\ [Mq!Next]_(Mq!queueVars) =>
        [\A u \in Users : user[u].at = "message" /\ user'[u].at = "idle" =>
           \A n \in DOMAIN levels' : levels'[n].id = user[u].on =>
             levels'[n].at = "top" \/ levels'[n].type = "period"]_(Mq!queueVars)
  BY <1>1, NextOutlasts
<1>3. Mq!Spec => Mq!WaitOutlastsRun
  BY <1>2, QueueAlways, PTL DEF Mq!Spec, Mq!WaitOutlastsRun
<1> QED BY <1>3, QueuesAreTheirModules, PTL

(* Nothing that is posted or cancelled puts a message off, but a           *)
(* SingletonMessage of it, nor does the loop, but a periodic one it runs.  *)
THEOREM MessagesNotPutOff == QueuesSpec => Mq!NeverPutOff
<1>1. QueueInv /\ [Mq!Next]_(Mq!queueVars) =>
        [\A i \in DOMAIN list, j \in DOMAIN list' :
           list[i].id = list'[j].id /\ list'[j].due > list[i].due /\ list'[j].due > mq_clock =>
             \/ list[i].type = "period" /\ Mq!LevelsOf(list[i].id)' # {}
             \/ Mq!SingletonMessage(list[i].to, "after")]_(Mq!queueVars)
  BY NextNotPutOff DEF NotPutOff, PutOffWell
<1>2. Mq!Spec => Mq!NeverPutOff
  BY <1>1, QueueAlways, PTL DEF Mq!Spec, Mq!NeverPutOff
<1> QED BY <1>2, QueuesAreTheirModules, PTL
=============================================================================
