---------------------------- MODULE Middleware_proofs ----------------------------
(***************************************************************************)
(* Proofs about the two stores of handlers/middleware.go. First the        *)
(* response cache, alone and with the event list behind it: every step of  *)
(* EventPages is a step of the cache or leaves the cache alone, so that    *)
(* what is proved of the cache holds of the event list. Then the walk      *)
(* through the event list, and last the rate limiter's buckets.            *)
(***************************************************************************)
EXTENDS EventPages, RateLimiter, FiniteSetTheorems, SequenceTheorems, TLAPS

\* The data of a request is no older than its lookup; an entry that has not
\* expired carries data at most MaxCompute older than itself.
FreshInv ==
  /\ DOMAIN entries \subseteq Keys
  /\ \A k \in DOMAIN entries :
       /\ entries[k] \in Entry
       /\ entries[k].stored <= TTL => entries[k].data <= entries[k].stored + MaxCompute
  /\ pc \in [Requests -> {"idle", "miss", "read"}]
  /\ key \in [Requests -> Keys]
  /\ busy \in [Requests -> 0..MaxCompute] /\ data \in [Requests -> 0..MaxCompute]
  /\ \A r \in Requests : data[r] <= busy[r]

\* A cache starts with nothing in it. There is a key, for a request to ask for.
LEMMA FreshInit == ASSUME Keys # {} PROVE Init => FreshInv
<1>1. AnyKey \in Keys
  BY DEF AnyKey
<1> QED
  BY <1>1, ConstantsAssumption DEF Init, FreshInv

\* Every step of the cache keeps FreshInv: a stored response is as old as its
\* request at most, a hit changes no age, and time ages all of them alike.
LEMMA FreshNext == ASSUME Keys # {} PROVE FreshInv /\ [Next]_vars => FreshInv'
<1> SUFFICES ASSUME FreshInv, [Next]_vars PROVE FreshInv'
  OBVIOUS
<1> USE ConstantsAssumption
<1>0. AnyKey \in Keys
  BY DEF AnyKey
<1>1. ASSUME NEW r \in Requests, NEW k \in Keys, LookupHits(r, k)
      PROVE  FreshInv'
  <2>1. /\ DOMAIN entries' = DOMAIN entries
        /\ \A j \in DOMAIN entries : entries'[j] = entries[j]
    BY <1>1 DEF LookupHits, Used
  <2> QED
    BY <1>1, <2>1 DEF LookupHits, FreshInv, Entry, Oldest
<1>2. ASSUME NEW r \in Requests, NEW k \in Keys, LookupMisses(r, k)
      PROVE  FreshInv'
  <2>1. /\ DOMAIN entries' \subseteq DOMAIN entries
        /\ \A j \in DOMAIN entries' : entries'[j] = entries[j]
    BY <1>2 DEF LookupMisses, Without
  <2> QED
    BY <1>2, <2>1 DEF LookupMisses, FreshInv, Entry, Oldest
<1>3. ASSUME NEW r \in Requests, Read(r)
      PROVE  FreshInv'
  BY <1>3 DEF Read, FreshInv, Entry, Oldest
<1>4. ASSUME NEW r \in Requests, Fail(r)
      PROVE  FreshInv'
  BY <1>0, <1>4 DEF Fail, Leave, FreshInv, Entry, Oldest
<1>5. ASSUME NEW r \in Requests, Store(r)
      PROVE  FreshInv'
  <2>1. /\ DOMAIN entries' \subseteq DOMAIN entries \cup {key[r]}
        /\ \A k \in DOMAIN entries' :
             entries'[k] = IF k = key[r] THEN NewEntry(r) ELSE entries[k]
    BY <1>5 DEF Store, Left
  <2>2. NewEntry(r) \in Entry /\ NewEntry(r).stored = 0 /\ NewEntry(r).data <= MaxCompute
    BY DEF NewEntry, FreshInv, Entry, Oldest
  <2>3. \A k \in DOMAIN entries' :
          /\ entries'[k] \in Entry
          /\ entries'[k].stored <= TTL => entries'[k].data <= entries'[k].stored + MaxCompute
    BY <2>1, <2>2 DEF FreshInv
  <2>4. DOMAIN entries' \subseteq Keys
    BY <2>1 DEF FreshInv
  <2>5. /\ pc' \in [Requests -> {"idle", "miss", "read"}]
        /\ key' \in [Requests -> Keys]
        /\ busy' \in [Requests -> 0..MaxCompute] /\ data' \in [Requests -> 0..MaxCompute]
        /\ \A q \in Requests : data'[q] <= busy'[q]
    BY <1>0, <1>5 DEF Store, Leave, FreshInv
  <2> QED
    BY <2>3, <2>4, <2>5 DEF FreshInv, Entry, Oldest
<1>6. CASE Tick
  <2>1. DOMAIN entries' = DOMAIN entries
    BY <1>6 DEF Tick
  <2>2. ASSUME NEW k \in DOMAIN entries
        PROVE  entries'[k] = [stored |-> Least(entries[k].stored + 1, TTL + 1),
                              data |-> Least(entries[k].data + 1, Oldest)]
    BY <1>6 DEF Tick
  <2>3. ASSUME NEW k \in DOMAIN entries
        PROVE  /\ entries'[k] \in Entry
               /\ entries'[k].stored <= TTL => entries'[k].data <= entries'[k].stored + MaxCompute
    <3>1. /\ entries[k].stored \in 0..TTL + 1 /\ entries[k].data \in 0..Oldest
          /\ entries[k].stored <= TTL => entries[k].data <= entries[k].stored + MaxCompute
      BY DEF FreshInv, Entry
    <3>2. /\ Least(entries[k].stored + 1, TTL + 1) \in 0..TTL + 1
          /\ Least(entries[k].data + 1, Oldest) \in 0..Oldest
          /\ Least(entries[k].stored + 1, TTL + 1) <= TTL =>
               Least(entries[k].data + 1, Oldest) <= Least(entries[k].stored + 1, TTL + 1) + MaxCompute
      BY <3>1 DEF Least, Oldest
    <3> DEFINE stored == Least(entries[k].stored + 1, TTL + 1)
               age == Least(entries[k].data + 1, Oldest)
    <3>3. entries'[k] = [stored |-> stored, data |-> age]
      BY <2>2
    <3> HIDE DEF stored, age
    <3>4. stored \in 0..TTL + 1 /\ age \in 0..Oldest /\ (stored <= TTL => age <= stored + MaxCompute)
      BY <3>2 DEF stored, age
    <3> QED
      BY <3>3, <3>4 DEF Entry
  <2>4. /\ busy' \in [Requests -> 0..MaxCompute] /\ data' \in [Requests -> 0..MaxCompute]
        /\ \A r \in Requests : data'[r] <= busy'[r]
    BY <1>6 DEF Tick, FreshInv
  <2> QED
    BY <1>6, <2>1, <2>3, <2>4 DEF Tick, FreshInv, Entry, Oldest
<1>7. CASE UNCHANGED vars
  BY <1>7 DEF vars, FreshInv, Entry, Oldest
<1> QED
  BY <1>1, <1>2, <1>3, <1>4, <1>5, <1>6, <1>7 DEF Next

\* For every number of keys, requests and entries, a hit serves data no older than
\* TTL and the time of one response.
THEOREM Fresh == ASSUME Keys # {} PROVE Spec => []ServedFresh
<1>1. Init => FreshInv
  BY FreshInit
<1>2. FreshInv /\ [Next]_vars => FreshInv'
  BY FreshNext
<1>3. FreshInv => ServedFresh
  BY ConstantsAssumption DEF FreshInv, Entry, ServedFresh, Hit, Expired, Oldest
<1> QED
  BY <1>1, <1>2, <1>3, PTL DEF Spec

(***************************************************************************)
(* The list of keys: what removal, MoveToFront and eviction make of it.    *)
(***************************************************************************)

NoRepeats(list) == \A i, j \in 1..Len(list) : list[i] = list[j] => i = j

\* A list without repeats is as long as the set of its elements is large.
LEMMA LengthIsSize ==
  ASSUME NEW S, NEW list \in Seq(S), NoRepeats(list)
  PROVE  IsFiniteSet(ToSet(list)) /\ Cardinality(ToSet(list)) = Len(list)
<1> DEFINE f == [i \in 1..Len(list) |-> list[i]]
<1>1. Len(list) \in Nat /\ DOMAIN list = 1..Len(list)
  BY LenProperties
<1>2. f \in Bijection(1..Len(list), ToSet(list))
  <2>1. ToSet(list) = {list[i] : i \in 1..Len(list)}
    BY <1>1 DEF ToSet
  <2>2. f \in [1..Len(list) -> ToSet(list)]
    BY <2>1
  <2>3. \A i, j \in 1..Len(list) : f[i] = f[j] => i = j
    BY DEF NoRepeats
  <2>4. \A x \in ToSet(list) : \E i \in 1..Len(list) : f[i] = x
    BY <2>1
  <2> HIDE DEF f
  <2> QED
    BY <2>2, <2>3, <2>4 DEF Bijection, Injection, Surjection, IsInjective
<1>3. ExistsBijection(1..Len(list), ToSet(list))
  BY <1>2 DEF ExistsBijection
<1>4. IsFiniteSet(1..Len(list)) /\ Cardinality(1..Len(list)) = Len(list)
  BY <1>1, FS_Interval
<1> QED
  BY <1>3, <1>4, FS_Bijection

\* The front of a list has no repeats either, and keeps the elements before its end.
LEMMA FrontOf ==
  ASSUME NEW S, NEW list \in Seq(S), NoRepeats(list), NEW n \in 0..Len(list)
  PROVE  /\ SubSeq(list, 1, n) \in Seq(S) /\ Len(SubSeq(list, 1, n)) = n
         /\ NoRepeats(SubSeq(list, 1, n))
         /\ ToSet(SubSeq(list, 1, n)) = ToSet(list) \ {list[i] : i \in n + 1..Len(list)}
<1> DEFINE front == SubSeq(list, 1, n)
<1>1. Len(list) \in Nat /\ DOMAIN list = 1..Len(list) /\ \A i \in 1..Len(list) : list[i] \in S
  BY LenProperties, ElementOfSeq
<1>2. front \in Seq(S) /\ Len(front) = n /\ \A i \in 1..n : front[i] = list[i]
  BY <1>1, SubSeqProperties
<1>3. DOMAIN front = 1..n
  BY <1>2, LenProperties
<1>4. NoRepeats(front)
  BY <1>1, <1>2 DEF NoRepeats
<1>5. ToSet(front) = {list[i] : i \in 1..n} /\ ToSet(list) = {list[i] : i \in 1..Len(list)}
  BY <1>1, <1>2, <1>3 DEF ToSet
<1>6. {list[i] : i \in 1..n} = {list[i] : i \in 1..Len(list)} \ {list[i] : i \in n + 1..Len(list)}
  BY <1>1 DEF NoRepeats
<1> QED
  BY <1>2, <1>4, <1>5, <1>6

\* Removal takes out one element and leaves the others.
LEMMA RemovedFrom ==
  ASSUME NEW S, NEW list \in Seq(S), NoRepeats(list), NEW k
  PROVE  /\ Removed(list, k) \in Seq(S) /\ NoRepeats(Removed(list, k))
         /\ ToSet(Removed(list, k)) = ToSet(list) \ {k}
<1>1. Len(list) \in Nat /\ DOMAIN list = 1..Len(list) /\ \A i \in 1..Len(list) : list[i] \in S
  BY LenProperties, ElementOfSeq
<1>2. CASE k \notin ToSet(list)
  BY <1>2 DEF Removed
<1>3. CASE k \in ToSet(list)
  <2> DEFINE at == CHOOSE i \in DOMAIN list : list[i] = k
             before == SubSeq(list, 1, at - 1)
             after == SubSeq(list, at + 1, Len(list))
  <2>1. at \in 1..Len(list) /\ list[at] = k
    BY <1>1, <1>3 DEF ToSet
  <2>2. Removed(list, k) = before \o after
    BY <1>3 DEF Removed, RemoveAt
  <2> HIDE DEF at
  <2>3. before \in Seq(S) /\ Len(before) = at - 1 /\ \A i \in 1..at - 1 : before[i] = list[i]
    BY <1>1, <2>1, SubSeqProperties
  <2>4. /\ after \in Seq(S) /\ Len(after) = Len(list) - at
        /\ \A i \in 1..Len(list) - at : after[i] = list[at + i]
    <3>1. at + 1 \in Int /\ Len(list) \in Int /\ \A i \in at + 1..Len(list) : list[i] \in S
      BY <1>1, <2>1
    <3>2. /\ after \in Seq(S)
          /\ Len(after) = IF at + 1 <= Len(list) THEN Len(list) - (at + 1) + 1 ELSE 0
          /\ \A i \in 1..Len(list) - (at + 1) + 1 : after[i] = list[at + 1 + i - 1]
      BY <3>1, SubSeqProperties
    <3>3. Len(list) - (at + 1) + 1 = Len(list) - at /\ \A i \in Int : at + 1 + i - 1 = at + i
      BY <1>1, <2>1
    <3> HIDE DEF after
    <3>a. Len(list) \in Int /\ at \in Int /\ at <= Len(list)
      BY <1>1, <2>1
    <3>b. Len(after) = IF at + 1 <= Len(list) THEN Len(list) - (at + 1) + 1 ELSE 0
      BY <3>2
    <3>4. Len(after) = Len(list) - at
      BY <3>a, <3>b
    <3>5. ASSUME NEW i \in 1..Len(list) - at
          PROVE  after[i] = list[at + i]
      <4>1. i \in 1..Len(list) - (at + 1) + 1 /\ at + 1 + i - 1 = at + i
        BY <3>a, <3>3
      <4>2. after[i] = list[at + 1 + i - 1]
        BY <3>2, <4>1
      <4> QED
        BY <4>1, <4>2
    <3> QED
      BY <3>2, <3>4, <3>5
  <2> HIDE DEF before, after
  <2> DEFINE rest == before \o after
  <2>5. /\ rest \in Seq(S) /\ Len(rest) = Len(list) - 1
        /\ \A i \in 1..Len(list) - 1 : rest[i] = IF i < at THEN list[i] ELSE list[i + 1]
    <3>1. rest \in Seq(S) /\ Len(rest) = Len(before) + Len(after)
      BY <2>3, <2>4, ConcatProperties
    <3>a. Len(before) + Len(after) = Len(list) - 1
      BY <1>1, <2>1, <2>3, <2>4
    <3>2. ASSUME NEW i \in 1..Len(list) - 1
          PROVE  rest[i] = IF i < at THEN list[i] ELSE list[i + 1]
      <4>1. rest[i] = IF i <= at - 1 THEN before[i] ELSE after[i - (at - 1)]
        BY <2>3, <2>4, <3>a, ConcatProperties
      <4>2. CASE i < at
        BY <2>1, <2>3, <4>1, <4>2
      <4>3. CASE i >= at
        <5>1. i - (at - 1) \in 1..Len(list) - at /\ at + (i - (at - 1)) = i + 1
          BY <1>1, <2>1, <4>3
        <5>2. after[i - (at - 1)] = list[at + (i - (at - 1))]
          BY <2>4, <5>1
        <5>3. rest[i] = after[i - (at - 1)]
          BY <2>1, <4>1, <4>3
        <5>4. rest[i] = list[i + 1]
          BY <5>1, <5>2, <5>3
        <5> QED
          BY <2>1, <4>3, <5>4
      <4>4. i < at \/ i >= at
        BY <1>1, <2>1
      <4> QED
        BY <4>2, <4>3, <4>4
    <3> QED
      BY <3>1, <3>a, <3>2
  <2> HIDE DEF rest
  <2>6. DOMAIN rest = 1..Len(list) - 1
    BY <2>5, LenProperties
  <2>7. NoRepeats(rest)
    BY <1>1, <2>1, <2>5 DEF NoRepeats
  <2>8. ToSet(rest) = ToSet(list) \ {k}
    <3>1. ASSUME NEW x \in ToSet(rest)
          PROVE  x \in ToSet(list) \ {k}
      <4>1. PICK i \in 1..Len(list) - 1 : x = rest[i]
        BY <2>6 DEF ToSet
      <4>2. PICK j \in 1..Len(list) : x = list[j] /\ j # at
        BY <1>1, <2>1, <2>5, <4>1
      <4> QED
        BY <1>1, <2>1, <4>2 DEF ToSet, NoRepeats
    <3>2. ASSUME NEW x \in ToSet(list) \ {k}
          PROVE  x \in ToSet(rest)
      <4>1. PICK j \in 1..Len(list) : x = list[j]
        BY <1>1 DEF ToSet
      <4>2. j # at
        BY <2>1, <4>1
      <4>3. CASE j < at
        <5>1. j \in 1..Len(list) - 1 /\ rest[j] = x
          BY <1>1, <2>1, <2>5, <4>1, <4>3
        <5> QED
          BY <2>6, <5>1 DEF ToSet
      <4>4. CASE j > at
        <5>1. j - 1 \in 1..Len(list) - 1 /\ rest[j - 1] = x
          BY <1>1, <2>1, <2>5, <4>1, <4>4
        <5> QED
          BY <2>6, <5>1 DEF ToSet
      <4> QED
        BY <2>1, <4>2, <4>3, <4>4
    <3> QED
      BY <3>1, <3>2
  <2> QED
    BY <2>2, <2>5, <2>7, <2>8 DEF rest
<1> QED
  BY <1>2, <1>3

\* A key that is not in the list goes to its front.
LEMMA PushedFront ==
  ASSUME NEW S, NEW list \in Seq(S), NoRepeats(list), NEW k \in S, k \notin ToSet(list)
  PROVE  /\ <<k>> \o list \in Seq(S) /\ NoRepeats(<<k>> \o list)
         /\ Len(<<k>> \o list) = Len(list) + 1
         /\ ToSet(<<k>> \o list) = ToSet(list) \cup {k}
<1> DEFINE new == <<k>> \o list
<1>1. Len(list) \in Nat /\ DOMAIN list = 1..Len(list)
  BY LenProperties
<1>2. <<k>> \in Seq(S) /\ Len(<<k>>) = 1 /\ <<k>>[1] = k
  OBVIOUS
<1>3. new \in Seq(S) /\ Len(new) = Len(list) + 1
  BY <1>1, <1>2, ConcatProperties
<1>4. ASSUME NEW i \in 1..Len(list) + 1
      PROVE  new[i] = IF i = 1 THEN k ELSE list[i - 1]
  <2>1. i \in 1..1 + Len(list)
    BY <1>1
  <2>2. new[i] = IF i <= 1 THEN <<k>>[i] ELSE list[i - 1]
    BY <1>2, <2>1, ConcatProperties
  <2> QED
    BY <1>1, <1>2, <2>2
<1> HIDE DEF new
<1>5. DOMAIN new = 1..Len(list) + 1
  BY <1>3, LenProperties
<1>6. \A i \in 1..Len(list) : list[i] # k
  BY <1>1 DEF ToSet
<1>7. NoRepeats(new)
  <2> SUFFICES ASSUME NEW i \in 1..Len(list) + 1, NEW j \in 1..Len(list) + 1, new[i] = new[j]
               PROVE  i = j
    BY <1>3 DEF NoRepeats
  <2>1. CASE i = 1 \/ j = 1
    BY <1>1, <1>4, <1>6, <2>1
  <2>2. CASE i # 1 /\ j # 1
    <3>1. i - 1 \in 1..Len(list) /\ j - 1 \in 1..Len(list) /\ list[i - 1] = list[j - 1]
      BY <1>1, <1>4, <2>2
    <3>2. i - 1 = j - 1
      BY <3>1 DEF NoRepeats
    <3> QED
      BY <3>2
  <2> QED
    BY <2>1, <2>2
<1>8. ToSet(new) = ToSet(list) \cup {k}
  <2>1. ToSet(new) \subseteq ToSet(list) \cup {k}
    BY <1>1, <1>4, <1>5 DEF ToSet
  <2>2. k \in ToSet(new)
    BY <1>1, <1>4, <1>5 DEF ToSet
  <2>3. ASSUME NEW x \in ToSet(list)
        PROVE  x \in ToSet(new)
    <3>1. PICK i \in 1..Len(list) : x = list[i]
      BY <1>1 DEF ToSet
    <3>2. i + 1 \in 1..Len(list) + 1 /\ new[i + 1] = list[i]
      BY <1>1, <1>4
    <3> QED
      BY <1>5, <3>1, <3>2 DEF ToSet
  <2> QED
    BY <2>1, <2>2, <2>3
<1> QED
  BY <1>3, <1>7, <1>8 DEF new

\* Where the list and the map agree, eviction leaves what there is room for.
LEMMA RoomFor ==
  ASSUME NEW S, NEW list \in Seq(S), NoRepeats(list)
  PROVE  /\ Room(list, ToSet(list)) \in 0..Len(list)
         /\ Room(list, ToSet(list)) <= MaxEntries
<1> DEFINE keys == ToSet(list)
           stop == {n \in 0..Len(list) : n = 0 \/ Cardinality(Left(list, keys, n)) <= MaxEntries}
<1>1. Len(list) \in Nat /\ MaxEntries \in Nat
  BY LenProperties, ConstantsAssumption
<1>2. ASSUME NEW n \in 0..Len(list)
      PROVE  Cardinality(Left(list, keys, n)) = n
  <2>1. Left(list, keys, n) = ToSet(SubSeq(list, 1, n))
    BY FrontOf DEF Left
  <2>2. SubSeq(list, 1, n) \in Seq(S) /\ NoRepeats(SubSeq(list, 1, n)) /\ Len(SubSeq(list, 1, n)) = n
    BY FrontOf
  <2> QED
    BY <2>1, <2>2, LengthIsSize
<1>3. stop = {n \in 0..Len(list) : n <= MaxEntries}
  BY <1>1, <1>2
<1> HIDE DEF stop
<1>4. \E n \in stop : \A m \in stop : n >= m
  <2>1. CASE Len(list) <= MaxEntries
    <3>1. Len(list) \in stop /\ \A m \in stop : Len(list) >= m
      BY <1>1, <1>3, <2>1
    <3> QED
      BY <3>1
  <2>2. CASE MaxEntries < Len(list)
    <3>1. MaxEntries \in stop /\ \A m \in stop : MaxEntries >= m
      BY <1>1, <1>3, <2>2
    <3> QED
      BY <3>1
  <2> QED
    BY <1>1, <2>1, <2>2
<1>5. Max(stop) \in stop
  BY <1>4 DEF Max
<1> QED
  BY <1>3, <1>5 DEF Room, stop

(***************************************************************************)
(* The list and the map.                                                   *)
(***************************************************************************)

ListInv ==
  /\ order \in Seq(Keys) /\ NoRepeats(order)
  /\ ToSet(order) = DOMAIN entries
  /\ Len(order) <= MaxEntries

LEMMA ListInit == Init => ListInv
<1> SUFFICES ASSUME Init PROVE ListInv
  OBVIOUS
<1>1. order = <<>> /\ Len(order) = 0 /\ DOMAIN entries = {}
  BY DEF Init
<1> QED
  BY <1>1, ConstantsAssumption DEF ListInv, NoRepeats, ToSet

LEMMA ListNext == FreshInv /\ ListInv /\ [Next]_vars => ListInv'
<1> SUFFICES ASSUME FreshInv, ListInv, [Next]_vars PROVE ListInv'
  OBVIOUS
<1>0. order \in Seq(Keys) /\ NoRepeats(order) /\ ToSet(order) = DOMAIN entries
  BY DEF ListInv
<1>1. ASSUME NEW r \in Requests, NEW k \in Keys, LookupHits(r, k)
      PROVE  ListInv'
  <2> DEFINE rest == Removed(order, k)
  <2>1. /\ order' = <<k>> \o rest /\ DOMAIN entries' = DOMAIN entries
        /\ k \in DOMAIN entries
    BY <1>1 DEF LookupHits, Hit
  <2>2. rest \in Seq(Keys) /\ NoRepeats(rest) /\ ToSet(rest) = ToSet(order) \ {k}
    BY <1>0, RemovedFrom
  <2> HIDE DEF rest
  <2>3. order' \in Seq(Keys) /\ NoRepeats(order') /\ ToSet(order') = ToSet(rest) \cup {k}
    BY <2>1, <2>2, PushedFront
  <2>4. ToSet(order') = ToSet(order)
    BY <1>0, <2>1, <2>2, <2>3
  <2>5. Len(order') = Len(order)
    BY <1>0, <2>3, <2>4, LengthIsSize
  <2> QED
    BY <1>0, <2>1, <2>3, <2>4, <2>5 DEF ListInv, NoRepeats, ToSet
<1>2. ASSUME NEW r \in Requests, NEW k \in Keys, LookupMisses(r, k)
      PROVE  ListInv'
  <2>1. CASE k \notin DOMAIN entries
    BY <1>2, <2>1 DEF LookupMisses, ListInv, NoRepeats, ToSet
  <2>2. CASE k \in DOMAIN entries
    <3>1. order' = Removed(order, k) /\ DOMAIN entries' = DOMAIN entries \ {k}
      BY <1>2, <2>2 DEF LookupMisses, ListWithout, Without
    <3>2. /\ order' \in Seq(Keys) /\ NoRepeats(order')
          /\ ToSet(order') = ToSet(order) \ {k}
      BY <1>0, <3>1, RemovedFrom
    <3>3. Len(order') <= Len(order)
      <4>1. IsFiniteSet(ToSet(order)) /\ ToSet(order') \subseteq ToSet(order)
        BY <1>0, <3>2, LengthIsSize
      <4>2. Cardinality(ToSet(order')) <= Cardinality(ToSet(order))
        BY <4>1, FS_Subset
      <4>3. Cardinality(ToSet(order)) = Len(order)
        BY <1>0, LengthIsSize
      <4>4. Cardinality(ToSet(order')) = Len(order')
        BY <3>2, LengthIsSize
      <4> QED
        BY <4>2, <4>3, <4>4
    <3>4. Len(order) \in Nat /\ Len(order') \in Nat /\ Len(order) <= MaxEntries
      BY <3>2, LenProperties DEF ListInv
    <3>5. Len(order') <= MaxEntries
      BY <3>3, <3>4, ConstantsAssumption
    <3> QED
      BY <1>0, <3>1, <3>2, <3>5 DEF ListInv, NoRepeats, ToSet
  <2> QED
    BY <2>1, <2>2
<1>3. ASSUME NEW r \in Requests, Store(r)
      PROVE  ListInv'
  <2> DEFINE old == IF key[r] \in DOMAIN entries THEN ListWithout(key[r]) ELSE order
             list == <<key[r]>> \o old
             room == Room(list, DOMAIN entries \cup {key[r]})
  <2>1. /\ order' = SubSeq(list, 1, room)
        /\ DOMAIN entries' = Left(list, DOMAIN entries \cup {key[r]}, room)
    BY <1>3 DEF Store
  <2>2. old \in Seq(Keys) /\ NoRepeats(old) /\ ToSet(old) = ToSet(order) \ {key[r]}
    BY <1>0, RemovedFrom DEF ListWithout
  <2>3. key[r] \in Keys
    BY DEF FreshInv
  <2> HIDE DEF old
  <2>4. list \in Seq(Keys) /\ NoRepeats(list) /\ ToSet(list) = DOMAIN entries \cup {key[r]}
    BY <1>0, <2>2, <2>3, PushedFront
  <2> HIDE DEF list
  <2>5. room \in 0..Len(list) /\ room <= MaxEntries
    BY <2>4, RoomFor
  <2> HIDE DEF room
  <2>6. /\ order' \in Seq(Keys) /\ Len(order') = room /\ NoRepeats(order')
        /\ ToSet(order') = DOMAIN entries'
    BY <2>1, <2>4, <2>5, FrontOf DEF Left
  <2> QED
    BY <2>5, <2>6 DEF ListInv, NoRepeats, ToSet
<1>4. CASE UNCHANGED order /\ DOMAIN entries' = DOMAIN entries
  BY <1>4 DEF ListInv, NoRepeats, ToSet
<1>5. ASSUME NEW r \in Requests, Read(r) \/ Fail(r)
      PROVE  ListInv'
  BY <1>4, <1>5 DEF Read, Fail
<1>6. CASE Tick \/ UNCHANGED vars
  BY <1>4, <1>6 DEF Tick, vars
<1> QED
  BY <1>1, <1>2, <1>3, <1>5, <1>6 DEF Next

\* For every number of keys and entries: the list and the map hold the same keys,
\* each once, and no more of them than CACHE_MAX_ENTRIES.
THEOREM ListAndMapAgree == ASSUME Keys # {} PROVE Spec => []ListMatchesMap
<1> DEFINE Inv == FreshInv /\ ListInv
<1>1. Init => Inv
  BY FreshInit, ListInit
<1>2. Inv /\ [Next]_vars => Inv'
  BY FreshNext, ListNext
<1>3. Inv => ListMatchesMap
  BY LengthIsSize DEF ListInv, ListMatchesMap
<1> QED
  BY <1>1, <1>2, <1>3, PTL DEF Spec

\* Every step of the event list maps to a step of the cache in front of it, or
\* does not change the cache.
LEMMA PagesStepIsCacheStep == [PagesNext]_pageVars => [Next]_vars
<1> SUFFICES ASSUME [PagesNext]_pageVars PROVE [Next]_vars
  OBVIOUS
<1>1. ASSUME NEW r \in Requests, NEW k \in Keys, PageHit(r, k) \/ PageMiss(r, k)
      PROVE  [Next]_vars
  BY <1>1 DEF PageHit, PageMiss, Next
<1>2. ASSUME NEW r \in Requests, CountRows(r)
      PROVE  [Next]_vars
  BY <1>2 DEF CountRows, Next
<1>3. ASSUME NEW r \in Requests, ReadPage(r) \/ PageStored(r) \/ PageFails(r)
      PROVE  [Next]_vars
  BY <1>3 DEF ReadPage, PageStored, PageFails, Next
<1>4. ASSUME NEW e \in Events, NEW row \in Row, WriteRow(e, row)
      PROVE  [Next]_vars
  BY <1>4 DEF WriteRow, vars
<1>5. CASE PagesTick
  BY <1>5 DEF PagesTick, Next
<1>6. CASE UNCHANGED pageVars
  BY <1>6 DEF pageVars, vars
<1> QED
  BY <1>1, <1>2, <1>3, <1>4, <1>5, <1>6 DEF PagesNext

\* The event list behind the cache implements the cache: no handler behaviour
\* makes the cache do what it does not do by itself.
THEOREM PagesImplementCache == PagesSpec => Spec
<1>1. PagesInit => Init
  BY DEF PagesInit
<1> QED
  BY <1>1, PagesStepIsCacheStep, PTL DEF PagesSpec, Spec

\* A page served from the cache was read at most TTL and one response ago.
THEOREM PagesFresh == PagesSpec => []ServedFresh
<1>1. Keys # {}
  BY PagesAssumption
<1> QED
  BY <1>1, Fresh, PagesImplementCache, PTL

\* The list of keys and the map agree, whatever the handler answers.
THEOREM PagesListAndMapAgree == PagesSpec => []ListMatchesMap
<1>1. Keys # {}
  BY PagesAssumption
<1> QED
  BY <1>1, ListAndMapAgree, PagesImplementCache, PTL

(***************************************************************************)
(* Types of the event list.                                                *)
(***************************************************************************)

\* The part of the type that is not the cache's.
PagesInv ==
  /\ rows \in [Events -> Row] /\ touched \in [Events -> 0..MaxWrites] /\ writes \in 0..MaxWrites
  /\ page \in [Requests -> Page]
  /\ DOMAIN content = DOMAIN entries /\ \A k \in DOMAIN content : content[k] \in Page
  /\ walk.next \in Keys \cup {Over}
  /\ walk.seen \subseteq Events /\ walk.twice \subseteq walk.seen

\* The database returns the matching rows, each once.
LEMMA SortedIsList ==
  ASSUME IsFiniteSet(Events), NEW tbl, NEW s \in Sorted(tbl)
  PROVE  /\ s \in Seq(Events) /\ NoRepeats(s) /\ Len(s) = Cardinality(Matching(tbl))
         /\ \A i \in 1..Len(s) : s[i] \in Matching(tbl)
<1>1. IsFiniteSet(Matching(tbl)) /\ Matching(tbl) \subseteq Events
  BY FS_Subset DEF Matching
<1>2. Cardinality(Matching(tbl)) \in Nat
  BY <1>1, FS_CardinalityType
<1>3. /\ s \in [1..Cardinality(Matching(tbl)) -> Matching(tbl)]
      /\ \A i, j \in 1..Cardinality(Matching(tbl)) : i # j => s[i] # s[j]
  BY DEF Sorted, SetToSeqs
<1>4. s \in Seq(Matching(tbl)) /\ Len(s) = Cardinality(Matching(tbl))
  BY <1>2, <1>3
<1>5. s \in Seq(Events)
  BY <1>1, <1>4, SeqMonotonic
<1> QED
  BY <1>3, <1>4, <1>5 DEF NoRepeats

\* A page is a part of the list.
LEMMA SliceIsList ==
  ASSUME NEW s \in Seq(Events), NEW offset \in Nat
  PROVE  Slice(s, offset) \in Seq(Events)
<1> DEFINE end == IF offset + PageSize < Len(s) THEN offset + PageSize ELSE Len(s)
<1>1. Len(s) \in Nat /\ \A i \in 1..Len(s) : s[i] \in Events
  BY LenProperties, ElementOfSeq
<1>2. end \in Int /\ offset + 1 \in Int /\ \A i \in offset + 1..end : s[i] \in Events
  BY <1>1, PagesAssumption
<1> HIDE DEF end
<1>3. SubSeq(s, offset + 1, end) \in Seq(Events)
  BY <1>2, SubSeqProperties
<1> QED
  BY <1>3 DEF Slice, end

\* What the pager makes of a response.
LEMMA ShownTypes ==
  ASSUME IsFiniteSet(Events), PagesInv, NEW resp \in Page, NEW offset \in Keys
  PROVE  /\ Shown(resp, offset).next \in Keys \cup {Over}
         /\ Shown(resp, offset).seen \subseteq Events
         /\ Shown(resp, offset).twice \subseteq Shown(resp, offset).seen
<1> DEFINE ids == ToSet(resp.events)
           more == resp.total > PageSize /\ ids # {} /\ offset + Len(resp.events) < resp.total
<1>1. resp.events \in Seq(Events) /\ resp.total \in -1..Cardinality(Events)
  BY DEF Page
<1>2. Len(resp.events) \in Nat /\ DOMAIN resp.events = 1..Len(resp.events) /\ ids \subseteq Events
  BY <1>1, LenProperties, ElementOfSeq DEF ToSet
<1>3. Cardinality(Events) \in Nat /\ offset \in Nat
  BY FS_CardinalityType, PagesAssumption
<1>4. more => offset + PageSize \in Keys
  <2> SUFFICES ASSUME more PROVE offset + PageSize \in Keys
    OBVIOUS
  <2>1. Len(resp.events) >= 1
    BY <1>2 DEF ToSet
  <2>2. offset + 1 < Cardinality(Events)
    BY <1>1, <1>2, <1>3, <2>1
  <2> QED
    BY <2>2, PagesAssumption
<1>5. /\ Shown(resp, offset).next = IF more THEN offset + PageSize ELSE Over
      /\ Shown(resp, offset).seen = walk.seen \cup ids
      /\ Shown(resp, offset).twice = walk.twice \cup (ids \cap walk.seen)
  BY DEF Shown
<1> HIDE DEF more, ids
<1> QED
  BY <1>2, <1>4, <1>5 DEF PagesInv

LEMMA NoPageType == ASSUME IsFiniteSet(Events) PROVE NoPage \in Page
<1>1. Cardinality(Events) \in Nat /\ MaxWrites \in Nat
  BY FS_CardinalityType, PagesAssumption
<1>2. <<>> \in Seq(Events)
  OBVIOUS
<1>3. -1 \in -1..Cardinality(Events) /\ 0 \in 0..MaxWrites
  BY <1>1
<1> QED
  BY <1>2, <1>3 DEF NoPage, Page

LEMMA PagesTypeInit == ASSUME IsFiniteSet(Events) PROVE PagesInit => PagesInv
<1> SUFFICES ASSUME PagesInit PROVE PagesInv
  OBVIOUS
<1>1. page \in [Requests -> Page] /\ touched \in [Events -> 0..MaxWrites] /\ writes \in 0..MaxWrites
  BY NoPageType, PagesAssumption DEF PagesInit
<1>2. DOMAIN content = {} /\ DOMAIN entries = {}
  BY DEF PagesInit, Init
<1>3. walk.next = 0 /\ walk.seen = {} /\ walk.twice = {}
  BY DEF PagesInit, Start
<1> QED
  BY <1>1, <1>2, <1>3, PagesAssumption DEF PagesInit, PagesInv

\* Every step keeps the types: each response in the cache is a page, whoever stored it.
LEMMA PagesTypeNext ==
  ASSUME IsFiniteSet(Events), FreshInv, PagesInv, [PagesNext]_pageVars
  PROVE  PagesInv'
<1>0. MaxWrites \in Nat /\ writes \in 0..MaxWrites /\ Cardinality(Events) \in Nat
  BY FS_CardinalityType, PagesAssumption DEF PagesInv
<1>1. ASSUME NEW r \in Requests, NEW k \in Keys, PageHit(r, k)
      PROVE  PagesInv'
  <2>1. /\ DOMAIN entries' = DOMAIN entries /\ k \in DOMAIN entries
        /\ UNCHANGED <<rows, touched, writes, page, content>>
        /\ walk' = IF r = Walker THEN Shown(content[k], k) ELSE walk
    BY <1>1 DEF PageHit, LookupHits, Hit
  <2>2. content[k] \in Page
    BY <2>1 DEF PagesInv
  <2>3. /\ walk'.next \in Keys \cup {Over}
        /\ walk'.seen \subseteq Events /\ walk'.twice \subseteq walk'.seen
    BY <2>1, <2>2, ShownTypes DEF PagesInv
  <2> QED
    BY <2>1, <2>3 DEF PagesInv, Page
<1>2. ASSUME NEW r \in Requests, NEW k \in Keys, PageMiss(r, k)
      PROVE  PagesInv'
  <2>1. /\ DOMAIN entries' \subseteq DOMAIN entries
        /\ content' = [j \in DOMAIN entries' |-> content[j]]
        /\ UNCHANGED <<rows, touched, writes, page, walk>>
    BY <1>2 DEF PageMiss, LookupMisses, Without
  <2> QED
    BY <2>1 DEF PagesInv, Page
<1>3. ASSUME NEW r \in Requests, CountRows(r)
      PROVE  PagesInv'
  <2> DEFINE total == Cardinality(Matching(rows))
             new == [total |-> total, events |-> <<>>, counted |-> writes, read |-> writes]
  <2>1. /\ entries' = entries /\ UNCHANGED <<rows, touched, writes, content, walk>>
        /\ page' = [page EXCEPT ![r] = new]
    BY <1>3 DEF CountRows, Read, vars
  <2>2. total \in 0..Cardinality(Events)
    <3>1. Matching(rows) \subseteq Events
      BY DEF Matching
    <3> QED
      BY <1>0, <3>1, FS_Subset, FS_CardinalityType
  <2> HIDE DEF total
  <2>3. <<>> \in Seq(Events) /\ total \in -1..Cardinality(Events)
    BY <1>0, <2>2
  <2>4. new \in Page
    BY <1>0, <2>3 DEF Page
  <2> HIDE DEF new
  <2>5. page' \in [Requests -> Page]
    BY <2>1, <2>4 DEF PagesInv
  <2> QED
    BY <2>1, <2>5 DEF PagesInv, Page
<1>4. ASSUME NEW r \in Requests, ReadPage(r)
      PROVE  PagesInv'
  <2>1. PICK s \in Sorted(rows) :
          page' = [page EXCEPT ![r].events = Slice(s, key[r]), ![r].read = writes]
    BY <1>4 DEF ReadPage
  <2>2. entries' = entries /\ UNCHANGED <<rows, touched, writes, content, walk>>
    BY <1>4 DEF ReadPage, Read
  <2>3. Slice(s, key[r]) \in Seq(Events)
    BY <2>1, SortedIsList, SliceIsList, PagesAssumption DEF FreshInv
  <2>4. page[r] \in Page /\ page \in [Requests -> Page]
    BY DEF PagesInv
  <2>5. [page[r] EXCEPT !.events = Slice(s, key[r]), !.read = writes] \in Page
    BY <1>0, <2>3, <2>4 DEF Page
  <2>6. page' \in [Requests -> Page]
    BY <2>1, <2>4, <2>5
  <2> QED
    BY <2>2, <2>6 DEF PagesInv, Page
<1>5. ASSUME NEW r \in Requests, PageStored(r)
      PROVE  PagesInv'
  <2>1. /\ DOMAIN entries' \subseteq DOMAIN entries \cup {key[r]}
        /\ content' = [j \in DOMAIN entries' |-> IF j = key[r] THEN page[r] ELSE content[j]]
        /\ UNCHANGED <<rows, touched, writes>>
        /\ walk' = IF r = Walker THEN Shown(page[r], key[r]) ELSE walk
        /\ page' = [page EXCEPT ![r] = NoPage]
    BY <1>5 DEF PageStored, Store, Left
  <2>2. page[r] \in Page /\ key[r] \in Keys /\ NoPage \in Page
    BY NoPageType DEF PagesInv, FreshInv
  <2>3. /\ walk'.next \in Keys \cup {Over}
        /\ walk'.seen \subseteq Events /\ walk'.twice \subseteq walk'.seen
    BY <2>1, <2>2, ShownTypes DEF PagesInv
  <2>4. page' \in [Requests -> Page]
    BY <2>1, <2>2 DEF PagesInv
  <2>5. DOMAIN content' = DOMAIN entries' /\ \A k \in DOMAIN content' : content'[k] \in Page
    BY <2>1, <2>2 DEF PagesInv
  <2> QED
    BY <2>1, <2>3, <2>4, <2>5 DEF PagesInv, Page
<1>6. ASSUME NEW r \in Requests, PageFails(r)
      PROVE  PagesInv'
  <2>1. /\ entries' = entries /\ UNCHANGED <<rows, touched, writes, content, walk>>
        /\ page' = [page EXCEPT ![r] = NoPage]
    BY <1>6 DEF PageFails, Fail
  <2>2. page' \in [Requests -> Page]
    BY <2>1, NoPageType DEF PagesInv
  <2> QED
    BY <2>1, <2>2 DEF PagesInv, Page
<1>7. ASSUME NEW e \in Events, NEW row \in Row, WriteRow(e, row)
      PROVE  PagesInv'
  <2>1. /\ UNCHANGED <<entries, page, content, walk>>
        /\ rows' = [rows EXCEPT ![e] = row] /\ writes < MaxWrites /\ writes' = writes + 1
        /\ touched' = [touched EXCEPT ![e] = writes']
    BY <1>7 DEF WriteRow
  <2>2. writes' \in 0..MaxWrites
    BY <1>0, <2>1
  <2> QED
    BY <2>1, <2>2 DEF PagesInv, Page
<1>8. CASE PagesTick
  <2>1. /\ DOMAIN entries' = DOMAIN entries
        /\ UNCHANGED <<rows, touched, writes, page, content, walk>>
    BY <1>8 DEF PagesTick, Tick
  <2> QED
    BY <2>1 DEF PagesInv, Page
<1>9. CASE UNCHANGED pageVars
  BY <1>9 DEF pageVars, PagesInv, Page
<1> QED
  BY <1>1, <1>2, <1>3, <1>4, <1>5, <1>6, <1>7, <1>8, <1>9 DEF PagesNext

\* The type of the event list and of the cache under it. A client is only ever sent
\* to an offset that is a key of the cache.
THEOREM PagesTypeCorrect == ASSUME IsFiniteSet(Events) PROVE PagesSpec => []PagesTypeOK
<1> DEFINE Inv == FreshInv /\ ListInv /\ PagesInv
<1>1. Keys # {}
  BY PagesAssumption
<1>2. PagesInit => Inv
  BY <1>1, FreshInit, ListInit, PagesTypeInit DEF PagesInit
<1>3. Inv /\ [PagesNext]_pageVars => Inv'
  BY <1>1, FreshNext, ListNext, PagesTypeNext, PagesStepIsCacheStep
<1>4. Inv => PagesTypeOK
  <2>1. FreshInv /\ ListInv => TypeOK
    BY DEF FreshInv, ListInv, TypeOK
  <2> QED
    BY <2>1 DEF PagesInv, PagesTypeOK
<1> QED
  BY <1>2, <1>3, <1>4, PTL DEF PagesSpec

(***************************************************************************)
(* The walk. A history of the table explains every response; the rows that *)
(* the walk may miss or see twice are those that crossed the offset of a   *)
(* page between the readings of two pages, at most one for each write.     *)
(***************************************************************************)

\* The rows that come before a row, how many they are, and the rows with fewer than
\* n before them: the first n of the list.
Ahead(tbl, e) == {f \in Matching(tbl) : Before(tbl, f, e)}
Rank(tbl, e) == Cardinality(Ahead(tbl, e))
Top(tbl, n) == {e \in Matching(tbl) : Rank(tbl, e) < n}

\* Of a finite set, a part of two parts has no more elements than the two.
LEMMA PartSize ==
  ASSUME IsFiniteSet(Events), NEW A, NEW B, NEW C,
         B \subseteq Events, C \subseteq Events, A \subseteq B \cup C
  PROVE  /\ IsFiniteSet(A) /\ IsFiniteSet(B) /\ IsFiniteSet(C)
         /\ Cardinality(A) \in Nat /\ Cardinality(B) \in Nat /\ Cardinality(C) \in Nat
         /\ Cardinality(A) <= Cardinality(B) + Cardinality(C)
<1>1. IsFiniteSet(B) /\ IsFiniteSet(C) /\ IsFiniteSet(B \cap C) /\ IsFiniteSet(B \cup C)
  BY FS_Subset, FS_Union, FS_Intersection
<1>2. IsFiniteSet(A) /\ Cardinality(A) <= Cardinality(B \cup C)
  BY <1>1, FS_Subset
<1>3. Cardinality(B \cup C) = Cardinality(B) + Cardinality(C) - Cardinality(B \cap C)
  BY <1>1, FS_Union
<1>4. /\ Cardinality(A) \in Nat /\ Cardinality(B) \in Nat /\ Cardinality(C) \in Nat
      /\ Cardinality(B \cap C) \in Nat
  BY <1>1, <1>2, FS_CardinalityType
<1> QED
  BY <1>1, <1>2, <1>3, <1>4

\* The id makes the order of ListEvents total: of two rows one comes before.
LEMMA BeforeOrders ==
  ASSUME NEW tbl \in [Events -> Row]
  PROVE  /\ \A e \in Events : ~ Before(tbl, e, e)
         /\ \A e, f \in Events : e # f => Before(tbl, e, f) \/ Before(tbl, f, e)
         /\ \A e, f \in Events : ~ (Before(tbl, e, f) /\ Before(tbl, f, e))
         /\ \A e, f, g \in Events : Before(tbl, e, f) /\ Before(tbl, f, g) => Before(tbl, e, g)
<1>1. \A e \in Events : e \in Nat /\ tbl[e].date \in Nat
  BY PagesAssumption DEF Row
<1> QED
  BY <1>1 DEF Before

LEMMA RankType ==
  ASSUME IsFiniteSet(Events), NEW tbl, NEW e
  PROVE  /\ Ahead(tbl, e) \subseteq Events /\ IsFiniteSet(Ahead(tbl, e))
         /\ Rank(tbl, e) \in Nat
<1>1. Ahead(tbl, e) \subseteq Events
  BY DEF Ahead, Matching
<1> QED
  BY <1>1, FS_Subset, FS_CardinalityType DEF Rank

\* No two rows stand at one place of the list, and each has a place in it.
LEMMA RanksDiffer ==
  ASSUME IsFiniteSet(Events), NEW tbl \in [Events -> Row]
  PROVE  /\ \A e, f \in Matching(tbl) : Before(tbl, e, f) => Rank(tbl, e) < Rank(tbl, f)
         /\ \A e, f \in Matching(tbl) : Rank(tbl, e) = Rank(tbl, f) => e = f
         /\ \A e \in Matching(tbl) : Rank(tbl, e) < Cardinality(Matching(tbl))
<1>1. Matching(tbl) \subseteq Events /\ IsFiniteSet(Matching(tbl))
  BY FS_Subset DEF Matching
<1>2. ASSUME NEW e \in Matching(tbl), NEW S, S \subseteq Events, Ahead(tbl, e) \subseteq S, e \in S
      PROVE  Rank(tbl, e) < Cardinality(S)
  <2>1. e \notin Ahead(tbl, e)
    BY <1>1, BeforeOrders DEF Ahead
  <2>2. /\ IsFiniteSet(Ahead(tbl, e) \cup {e})
        /\ Cardinality(Ahead(tbl, e) \cup {e}) = Rank(tbl, e) + 1
    BY <2>1, RankType, FS_AddElement DEF Rank
  <2>3. IsFiniteSet(S)
    BY <1>2, FS_Subset
  <2>4. Cardinality(Ahead(tbl, e) \cup {e}) <= Cardinality(S)
    BY <1>2, <2>3, FS_Subset
  <2>5. Cardinality(S) \in Nat /\ Rank(tbl, e) \in Nat
    BY <2>3, RankType, FS_CardinalityType
  <2> QED
    BY <2>2, <2>4, <2>5
<1>3. ASSUME NEW e \in Matching(tbl), NEW f \in Matching(tbl), Before(tbl, e, f)
      PROVE  Rank(tbl, e) < Rank(tbl, f)
  <2>1. Ahead(tbl, e) \subseteq Ahead(tbl, f) /\ e \in Ahead(tbl, f)
    BY <1>1, <1>3, BeforeOrders DEF Ahead
  <2>2. Ahead(tbl, f) \subseteq Events
    BY RankType
  <2> QED
    BY <1>2, <2>1, <2>2 DEF Rank
<1>4. ASSUME NEW e \in Matching(tbl), NEW f \in Matching(tbl), Rank(tbl, e) = Rank(tbl, f), e # f
      PROVE  FALSE
  <2>1. Before(tbl, e, f) \/ Before(tbl, f, e)
    BY <1>1, <1>4, BeforeOrders
  <2>2. Rank(tbl, e) \in Nat /\ Rank(tbl, f) \in Nat
    BY RankType
  <2> QED
    BY <1>3, <1>4, <2>1, <2>2
<1>5. ASSUME NEW e \in Matching(tbl) PROVE Rank(tbl, e) < Cardinality(Matching(tbl))
  <2>1. Ahead(tbl, e) \subseteq Matching(tbl)
    BY DEF Ahead
  <2> QED
    BY <1>1, <1>2, <2>1
<1> QED
  BY <1>3, <1>4, <1>5

\* One write brings at most one other row into the first n.
LEMMA OneWrite ==
  ASSUME IsFiniteSet(Events), NEW t \in [Events -> Row], NEW u \in [Events -> Row],
         NEW w \in Events, \A f \in Events : f # w => t[f] = u[f], NEW n \in Nat
  PROVE  Cardinality((Top(t, n) \ Top(u, n)) \ {w}) <= 1
<1> DEFINE moved == (Top(t, n) \ Top(u, n)) \ {w}
<1>1. Matching(t) \subseteq Events /\ Matching(u) \subseteq Events
  BY DEF Matching
<1>2. ASSUME NEW f \in moved PROVE f \in Matching(u) /\ Rank(u, f) = n
  <2>1. f \in Events /\ f # w /\ f \in Matching(t) /\ Rank(t, f) < n /\ f \notin Top(u, n)
    BY <1>1 DEF Top
  <2>2. f \in Matching(u)
    BY <2>1 DEF Matching
  <2>3. ~ (Rank(u, f) < n)
    BY <2>1, <2>2 DEF Top
  <2>4. Ahead(u, f) \subseteq Ahead(t, f) \cup {w}
    <3> SUFFICES ASSUME NEW g \in Ahead(u, f), g # w PROVE g \in Ahead(t, f)
      OBVIOUS
    <3>1. g \in Events /\ t[g] = u[g] /\ t[f] = u[f]
      BY <1>1, <2>1 DEF Ahead
    <3> QED
      BY <3>1 DEF Ahead, Matching, Before
  <2>5. Cardinality(Ahead(u, f)) <= Cardinality(Ahead(t, f)) + Cardinality({w})
    BY <2>4, RankType, PartSize
  <2>6. Cardinality({w}) = 1
    BY FS_Singleton
  <2>7. Rank(u, f) \in Nat /\ Rank(t, f) \in Nat
    BY RankType
  <2> QED
    BY <2>1, <2>2, <2>3, <2>5, <2>6, <2>7 DEF Rank
<1> HIDE DEF moved
<1>3. CASE moved = {}
  BY <1>3, FS_EmptySet DEF moved
<1>4. CASE moved # {}
  <2>1. PICK f : f \in moved
    BY <1>4
  <2>2. \A g \in moved : g = f
    BY <1>2, <2>1, RanksDiffer
  <2>3. moved = {f}
    BY <2>1, <2>2
  <2> QED
    BY <2>3, FS_Singleton DEF moved
<1> QED
  BY <1>3, <1>4

\* What ORDER BY returns: a row's place in the list is its rank, and every row has one.
LEMMA ListRanks ==
  ASSUME IsFiniteSet(Events), NEW tbl \in [Events -> Row], NEW s \in Sorted(tbl)
  PROVE  /\ \A i \in 1..Len(s) : s[i] \in Matching(tbl) /\ Rank(tbl, s[i]) = i - 1
         /\ \A e \in Matching(tbl) : \E i \in 1..Len(s) : s[i] = e
<1>1. /\ s \in Seq(Events) /\ NoRepeats(s) /\ Len(s) = Cardinality(Matching(tbl))
      /\ \A i \in 1..Len(s) : s[i] \in Matching(tbl)
  BY SortedIsList
<1>2. Matching(tbl) \subseteq Events /\ IsFiniteSet(Matching(tbl))
  BY FS_Subset DEF Matching
<1>3. Len(s) \in Nat /\ DOMAIN s = 1..Len(s)
  BY <1>1, LenProperties
<1>4. ToSet(s) = {s[i] : i \in 1..Len(s)}
  BY <1>3 DEF ToSet
<1>5. ToSet(s) = Matching(tbl)
  <2>1. IsFiniteSet(ToSet(s)) /\ Cardinality(ToSet(s)) = Len(s)
    BY <1>1, LengthIsSize
  <2>2. ToSet(s) \subseteq Matching(tbl)
    BY <1>1, <1>4
  <2> QED
    BY <1>1, <1>2, <2>1, <2>2, FS_Subset
<1>6. \A i, j \in 1..Len(s) : Before(tbl, s[i], s[j]) <=> i < j
  <2> SUFFICES ASSUME NEW i \in 1..Len(s), NEW j \in 1..Len(s)
               PROVE  Before(tbl, s[i], s[j]) <=> i < j
    OBVIOUS
  <2>1. Before(tbl, s[i], s[j]) => i < j
    BY <1>3 DEF Sorted
  <2>2. Before(tbl, s[j], s[i]) => j < i
    BY <1>3 DEF Sorted
  <2>3. i # j => s[i] # s[j]
    BY <1>1 DEF NoRepeats
  <2>4. s[i] \in Events /\ s[j] \in Events
    BY <1>1, <1>2
  <2>5. s[i] # s[j] => Before(tbl, s[i], s[j]) \/ Before(tbl, s[j], s[i])
    BY <2>4, BeforeOrders
  <2> QED
    BY <2>1, <2>2, <2>3, <2>5
<1>7. ASSUME NEW i \in 1..Len(s) PROVE Rank(tbl, s[i]) = i - 1
  <2> DEFINE g == [j \in 1..(i - 1) |-> s[j]]
  <2>1. Ahead(tbl, s[i]) = {s[j] : j \in 1..(i - 1)}
    <3>1. ASSUME NEW f \in Ahead(tbl, s[i]) PROVE f \in {s[j] : j \in 1..(i - 1)}
      <4>1. f \in Matching(tbl) /\ Before(tbl, f, s[i])
        BY <3>1 DEF Ahead
      <4>2. PICK j \in 1..Len(s) : s[j] = f
        BY <1>4, <1>5, <4>1
      <4>3. j < i
        BY <1>6, <4>1, <4>2
      <4>4. j \in 1..(i - 1)
        BY <4>2, <4>3
      <4> QED
        BY <4>2, <4>4
    <3>2. ASSUME NEW j \in 1..(i - 1) PROVE s[j] \in Ahead(tbl, s[i])
      <4>1. j \in 1..Len(s) /\ j < i
        BY <1>3
      <4> QED
        BY <1>1, <1>6, <4>1 DEF Ahead
    <3> QED
      BY <3>1, <3>2
  <2>2. g \in Bijection(1..(i - 1), Ahead(tbl, s[i]))
    <3>1. \A j, l \in 1..(i - 1) : j # l => s[j] # s[l]
      BY <1>1, <1>3 DEF NoRepeats
    <3>2. g \in [1..(i - 1) -> Ahead(tbl, s[i])]
      BY <2>1
    <3>3. \A j, l \in 1..(i - 1) : g[j] = g[l] => j = l
      BY <3>1
    <3>4. \A f \in Ahead(tbl, s[i]) : \E j \in 1..(i - 1) : g[j] = f
      BY <2>1
    <3> HIDE DEF g
    <3> QED
      BY <3>2, <3>3, <3>4 DEF Bijection, Injection, Surjection, IsInjective
  <2>3. ExistsBijection(1..(i - 1), Ahead(tbl, s[i]))
    BY <2>2 DEF ExistsBijection
  <2>4. IsFiniteSet(1..(i - 1)) /\ Cardinality(1..(i - 1)) = i - 1
    <3>1. i - 1 \in Int /\ 1 \in Int /\ i >= 1
      OBVIOUS
    <3> DEFINE n == i - 1
    <3>2. n \in Int /\ n >= 0
      BY <3>1
    <3> HIDE DEF n
    <3>3. IsFiniteSet(1..n) /\ Cardinality(1..n) = n
      BY <3>2, FS_Interval
    <3> QED
      BY <3>3 DEF n
  <2>5. Cardinality(Ahead(tbl, s[i])) = Cardinality(1..(i - 1))
    BY <2>3, <2>4, FS_Bijection
  <2> QED
    BY <2>4, <2>5 DEF Rank
<1> QED
  BY <1>1, <1>4, <1>5, <1>7

\* A page of the list holds the rows with the ranks that LIMIT and OFFSET name.
LEMMA SliceIsBetween ==
  ASSUME IsFiniteSet(Events), NEW tbl \in [Events -> Row], NEW s \in Sorted(tbl),
         NEW k \in Nat
  PROVE  LET p == Slice(s, k) IN
         /\ ToSet(p) = Top(tbl, k + PageSize) \ Top(tbl, k)
         /\ Len(p) \in 0..PageSize
         /\ Len(p) < PageSize => Matching(tbl) \subseteq Top(tbl, k + PageSize)
<1> DEFINE p == Slice(s, k)
           end == IF k + PageSize < Len(s) THEN k + PageSize ELSE Len(s)
<1>1. s \in Seq(Events) /\ Len(s) \in Nat /\ \A i \in 1..Len(s) : s[i] \in Events
  <2>1. s \in Seq(Events)
    BY SortedIsList
  <2> QED
    BY <2>1, LenProperties, ElementOfSeq
<1>2. PageSize \in Nat /\ PageSize > 0
  BY PagesAssumption
<1>3. end \in Nat /\ end <= Len(s) /\ end <= k + PageSize
      /\ (end < k + PageSize => end = Len(s))
  BY <1>1, <1>2
<1>4. p = SubSeq(s, k + 1, end)
  BY DEF Slice
<1> HIDE DEF end, p
<1>5. \A i \in k + 1..end : s[i] \in Events
  BY <1>1, <1>3
<1>6. /\ p \in Seq(Events) /\ Len(p) = IF k + 1 <= end THEN end - (k + 1) + 1 ELSE 0
      /\ \A i \in 1..end - (k + 1) + 1 : p[i] = s[k + 1 + i - 1]
  BY <1>3, <1>4, <1>5, SubSeqProperties
<1>7. /\ Len(p) = IF k + 1 <= end THEN end - k ELSE 0
      /\ \A i \in 1..Len(p) : p[i] = s[k + i] /\ k + i \in 1..Len(s)
  BY <1>3, <1>6
<1>8. DOMAIN p = 1..Len(p) /\ Len(p) \in Nat
  BY <1>6, LenProperties
<1>9. /\ \A i \in 1..Len(s) : s[i] \in Matching(tbl) /\ Rank(tbl, s[i]) = i - 1
      /\ \A e \in Matching(tbl) : \E i \in 1..Len(s) : s[i] = e
  BY ListRanks
<1>10. ToSet(p) = {p[i] : i \in 1..Len(p)}
  BY <1>8 DEF ToSet
<1>11. ASSUME NEW e \in ToSet(p) PROVE e \in Top(tbl, k + PageSize) \ Top(tbl, k)
  <2>1. PICK i \in 1..Len(p) : e = s[k + i] /\ k + i \in 1..Len(s)
    BY <1>7, <1>10
  <2>2. e \in Matching(tbl) /\ Rank(tbl, e) = k + i - 1
    BY <1>9, <2>1
  <2>3. k <= k + i - 1 /\ k + i - 1 < k + PageSize
    BY <1>2, <1>3, <1>7, <2>1
  <2> QED
    BY <2>2, <2>3 DEF Top
<1>12. ASSUME NEW e \in Top(tbl, k + PageSize), e \notin Top(tbl, k) PROVE e \in ToSet(p)
  <2>1. e \in Matching(tbl) /\ Rank(tbl, e) < k + PageSize /\ ~ (Rank(tbl, e) < k)
    BY <1>12 DEF Top
  <2>2. PICK i \in 1..Len(s) : s[i] = e /\ Rank(tbl, e) = i - 1
    BY <1>9, <2>1
  <2>3. i - k \in 1..Len(p) /\ k + (i - k) = i
    BY <1>1, <1>2, <1>3, <1>7, <2>1, <2>2
  <2>4. p[i - k] = s[k + (i - k)]
    BY <1>7, <2>3
  <2> QED
    BY <1>10, <2>2, <2>3, <2>4
<1>13. Len(p) \in 0..PageSize
  BY <1>2, <1>3, <1>7
<1>14. ASSUME Len(p) < PageSize, NEW e \in Matching(tbl) PROVE e \in Top(tbl, k + PageSize)
  <2>1. PICK i \in 1..Len(s) : s[i] = e /\ Rank(tbl, e) = i - 1
    BY <1>9, <1>14
  <2>2. Len(s) <= k + PageSize
    BY <1>1, <1>2, <1>3, <1>7, <1>14
  <2>3. Rank(tbl, e) < k + PageSize
    BY <1>1, <1>2, <2>1, <2>2
  <2> QED
    BY <2>3 DEF Top
<1> QED
  BY <1>11, <1>12, <1>13, <1>14 DEF p

Untouched(n) == {e \in Events : touched[e] <= n}

\* h is a history of the table: it ends in the present one, and holds every row as
\* it has been since it was last touched. Between two of its tables the first k rows
\* have exchanged no more of the untouched ones than writes came between.
HistoryInv(h) ==
  /\ h \in [0..MaxWrites -> [Events -> Row]] /\ h[writes] = rows
  /\ \A m \in 0..writes : \A e \in Untouched(m) : h[m][e] = rows[e]
  /\ \A m, n \in 0..writes : \A k \in Nat :
       Cardinality((Top(h[m], k) \ Top(h[n], k)) \cap Untouched(Least(m, n))) <= Distance(m, n)

\* The total of p was counted in one table of the history, after at most w writes.
Counted(h, w, p) == p.counted \in 0..w /\ p.total = Cardinality(Matching(h[p.counted]))

\* And its rows, those of offset k, were read in the same table or a later one.
Made(h, w, p, k) ==
  /\ Counted(h, w, p) /\ p.read \in p.counted..w
  /\ ToSet(p.events) = Top(h[p.read], k + PageSize) \ Top(h[p.read], k)
  /\ Len(p.events) < PageSize => Matching(h[p.read]) \subseteq Top(h[p.read], k + PageSize)
  /\ Len(p.events) <= PageSize

ResponsesMade(h) ==
  /\ \A k \in DOMAIN content : Made(h, writes, content[k], k)
  /\ \A r \in Requests :
       /\ pc[r] = "idle" => page[r] = NoPage
       /\ pc[r] = "miss" /\ page[r] # NoPage => Counted(h, writes, page[r])
       /\ pc[r] = "read" => Made(h, writes, page[r], key[r])
  /\ pc[Walker] # "idle" => key[Walker] = walk.next

\* The rows before the offset of the next page, when the last page was read.
Passed(h) == IF walk.last = None THEN {} ELSE Top(h[walk.last], walk.next)

\* In the middle of the walk: the rows that have slipped in front of it unseen, and
\* those that it saw twice or may see again.
Behind(h) ==
  /\ Cardinality((Stable \cap Passed(h)) \ walk.seen) <= walk.drift
  /\ Cardinality(Stable \cap (walk.twice \cup (walk.seen \ Passed(h)))) <= walk.drift

WalkedInv(h) ==
  /\ walk.drift \in Nat /\ walk.first \in 0..MaxWrites
  /\ IF walk.last = None THEN walk = Start ELSE walk.last \in walk.first..writes
  /\ IF walk.next = Over THEN WalkBound ELSE Behind(h)

\* A history that goes on keeps what was made of it.
LEMMA MadeLater ==
  ASSUME NEW w \in Nat, NEW v \in Nat, w <= v, NEW h, NEW g, \A m \in 0..w : g[m] = h[m],
         NEW p, NEW k
  PROVE  (Counted(h, w, p) => Counted(g, v, p)) /\ (Made(h, w, p, k) => Made(g, v, p, k))
<1>1. ASSUME Counted(h, w, p) PROVE Counted(g, v, p)
  BY <1>1 DEF Counted
<1>2. ASSUME Made(h, w, p, k) PROVE Made(g, v, p, k)
  <2>1. Counted(h, w, p) /\ p.read \in p.counted..w
    BY <1>2 DEF Made
  <2>2. p.read \in 0..w /\ p.read \in p.counted..v
    BY <2>1 DEF Counted
  <2>3. g[p.read] = h[p.read]
    BY <2>2
  <2>4. Counted(g, v, p)
    BY <1>1, <2>1
  <2> QED
    BY <1>2, <2>2, <2>3, <2>4 DEF Made
<1> QED
  BY <1>1, <1>2

\* A write adds a table to the history, and moves one other row at most across any place.
LEMMA HistoryGoesOn ==
  ASSUME IsFiniteSet(Events), PagesInv, NEW h, HistoryInv(h),
         NEW w \in Events, NEW row \in Row, WriteRow(w, row),
         NEW g, g = [h EXCEPT ![writes'] = rows']
  PROVE  HistoryInv(g)'
<1> DEFINE last == writes
           new == rows'
           since(n) == {e \in Events : touched'[e] <= n}
<1>1. /\ rows \in [Events -> Row] /\ touched \in [Events -> 0..MaxWrites] /\ last \in 0..MaxWrites
      /\ MaxWrites \in Nat
  BY PagesAssumption DEF PagesInv
<1>2. /\ last < MaxWrites /\ writes' = last + 1 /\ new = [rows EXCEPT ![w] = row]
      /\ touched' = [touched EXCEPT ![w] = last + 1]
  BY DEF WriteRow
<1>3. /\ new \in [Events -> Row] /\ new[w] = row
      /\ \A e \in Events : e # w => new[e] = rows[e] /\ touched'[e] = touched[e]
      /\ touched'[w] = last + 1
  BY <1>1, <1>2
<1>4. h \in [0..MaxWrites -> [Events -> Row]] /\ h[last] = rows
  BY DEF HistoryInv
<1>5. /\ g \in [0..MaxWrites -> [Events -> Row]] /\ g[last + 1] = new
      /\ \A m \in 0..last : g[m] = h[m]
  BY <1>1, <1>2, <1>3, <1>4
<1> HIDE DEF new
<1>6. \A n \in 0..last : since(n) \subseteq Untouched(n) /\ w \notin since(n)
  <2> SUFFICES ASSUME NEW n \in 0..last, NEW e \in since(n) PROVE e \in Untouched(n) /\ e # w
    OBVIOUS
  <2>1. e # w
    BY <1>1, <1>3
  <2> QED
    BY <1>3, <2>1 DEF Untouched
<1>7. ASSUME NEW m \in 0..last + 1, NEW e \in since(m) PROVE g[m][e] = new[e]
  <2>1. CASE m = last + 1
    BY <1>5, <2>1
  <2>2. CASE m # last + 1
    <3>1. m \in 0..last
      BY <1>1, <2>2
    <3>2. e \in Untouched(m) /\ e # w
      BY <1>6, <1>7, <3>1
    <3> QED
      BY <1>3, <1>5, <3>1, <3>2 DEF HistoryInv
  <2> QED
    BY <2>1, <2>2
<1>8. \A t, n, k : Top(t, k) \subseteq Events /\ since(n) \subseteq Events
  BY DEF Top, Matching
<1> DEFINE between(a, b, k, n) == (Top(a, k) \ Top(b, k)) \cap since(n)
<1>9. ASSUME NEW m \in 0..last, NEW n \in 0..last, NEW k \in Nat
      PROVE  Cardinality(between(g[m], g[n], k, Least(m, n))) <= Distance(m, n)
  <2> DEFINE old == (Top(h[m], k) \ Top(h[n], k)) \cap Untouched(Least(m, n))
  <2>1. Least(m, n) \in 0..last
    BY DEF Least
  <2>2. between(g[m], g[n], k, Least(m, n)) \subseteq old
    BY <1>5, <1>6, <2>1
  <2>3. old \subseteq Events
    BY <1>8
  <2>4. Cardinality(old) <= Distance(m, n)
    BY DEF HistoryInv
  <2>5. IsFiniteSet(old) /\ Cardinality(old) \in Nat /\ Distance(m, n) \in Int
    BY <2>3, FS_Subset, FS_CardinalityType DEF Distance
  <2> HIDE DEF old, between
  <2>6. Cardinality(between(g[m], g[n], k, Least(m, n))) <= Cardinality(old)
        /\ Cardinality(between(g[m], g[n], k, Least(m, n))) \in Nat
    BY <2>2, <2>5, FS_Subset, FS_CardinalityType
  <2> QED
    BY <2>4, <2>5, <2>6
<1>10. ASSUME NEW n \in 0..last, NEW k \in Nat
       PROVE  /\ Cardinality(between(new, h[n], k, n)) <= last + 1 - n
              /\ Cardinality(between(h[n], new, k, n)) <= last + 1 - n
  <2> DEFINE in == (Top(h[last], k) \ Top(h[n], k)) \cap Untouched(n)
             out == (Top(h[n], k) \ Top(h[last], k)) \cap Untouched(n)
             came == (Top(new, k) \ Top(rows, k)) \ {w}
             went == (Top(rows, k) \ Top(new, k)) \ {w}
  <2>1. Cardinality(came) <= 1 /\ Cardinality(went) <= 1
    <3>1. \A e \in Events : e # w => new[e] = rows[e] /\ rows[e] = new[e]
      BY <1>3
    <3> QED
      BY <1>1, <1>3, <3>1, OneWrite
  <2>2. Cardinality(in) <= last - n /\ Cardinality(out) <= last - n
    <3>1. last \in 0..last /\ Least(last, n) = n /\ Least(n, last) = n
          /\ Distance(last, n) = last - n /\ Distance(n, last) = last - n
      BY <1>1 DEF Least, Distance
    <3> QED
      BY <3>1 DEF HistoryInv
  <2>3. between(new, h[n], k, n) \subseteq came \cup in /\ between(h[n], new, k, n) \subseteq went \cup out
    BY <1>4, <1>6
  <2>4. in \subseteq Events /\ out \subseteq Events /\ came \subseteq Events /\ went \subseteq Events
    BY <1>8
  <2> HIDE DEF in, out, came, went, between
  <2>5. /\ Cardinality(between(new, h[n], k, n)) <= Cardinality(came) + Cardinality(in)
        /\ Cardinality(between(new, h[n], k, n)) \in Nat
        /\ Cardinality(came) \in Nat /\ Cardinality(in) \in Nat
    BY <2>3, <2>4, PartSize
  <2>6. /\ Cardinality(between(h[n], new, k, n)) <= Cardinality(went) + Cardinality(out)
        /\ Cardinality(between(h[n], new, k, n)) \in Nat
        /\ Cardinality(went) \in Nat /\ Cardinality(out) \in Nat
    BY <2>3, <2>4, PartSize
  <2> QED
    BY <1>1, <2>1, <2>2, <2>5, <2>6
<1>11. ASSUME NEW m \in 0..last + 1, NEW n \in 0..last + 1, NEW k \in Nat
       PROVE  Cardinality(between(g[m], g[n], k, Least(m, n))) <= Distance(m, n)
  <2>1. CASE m \in 0..last /\ n \in 0..last
    BY <1>9, <2>1
  <2>2. CASE m = last + 1 /\ n \in 0..last
    <3>1. Least(m, n) = n /\ Distance(m, n) = last + 1 - n
      BY <1>1, <2>2 DEF Least, Distance
    <3>2. g[m] = new /\ g[n] = h[n]
      BY <1>5, <2>2
    <3> HIDE DEF between
    <3> QED
      BY <1>10, <2>2, <3>1, <3>2
  <2>3. CASE n = last + 1 /\ m \in 0..last
    <3>1. Least(m, n) = m /\ Distance(m, n) = last + 1 - m
      BY <1>1, <2>3 DEF Least, Distance
    <3>2. g[n] = new /\ g[m] = h[m]
      BY <1>5, <2>3
    <3> HIDE DEF between
    <3> QED
      BY <1>10, <2>3, <3>1, <3>2
  <2>4. CASE m = last + 1 /\ n = last + 1
    <3>1. between(g[m], g[n], k, Least(m, n)) = {}
      BY <2>4
    <3>2. Distance(m, n) = 0
      BY <1>1, <2>4 DEF Distance
    <3> QED
      BY <3>1, <3>2, FS_EmptySet
  <2> QED
    BY <1>1, <2>1, <2>2, <2>3, <2>4
<1> QED
  BY <1>2, <1>5, <1>7, <1>11 DEF HistoryInv, Untouched, new

LEMMA WalkOutlivesWrite ==
  ASSUME IsFiniteSet(Events), PagesInv, NEW h, HistoryInv(h), WalkedInv(h),
         NEW w \in Events, NEW row \in Row, WriteRow(w, row),
         NEW g, g = [h EXCEPT ![writes'] = rows']
  PROVE  WalkedInv(g)'
<1>1. /\ touched \in [Events -> 0..MaxWrites] /\ writes \in 0..MaxWrites /\ MaxWrites \in Nat
      /\ rows \in [Events -> Row] /\ walk.seen \subseteq Events /\ walk.twice \subseteq walk.seen
  BY PagesAssumption DEF PagesInv
<1>2. /\ writes' = writes + 1 /\ touched' = [touched EXCEPT ![w] = writes + 1]
      /\ rows' = [rows EXCEPT ![w] = row] /\ walk' = walk
  BY DEF WriteRow
<1>3. h \in [0..MaxWrites -> [Events -> Row]]
  BY DEF HistoryInv
<1>4. \A m \in 0..writes : g[m] = h[m]
  BY <1>1, <1>2, <1>3
<1>5. walk.drift \in Nat /\ walk.first \in 0..MaxWrites
  BY DEF WalkedInv
<1>6. CASE walk.last = None
  <2>1. walk = Start
    BY <1>6 DEF WalkedInv
  <2>2. walk.next = 0 /\ walk.seen = {} /\ walk.twice = {} /\ walk.drift = 0
    BY <2>1 DEF Start
  <2>3. Passed(g)' = {}
    BY <1>2, <1>6 DEF Passed
  <2>4. /\ (Stable' \cap Passed(g)') \ walk'.seen = {}
        /\ Stable' \cap (walk'.twice \cup (walk'.seen \ Passed(g)')) = {}
    BY <1>2, <2>2, <2>3
  <2>5. Behind(g)'
    <3>1. /\ Cardinality((Stable' \cap Passed(g)') \ walk'.seen) = 0
          /\ Cardinality(Stable' \cap (walk'.twice \cup (walk'.seen \ Passed(g)'))) = 0
      BY <2>4, FS_EmptySet
    <3>2. walk'.drift = 0
      BY <1>2, <2>2
    <3> QED
      BY <3>1, <3>2 DEF Behind
  <2>6. walk'.next # Over
    BY <1>2, <2>2 DEF Over
  <2> QED
    BY <1>2, <1>5, <1>6, <2>1, <2>5, <2>6 DEF WalkedInv, Start
<1>7. CASE walk.last # None
  <2>1. walk.last \in walk.first..writes /\ walk.last \in 0..writes /\ walk.last \in walk.first..writes + 1
    BY <1>1, <1>5, <1>7 DEF WalkedInv
  <2>2. Stable' \subseteq Stable /\ Stable \subseteq Events
    <3> SUFFICES ASSUME NEW e \in Stable' PROVE e \in Stable
      BY DEF Stable
    <3>1. e \in Events /\ rows'[e].in /\ touched'[e] <= walk.first
      BY <1>2 DEF Stable
    <3>2. e # w
      BY <1>1, <1>2, <1>5, <2>1, <3>1
    <3> QED
      BY <1>1, <1>2, <3>1, <3>2 DEF Stable
  <2>3. Passed(g)' = Passed(h)
    <3>1. g[walk.last] = h[walk.last]
      BY <1>4, <2>1
    <3> QED
      BY <1>2, <1>7, <3>1 DEF Passed
  <2>4. ASSUME NEW X, NEW Y, X \subseteq Y, Y \subseteq Events, Cardinality(Y) <= walk.drift
        PROVE  Cardinality(X) <= walk.drift
    <3>1. IsFiniteSet(Y) /\ Cardinality(Y) \in Nat
      BY <2>4, FS_Subset, FS_CardinalityType
    <3>2. Cardinality(X) <= Cardinality(Y) /\ Cardinality(X) \in Nat
      BY <2>4, <3>1, FS_Subset, FS_CardinalityType
    <3> QED
      BY <1>5, <2>4, <3>1, <3>2
  <2>5. CASE walk.next = Over
    <3>1. WalkBound
      BY <2>5 DEF WalkedInv
    <3>2. Cardinality(Stable \ walk.seen) <= walk.drift /\ Cardinality(Stable \cap walk.twice) <= walk.drift
      BY <2>5, <3>1 DEF WalkBound
    <3>3. Cardinality(Stable' \ walk.seen) <= walk.drift
      <4>1. Stable' \ walk.seen \subseteq Stable \ walk.seen /\ Stable \ walk.seen \subseteq Events
        BY <2>2
      <4> QED
        BY <2>4, <3>2, <4>1
    <3>4. Cardinality(Stable' \cap walk.twice) <= walk.drift
      <4>1. Stable' \cap walk.twice \subseteq Stable \cap walk.twice
            /\ Stable \cap walk.twice \subseteq Events
        BY <2>2
      <4> QED
        BY <2>4, <3>2, <4>1
    <3>5. WalkBound'
      BY <1>2, <3>3, <3>4 DEF WalkBound
    <3> QED
      BY <1>2, <1>5, <1>7, <2>1, <2>5, <3>5 DEF WalkedInv
  <2>6. CASE walk.next # Over
    <3> DEFINE slipped(S) == (S \cap Passed(h)) \ walk.seen
               again(S) == S \cap (walk.twice \cup (walk.seen \ Passed(h)))
    <3>1. Cardinality(slipped(Stable)) <= walk.drift /\ Cardinality(again(Stable)) <= walk.drift
      BY <2>6 DEF WalkedInv, Behind
    <3>2. /\ slipped(Stable') \subseteq slipped(Stable) /\ slipped(Stable) \subseteq Events
          /\ again(Stable') \subseteq again(Stable) /\ again(Stable) \subseteq Events
      BY <2>2
    <3>3. Cardinality(slipped(Stable')) <= walk.drift /\ Cardinality(again(Stable')) <= walk.drift
      <4> HIDE DEF slipped, again
      <4> QED
        BY <2>4, <3>1, <3>2
    <3>4. Behind(g)'
      BY <1>2, <2>3, <3>3 DEF Behind
    <3> QED
      BY <1>2, <1>5, <1>7, <2>1, <2>6, <3>4 DEF WalkedInv
  <2> QED
    BY <2>5, <2>6
<1> QED
  BY <1>6, <1>7

\* One more page: what slipped past its offset, in either direction, since the page
\* before was read, and, on the last page, past its end since the rows were counted,
\* is added to what is missed or seen twice, and so are as many writes.
LEMMA ShownKeeps ==
  ASSUME IsFiniteSet(Events), PagesInv, NEW h, HistoryInv(h), WalkedInv(h),
         NEW k \in Keys, walk.next = k, NEW resp \in Page, Made(h, writes, resp, k),
         walk' = Shown(resp, k), UNCHANGED <<rows, touched, writes>>
  PROVE  WalkedInv(h)'
<1> DEFINE c == resp.counted
           d == resp.read
           P == PageSize
           ids == ToSet(resp.events)
           gap == IF walk.last = None THEN 0 ELSE Distance(walk.last, d)
           drift == walk.drift + (d - c) + gap
           first == Least(walk.first, c)
           more == resp.total > P /\ ids # {} /\ k + Len(resp.events) < resp.total
           seen == walk.seen \cup ids
           twice == walk.twice \cup (ids \cap walk.seen)
           S == {e \in Events : rows[e].in /\ touched[e] <= first}
           before == Top(h[d], k)
           after == Top(h[d], k + P)
           passed == Passed(h)
<1>1. /\ touched \in [Events -> 0..MaxWrites] /\ writes \in 0..MaxWrites /\ MaxWrites \in Nat
      /\ rows \in [Events -> Row] /\ walk.seen \subseteq Events /\ walk.twice \subseteq walk.seen
      /\ k \in Nat /\ P \in Nat /\ P > 0
  BY PagesAssumption DEF PagesInv
<1>2. c \in 0..writes /\ d \in c..writes /\ d \in 0..writes
  BY <1>1 DEF Made, Counted
<1>3. walk.drift \in Nat /\ walk.first \in 0..MaxWrites
  BY DEF WalkedInv
<1>4. walk.last # None => walk.last \in walk.first..writes /\ walk.last \in 0..writes
  BY <1>1, <1>3 DEF WalkedInv
<1>5. gap \in Nat
  BY <1>1, <1>2, <1>4 DEF Distance
<1>6. /\ walk'.next = (IF more THEN k + P ELSE Over) /\ walk'.seen = seen /\ walk'.twice = twice
      /\ walk'.first = first /\ walk'.last = d /\ walk'.drift = drift
  BY <1>1, <1>2, <1>3 DEF Shown, Distance
<1>7. first \in 0..MaxWrites /\ first <= walk.first /\ first <= c /\ first <= d
  BY <1>1, <1>2, <1>3 DEF Least
<1>8. drift \in Nat /\ drift = walk.drift + (d - c) + gap /\ d - c \in Nat
  BY <1>1, <1>2, <1>3, <1>5
<1>9. /\ Stable' = S /\ S \subseteq Stable /\ S \subseteq Events /\ S \subseteq Untouched(c)
      /\ S \subseteq Untouched(d) /\ (walk.last # None => S \subseteq Untouched(Least(walk.last, d))
                                             /\ S \subseteq Untouched(Least(d, walk.last)))
  <2>1. Stable' = S
    BY <1>6 DEF Stable
  <2>2. \A e \in Events : touched[e] \in Nat
    BY <1>1
  <2>3. walk.last # None => first <= Least(walk.last, d) /\ first <= Least(d, walk.last)
                            /\ Least(walk.last, d) \in Nat /\ Least(d, walk.last) \in Nat
    BY <1>2, <1>3, <1>4, <1>7 DEF Least
  <2> HIDE DEF first
  <2> QED
    BY <1>1, <1>2, <1>3, <1>7, <2>1, <2>2, <2>3 DEF Stable, Untouched
<1>10. S \subseteq Matching(h[c]) /\ S \subseteq Matching(h[d])
  BY <1>2, <1>9 DEF HistoryInv, Matching
<1>11. /\ \A n : Top(h[n], k) \subseteq Events /\ Top(h[n], k + P) \subseteq Events
       /\ before \subseteq after /\ passed \subseteq Events
  <2>1. before \subseteq after
    <3> SUFFICES ASSUME NEW e \in before PROVE e \in after
      OBVIOUS
    <3>1. Rank(h[d], e) \in Nat /\ Rank(h[d], e) < k /\ e \in Matching(h[d])
      BY RankType DEF Top
    <3>2. Rank(h[d], e) < k + P
      BY <1>1, <3>1
    <3> QED
      BY <3>1, <3>2 DEF Top
  <2> QED
    BY <2>1 DEF Top, Matching, Passed
<1>12. ids = after \ before
  BY DEF Made
<1>13. /\ Cardinality((before \ passed) \cap S) <= gap
       /\ Cardinality((passed \ before) \cap S) <= gap
  <2>1. CASE walk.last = None
    <3>1. k = 0 /\ passed = {}
      BY <2>1 DEF WalkedInv, Start, Passed
    <3>2. before = {}
      BY <3>1, RankType DEF Top
    <3> QED
      BY <1>5, <3>1, <3>2, FS_EmptySet
  <2>2. CASE walk.last # None
    <3> DEFINE l == walk.last
               in == (before \ passed) \cap Untouched(Least(d, l))
               out == (passed \ before) \cap Untouched(Least(l, d))
    <3>1. passed = Top(h[l], k) /\ l \in 0..writes
      BY <1>4, <2>2 DEF Passed
    <3>2. Cardinality(in) <= Distance(d, l) /\ Cardinality(out) <= Distance(l, d)
      BY <1>1, <1>2, <3>1 DEF HistoryInv
    <3>3. Distance(d, l) = gap /\ Distance(l, d) = gap
      BY <1>2, <2>2, <3>1 DEF Distance
    <3>4. (before \ passed) \cap S \subseteq in /\ (passed \ before) \cap S \subseteq out
          /\ in \subseteq Events /\ out \subseteq Events
      BY <1>9, <1>11, <2>2
    <3> HIDE DEF in, out, gap, before, passed, S
    <3>5. IsFiniteSet(in) /\ IsFiniteSet(out)
      BY <3>4, FS_Subset
    <3>6. Cardinality((before \ passed) \cap S) <= Cardinality(in)
          /\ Cardinality((passed \ before) \cap S) <= Cardinality(out)
          /\ IsFiniteSet((before \ passed) \cap S) /\ IsFiniteSet((passed \ before) \cap S)
      BY <3>4, <3>5, FS_Subset
    <3>7. /\ Cardinality(in) \in Nat /\ Cardinality(out) \in Nat
          /\ Cardinality((before \ passed) \cap S) \in Nat
          /\ Cardinality((passed \ before) \cap S) \in Nat
      BY <3>5, <3>6, FS_CardinalityType
    <3> QED
      BY <1>5, <3>2, <3>3, <3>6, <3>7
  <2> QED
    BY <2>1, <2>2
<1>14. Behind(h)
  <2>1. k # Over
    BY <1>1 DEF Over
  <2> QED
    BY <2>1 DEF WalkedInv
<1>15. /\ Cardinality((S \cap after) \ seen) <= walk.drift + gap
       /\ Cardinality(S \cap (twice \cup (seen \ after))) <= walk.drift + gap
  <2> DEFINE slipped == (Stable \cap passed) \ walk.seen
             again == Stable \cap (walk.twice \cup (walk.seen \ passed))
             in == (before \ passed) \cap S
             out == (passed \ before) \cap S
  <2>1. Cardinality(slipped) <= walk.drift /\ Cardinality(again) <= walk.drift
    BY <1>14 DEF Behind
  <2>2. /\ (S \cap after) \ seen \subseteq slipped \cup in
        /\ S \cap (twice \cup (seen \ after)) \subseteq again \cup out
    BY <1>9, <1>11, <1>12
  <2>3. slipped \subseteq Events /\ again \subseteq Events /\ in \subseteq Events /\ out \subseteq Events
    BY <1>9, <1>11, <1>1
  <2>4. Cardinality(in) <= gap /\ Cardinality(out) <= gap
    BY <1>13
  <2> HIDE DEF slipped, again, in, out, seen, twice, after, S, gap
  <2>5. /\ Cardinality((S \cap after) \ seen) <= Cardinality(slipped) + Cardinality(in)
        /\ Cardinality((S \cap after) \ seen) \in Nat
        /\ Cardinality(slipped) \in Nat /\ Cardinality(in) \in Nat
    BY <2>2, <2>3, PartSize
  <2>6. /\ Cardinality(S \cap (twice \cup (seen \ after))) <= Cardinality(again) + Cardinality(out)
        /\ Cardinality(S \cap (twice \cup (seen \ after))) \in Nat
        /\ Cardinality(again) \in Nat /\ Cardinality(out) \in Nat
    BY <2>2, <2>3, PartSize
  <2> QED
    BY <1>3, <1>5, <2>1, <2>4, <2>5, <2>6
<1>16. ~ more => Cardinality(S \ after) <= d - c
  <2> SUFFICES ASSUME ~ more PROVE Cardinality(S \ after) <= d - c
    OBVIOUS
  <2>1. CASE Len(resp.events) < P
    <3>1. S \subseteq after
      BY <1>10, <2>1 DEF Made
    <3>2. S \ after = {}
      BY <3>1
    <3> QED
      BY <1>8, <3>2, FS_EmptySet, SMTT(30)
  <2>2. CASE ~ (Len(resp.events) < P)
    <3> DEFINE all == Top(h[c], k + P)
               out == (all \ after) \cap Untouched(Least(c, d))
    <3>1. resp.events \in Seq(Events) /\ Len(resp.events) \in Nat
          /\ DOMAIN resp.events = 1..Len(resp.events)
      BY LenProperties DEF Page
    <3>2. Len(resp.events) = P
      BY <1>1, <2>2, <3>1 DEF Made
    <3>3. ids # {}
      <4>1. 1 \in DOMAIN resp.events
        BY <1>1, <3>1, <3>2
      <4> QED
        BY <4>1 DEF ToSet
    <3>4. resp.total = Cardinality(Matching(h[c])) /\ resp.total \in Nat
      <4>1. Matching(h[c]) \subseteq Events
        BY DEF Matching
      <4> QED
        BY <4>1, FS_Subset, FS_CardinalityType DEF Made, Counted
    <3>5. resp.total <= k + P
      BY <1>1, <3>2, <3>3, <3>4
    <3>6. S \subseteq all
      <4> SUFFICES ASSUME NEW e \in S PROVE e \in all
        OBVIOUS
      <4>1. e \in Matching(h[c])
        BY <1>10
      <4>2. h[c] \in [Events -> Row]
        BY <1>1, <1>2 DEF HistoryInv
      <4>3. Rank(h[c], e) < Cardinality(Matching(h[c])) /\ Rank(h[c], e) \in Nat
        BY <4>1, <4>2, RanksDiffer, RankType
      <4>4. Rank(h[c], e) < k + P
        BY <1>1, <3>4, <3>5, <4>3
      <4> QED
        BY <4>1, <4>4 DEF Top
    <3>7. Least(c, d) = c /\ Distance(c, d) = d - c
      BY <1>2 DEF Least, Distance
    <3>8. S \ after \subseteq out /\ out \subseteq Events
      BY <1>9, <3>6, <3>7, <1>11
    <3>9. Cardinality(out) <= d - c
      <4>1. k + P \in Nat
        BY <1>1
      <4> QED
        BY <1>2, <3>7, <4>1 DEF HistoryInv
    <3> HIDE DEF out, after, S, c, d
    <3>10. IsFiniteSet(out) /\ Cardinality(out) \in Nat
      BY <3>8, FS_Subset, FS_CardinalityType
    <3>11. Cardinality(S \ after) <= Cardinality(out) /\ Cardinality(S \ after) \in Nat
      BY <3>8, <3>10, FS_Subset, FS_CardinalityType
    <3> QED
      BY <1>8, <3>9, <3>10, <3>11
  <2> QED
    BY <2>1, <2>2
<1>17. Cardinality(S \cap twice) <= walk.drift + gap /\ Cardinality((S \cap after) \ seen) \in Nat
       /\ Cardinality(S \cap (twice \cup (seen \ after))) \in Nat
  <2> DEFINE again == S \cap (twice \cup (seen \ after))
             short == (S \cap after) \ seen
  <2>1. again \subseteq Events /\ short \subseteq Events /\ S \cap twice \subseteq again
    BY <1>9
  <2>2. Cardinality(again) <= walk.drift + gap
    BY <1>15
  <2> HIDE DEF again, S, twice, gap, short
  <2>3. IsFiniteSet(again) /\ IsFiniteSet(short) /\ Cardinality(again) \in Nat /\ Cardinality(short) \in Nat
    BY <2>1, FS_Subset, FS_CardinalityType
  <2>4. Cardinality(S \cap twice) <= Cardinality(again) /\ Cardinality(S \cap twice) \in Nat
    BY <2>1, <2>3, FS_Subset, FS_CardinalityType
  <2>5. Cardinality(S \cap twice) <= walk.drift + gap
    BY <1>3, <1>5, <2>2, <2>3, <2>4
  <2> QED
    BY <2>3, <2>5 DEF again, short
<1>18. CASE more
  <2>1. walk'.next = k + P /\ walk'.next # Over /\ walk'.last # None
    BY <1>1, <1>2, <1>6, <1>18 DEF Over, None
  <2>2. Passed(h)' = after
    BY <1>6, <2>1 DEF Passed
  <2> HIDE DEF seen, twice, after, S, gap, drift, more, first
  <2>3. Cardinality((S \cap after) \ seen) <= drift /\ Cardinality(S \cap (twice \cup (seen \ after))) <= drift
    BY <1>3, <1>5, <1>8, <1>15, <1>17
  <2>4. Behind(h)'
    BY <1>6, <1>9, <2>2, <2>3 DEF Behind
  <2>5. walk'.last \in walk'.first..writes
    BY <1>1, <1>2, <1>6, <1>7
  <2> QED
    BY <1>6, <1>7, <1>8, <2>1, <2>4, <2>5 DEF WalkedInv
<1>19. CASE ~ more
  <2>1. walk'.next = Over /\ walk'.last # None
    BY <1>1, <1>2, <1>6, <1>19 DEF None
  <2>2. Cardinality(S \ seen) <= drift
    <3> DEFINE short == (S \cap after) \ seen
               beyond == S \ after
    <3>1. S \ seen \subseteq short \cup beyond /\ short \subseteq Events /\ beyond \subseteq Events
      BY <1>9
    <3>2. Cardinality(short) <= walk.drift + gap /\ Cardinality(beyond) <= d - c
      BY <1>15, <1>16, <1>19
    <3> HIDE DEF short, beyond, seen, S, gap, drift, c, d
    <3>3. /\ Cardinality(S \ seen) <= Cardinality(short) + Cardinality(beyond)
          /\ Cardinality(S \ seen) \in Nat /\ Cardinality(short) \in Nat /\ Cardinality(beyond) \in Nat
      BY <3>1, PartSize
    <3> QED
      BY <1>3, <1>5, <1>8, <3>2, <3>3
  <2> HIDE DEF seen, twice, after, S, gap, drift, more, first
  <2>3. Cardinality(S \cap twice) <= drift
    <3>1. IsFiniteSet(S \cap twice) /\ Cardinality(S \cap twice) \in Nat
      BY <1>9, FS_Subset, FS_CardinalityType
    <3> QED
      BY <1>3, <1>5, <1>8, <1>17, <3>1
  <2>4. WalkBound'
    BY <1>6, <1>9, <2>2, <2>3 DEF WalkBound
  <2>5. walk'.last \in walk'.first..writes
    BY <1>1, <1>2, <1>6, <1>7
  <2> QED
    BY <1>6, <1>7, <1>8, <2>1, <2>4, <2>5 DEF WalkedInv
<1> QED
  BY <1>18, <1>19

\* Some history explains the table, the responses and the walk.
WalkInv == \E h : HistoryInv(h) /\ ResponsesMade(h) /\ WalkedInv(h)

LEMMA WalkInit == ASSUME IsFiniteSet(Events) PROVE PagesInit => WalkInv
<1> SUFFICES ASSUME PagesInit PROVE WalkInv
  OBVIOUS
<1> DEFINE h == [m \in 0..MaxWrites |-> rows]
<1>1. /\ rows \in [Events -> Row] /\ touched = [e \in Events |-> 0] /\ writes = 0
      /\ page = [r \in Requests |-> NoPage] /\ DOMAIN content = {} /\ walk = Start
      /\ pc = [r \in Requests |-> "idle"] /\ MaxWrites \in Nat /\ Walker \in Requests
  BY PagesAssumption DEF PagesInit, Init
<1>2. h \in [0..MaxWrites -> [Events -> Row]] /\ h[0] = rows /\ 0..writes = {0} /\ 0 \in 0..MaxWrites
  BY <1>1
<1> HIDE DEF h
<1>3. HistoryInv(h)
  <2>1. ASSUME NEW k \in Nat
        PROVE  Cardinality((Top(h[0], k) \ Top(h[0], k)) \cap Untouched(Least(0, 0))) <= Distance(0, 0)
    <3>1. (Top(h[0], k) \ Top(h[0], k)) \cap Untouched(Least(0, 0)) = {}
      OBVIOUS
    <3>2. Distance(0, 0) = 0
      BY DEF Distance
    <3> QED
      BY <3>1, <3>2, FS_EmptySet
  <2> QED
    BY <1>1, <1>2, <2>1 DEF HistoryInv
<1>4. ResponsesMade(h)
  BY <1>1 DEF ResponsesMade
<1>5. WalkedInv(h)
  <2>1. walk.next = 0 /\ walk.seen = {} /\ walk.twice = {} /\ walk.drift = 0 /\ walk.last = None
        /\ walk.first = MaxWrites
    BY <1>1 DEF Start
  <2>2. Passed(h) = {}
    BY <2>1 DEF Passed
  <2>3. /\ (Stable \cap Passed(h)) \ walk.seen = {}
        /\ Stable \cap (walk.twice \cup (walk.seen \ Passed(h))) = {}
    BY <2>1, <2>2
  <2>4. Behind(h)
    <3>1. /\ Cardinality((Stable \cap Passed(h)) \ walk.seen) = 0
          /\ Cardinality(Stable \cap (walk.twice \cup (walk.seen \ Passed(h)))) = 0
      BY <2>3, FS_EmptySet
    <3> QED
      BY <2>1, <3>1 DEF Behind
  <2> QED
    BY <1>1, <2>1, <2>4 DEF WalkedInv, Over
<1> QED
  BY <1>3, <1>4, <1>5 DEF WalkInv

\* What depends on the table and the walk alone.
LEMMA TableAndWalkStay ==
  ASSUME NEW h, UNCHANGED <<rows, touched, writes>>
  PROVE  /\ HistoryInv(h) => HistoryInv(h)'
         /\ UNCHANGED walk /\ WalkedInv(h) => WalkedInv(h)'
<1>1. HistoryInv(h) => HistoryInv(h)'
  BY DEF HistoryInv, Untouched
<1>2. UNCHANGED walk /\ WalkedInv(h) => WalkedInv(h)'
  BY DEF WalkedInv, WalkBound, Behind, Passed, Stable
<1> QED
  BY <1>1, <1>2

\* The steps of a request, which make a response, store it or serve it.
LEMMA RequestKeeps ==
  ASSUME IsFiniteSet(Events), FreshInv, PagesInv,
         NEW h, HistoryInv(h), ResponsesMade(h), WalkedInv(h), NEW r \in Requests,
         \/ \E k \in Keys : PageHit(r, k) \/ PageMiss(r, k)
         \/ CountRows(r) \/ ReadPage(r) \/ PageStored(r) \/ PageFails(r)
  PROVE  HistoryInv(h)' /\ ResponsesMade(h)' /\ WalkedInv(h)'
<1>1. /\ rows \in [Events -> Row] /\ writes \in 0..MaxWrites /\ MaxWrites \in Nat
      /\ page \in [Requests -> Page] /\ DOMAIN content = DOMAIN entries
      /\ \A k \in DOMAIN content : content[k] \in Page
      /\ pc \in [Requests -> {"idle", "miss", "read"}] /\ key \in [Requests -> Keys]
      /\ DOMAIN entries \subseteq Keys /\ Keys \subseteq Nat /\ Walker \in Requests
  BY PagesAssumption DEF PagesInv, FreshInv
<1>2. UNCHANGED <<rows, touched, writes>>
  BY DEF PageHit, PageMiss, CountRows, ReadPage, PageStored, PageFails
<1>3. HistoryInv(h)'
  BY <1>2, TableAndWalkStay
<1>4. h[writes] = rows /\ writes \in 0..writes
  BY <1>1 DEF HistoryInv
<1>5. ASSUME NEW k \in Keys, PageHit(r, k) PROVE ResponsesMade(h)' /\ WalkedInv(h)'
  <2>1. /\ pc[r] = "idle" /\ k \in DOMAIN content /\ UNCHANGED <<pc, key, page, content>>
        /\ walk' = IF r = Walker THEN Shown(content[k], k) ELSE walk
        /\ r = Walker => walk.next = k
    BY <1>1, <1>5 DEF PageHit, Asks, LookupHits, Hit
  <2>2. ResponsesMade(h)'
    BY <1>2, <2>1 DEF ResponsesMade
  <2>3. CASE r = Walker
    <3>1. content[k] \in Page /\ Made(h, writes, content[k], k)
      BY <1>1, <2>1 DEF ResponsesMade
    <3> QED
      BY <1>2, <2>1, <2>2, <2>3, <3>1, ShownKeeps
  <2>4. CASE r # Walker
    BY <1>2, <2>1, <2>2, <2>4, TableAndWalkStay
  <2> QED
    BY <2>3, <2>4
<1>6. ASSUME NEW k \in Keys, PageMiss(r, k) PROVE ResponsesMade(h)' /\ WalkedInv(h)'
  <2>1. /\ pc[r] = "idle" /\ DOMAIN entries' \subseteq DOMAIN content
        /\ content' = [j \in DOMAIN entries' |-> content[j]] /\ UNCHANGED <<page, walk>>
        /\ pc' = [pc EXCEPT ![r] = "miss"] /\ key' = [key EXCEPT ![r] = k]
        /\ r = Walker => walk.next = k
    BY <1>1, <1>6 DEF PageMiss, Asks, LookupMisses, Without
  <2>2. page[r] = NoPage
    BY <2>1 DEF ResponsesMade
  <2>3. \A j \in DOMAIN content' : j \in DOMAIN content /\ content'[j] = content[j]
    BY <2>1
  <2>4. /\ pc'[r] = "miss" /\ key'[r] = k
        /\ \A q \in Requests : q # r => pc'[q] = pc[q] /\ key'[q] = key[q]
    BY <1>1, <2>1
  <2>5. ResponsesMade(h)'
    BY <1>1, <1>2, <2>1, <2>2, <2>3, <2>4 DEF ResponsesMade
  <2> QED
    BY <1>2, <2>1, <2>5, TableAndWalkStay
<1>7. ASSUME CountRows(r) PROVE ResponsesMade(h)' /\ WalkedInv(h)'
  <2> DEFINE new == [total |-> Cardinality(Matching(rows)), events |-> <<>>,
                     counted |-> writes, read |-> writes]
  <2>1. /\ pc[r] = "miss" /\ UNCHANGED <<content, walk, key>> /\ page' = [page EXCEPT ![r] = new]
        /\ IF Cardinality(Matching(rows)) = 0 THEN pc' = [pc EXCEPT ![r] = "read"] ELSE pc' = pc
    BY <1>7 DEF CountRows, Read, vars
  <2>2. Counted(h, writes, new)
    BY <1>4 DEF Counted
  <2>3. Cardinality(Matching(rows)) = 0 => Made(h, writes, new, key[r])
    <3> SUFFICES ASSUME Cardinality(Matching(rows)) = 0 PROVE Made(h, writes, new, key[r])
      OBVIOUS
    <3>1. Matching(rows) = {}
      <4>1. IsFiniteSet(Matching(rows))
        BY FS_Subset DEF Matching
      <4> QED
        BY <4>1, FS_EmptySet
    <3>2. \A n : Top(rows, n) = {}
      BY <3>1 DEF Top
    <3>3. ToSet(new.events) = {} /\ Len(new.events) = 0 /\ new.counted = writes /\ new.read = writes
      BY DEF ToSet
    <3>4. 0 <= PageSize /\ writes \in writes..writes
      BY <1>1, PagesAssumption
    <3> HIDE DEF new
    <3> QED
      BY <1>4, <2>2, <3>1, <3>2, <3>3, <3>4 DEF Made
  <2> HIDE DEF new
  <2>4. /\ page'[r] = new /\ \A q \in Requests : q # r => page'[q] = page[q] /\ pc'[q] = pc[q]
        /\ pc'[r] = IF Cardinality(Matching(rows)) = 0 THEN "read" ELSE "miss"
    BY <1>1, <2>1
  <2>5. \A q \in Requests :
          /\ pc'[q] = "idle" => page'[q] = NoPage
          /\ pc'[q] = "miss" /\ page'[q] # NoPage => Counted(h, writes, page'[q])
          /\ pc'[q] = "read" => Made(h, writes, page'[q], key[q])
    BY <2>2, <2>3, <2>4 DEF ResponsesMade
  <2>6. pc'[Walker] # "idle" => key[Walker] = walk.next
    BY <1>1, <2>1, <2>4 DEF ResponsesMade
  <2>7. \A k \in DOMAIN content : Made(h, writes, content[k], k)
    BY DEF ResponsesMade
  <2>8. ResponsesMade(h)'
    BY <1>2, <2>1, <2>5, <2>6, <2>7 DEF ResponsesMade
  <2> QED
    BY <1>2, <2>1, <2>8, TableAndWalkStay
<1>8. ASSUME ReadPage(r) PROVE ResponsesMade(h)' /\ WalkedInv(h)'
  <2>1. PICK s \in Sorted(rows) :
          page' = [page EXCEPT ![r].events = Slice(s, key[r]), ![r].read = writes]
    BY <1>8 DEF ReadPage
  <2> DEFINE new == [page[r] EXCEPT !.events = Slice(s, key[r]), !.read = writes]
  <2>2. /\ pc[r] = "miss" /\ page[r] # NoPage /\ UNCHANGED <<content, walk, key>>
        /\ pc' = [pc EXCEPT ![r] = "read"]
    BY <1>8 DEF ReadPage, Read
  <2>3. Counted(h, writes, page[r]) /\ page[r] \in Page /\ key[r] \in Nat
    BY <1>1, <2>2 DEF ResponsesMade
  <2>4. /\ new.total = page[r].total /\ new.counted = page[r].counted
        /\ new.events = Slice(s, key[r]) /\ new.read = writes
    BY <2>3 DEF Page
  <2>5. page'[r] = new /\ \A q \in Requests : q # r => page'[q] = page[q] /\ pc'[q] = pc[q]
    BY <1>1, <2>1, <2>2
  <2>6. pc'[r] = "read"
    BY <1>1, <2>2
  <2> HIDE DEF new
  <2>7. Made(h, writes, new, key[r])
    <3>1. LET p == Slice(s, key[r]) IN
          /\ ToSet(p) = Top(rows, key[r] + PageSize) \ Top(rows, key[r])
          /\ Len(p) \in 0..PageSize
          /\ Len(p) < PageSize => Matching(rows) \subseteq Top(rows, key[r] + PageSize)
      BY <1>1, <2>1, <2>3, SliceIsBetween
    <3>2. PageSize \in Nat /\ Len(Slice(s, key[r])) <= PageSize
      BY <3>1, PagesAssumption
    <3>3. Counted(h, writes, new) /\ new.counted \in 0..writes
      BY <2>3, <2>4 DEF Counted
    <3>4. writes \in new.counted..writes
      BY <1>1, <3>3
    <3> QED
      BY <1>4, <2>4, <3>1, <3>2, <3>3, <3>4 DEF Made
  <2>8. \A q \in Requests :
          /\ pc'[q] = "idle" => page'[q] = NoPage
          /\ pc'[q] = "miss" /\ page'[q] # NoPage => Counted(h, writes, page'[q])
          /\ pc'[q] = "read" => Made(h, writes, page'[q], key[q])
    BY <2>5, <2>6, <2>7 DEF ResponsesMade
  <2>9. pc'[Walker] # "idle" => key[Walker] = walk.next
    BY <1>1, <2>2, <2>5 DEF ResponsesMade
  <2>10. \A k \in DOMAIN content : Made(h, writes, content[k], k)
    BY DEF ResponsesMade
  <2>11. ResponsesMade(h)'
    BY <1>2, <2>2, <2>8, <2>9, <2>10 DEF ResponsesMade
  <2> QED
    BY <1>2, <2>2, <2>11, TableAndWalkStay
<1>9. ASSUME PageStored(r) PROVE ResponsesMade(h)' /\ WalkedInv(h)'
  <2>1. /\ pc[r] = "read" /\ pc' = [pc EXCEPT ![r] = "idle"] /\ key' = [key EXCEPT ![r] = AnyKey]
        /\ DOMAIN entries' \subseteq DOMAIN content \cup {key[r]}
        /\ content' = [j \in DOMAIN entries' |-> IF j = key[r] THEN page[r] ELSE content[j]]
        /\ walk' = IF r = Walker THEN Shown(page[r], key[r]) ELSE walk
        /\ page' = [page EXCEPT ![r] = NoPage]
    BY <1>1, <1>9 DEF PageStored, Store, Leave, Left
  <2>2. Made(h, writes, page[r], key[r]) /\ page[r] \in Page /\ key[r] \in Keys
    BY <1>1, <2>1 DEF ResponsesMade
  <2>3. /\ pc'[r] = "idle" /\ page'[r] = NoPage
        /\ \A q \in Requests : q # r => pc'[q] = pc[q] /\ key'[q] = key[q] /\ page'[q] = page[q]
    BY <1>1, <2>1
  <2>4. \A j \in DOMAIN content' : Made(h, writes, content'[j], j)
    BY <2>1, <2>2 DEF ResponsesMade
  <2>5. \A q \in Requests :
          /\ pc'[q] = "idle" => page'[q] = NoPage
          /\ pc'[q] = "miss" /\ page'[q] # NoPage => Counted(h, writes, page'[q])
          /\ pc'[q] = "read" => Made(h, writes, page'[q], key'[q])
    BY <2>3 DEF ResponsesMade
  <2>6. pc'[Walker] # "idle" => key'[Walker] = walk'.next
    BY <1>1, <2>1, <2>3 DEF ResponsesMade
  <2>7. ResponsesMade(h)'
    BY <1>2, <2>4, <2>5, <2>6 DEF ResponsesMade
  <2>8. CASE r = Walker
    <3>1. walk.next = key[r]
      BY <2>1, <2>8 DEF ResponsesMade
    <3> QED
      BY <1>2, <2>1, <2>2, <2>7, <2>8, <3>1, ShownKeeps
  <2>9. CASE r # Walker
    BY <1>2, <2>1, <2>7, <2>9, TableAndWalkStay
  <2> QED
    BY <2>8, <2>9
<1>10. ASSUME PageFails(r) PROVE ResponsesMade(h)' /\ WalkedInv(h)'
  <2>1. /\ pc' = [pc EXCEPT ![r] = "idle"] /\ key' = [key EXCEPT ![r] = AnyKey]
        /\ page' = [page EXCEPT ![r] = NoPage] /\ UNCHANGED <<content, walk>>
    BY <1>10 DEF PageFails, Fail, Leave
  <2>2. /\ pc'[r] = "idle" /\ page'[r] = NoPage
        /\ \A q \in Requests : q # r => pc'[q] = pc[q] /\ key'[q] = key[q] /\ page'[q] = page[q]
    BY <1>1, <2>1
  <2>3. \A q \in Requests :
          /\ pc'[q] = "idle" => page'[q] = NoPage
          /\ pc'[q] = "miss" /\ page'[q] # NoPage => Counted(h, writes, page'[q])
          /\ pc'[q] = "read" => Made(h, writes, page'[q], key'[q])
    BY <2>2 DEF ResponsesMade
  <2>4. pc'[Walker] # "idle" => key'[Walker] = walk.next
    BY <1>1, <2>2 DEF ResponsesMade
  <2>5. \A k \in DOMAIN content : Made(h, writes, content[k], k)
    BY DEF ResponsesMade
  <2>6. ResponsesMade(h)'
    BY <1>2, <2>1, <2>3, <2>4, <2>5 DEF ResponsesMade
  <2> QED
    BY <1>2, <2>1, <2>6, TableAndWalkStay
<1> QED
  BY <1>3, <1>5, <1>6, <1>7, <1>8, <1>9, <1>10

LEMMA WalkNext ==
  ASSUME IsFiniteSet(Events), FreshInv, PagesInv, WalkInv, [PagesNext]_pageVars
  PROVE  WalkInv'
<1>1. PICK h : HistoryInv(h) /\ ResponsesMade(h) /\ WalkedInv(h)
  BY DEF WalkInv
<1>2. ASSUME NEW r \in Requests,
             \/ \E k \in Keys : PageHit(r, k) \/ PageMiss(r, k)
             \/ CountRows(r) \/ ReadPage(r) \/ PageStored(r) \/ PageFails(r)
      PROVE  WalkInv'
  <2>1. HistoryInv(h)' /\ ResponsesMade(h)' /\ WalkedInv(h)'
    BY <1>1, <1>2, RequestKeeps
  <2> QED
    BY <2>1 DEF WalkInv
<1>3. ASSUME NEW w \in Events, NEW row \in Row, WriteRow(w, row) PROVE WalkInv'
  <2>1. PICK g : g = [h EXCEPT ![writes'] = rows']
    OBVIOUS
  <2>2. HistoryInv(g)' /\ WalkedInv(g)'
    BY <1>1, <1>3, <2>1, HistoryGoesOn, WalkOutlivesWrite
  <2>3. /\ writes \in Nat /\ writes' = writes + 1 /\ writes' \in Nat
        /\ UNCHANGED <<pc, key, page, content, walk>>
    BY <1>3, PagesAssumption DEF WriteRow, PagesInv
  <2>4. \A m \in 0..writes : g[m] = h[m]
    BY <1>1, <2>1, <2>3 DEF HistoryInv
  <2>5. \A p, k : /\ Counted(h, writes, p) => Counted(g, writes', p)
                  /\ Made(h, writes, p, k) => Made(g, writes', p, k)
    BY <2>3, <2>4, MadeLater
  <2>6. ResponsesMade(g)'
    BY <1>1, <2>3, <2>5 DEF ResponsesMade
  <2> QED
    BY <2>2, <2>6 DEF WalkInv
<1>4. CASE PagesTick \/ UNCHANGED pageVars
  <2>1. UNCHANGED <<rows, touched, writes, pc, key, page, content, walk>>
    BY <1>4 DEF PagesTick, Tick, pageVars
  <2>2. HistoryInv(h)' /\ WalkedInv(h)'
    BY <1>1, <2>1, TableAndWalkStay
  <2>3. ResponsesMade(h)'
    BY <1>1, <2>1 DEF ResponsesMade
  <2> QED
    BY <2>2, <2>3 DEF WalkInv
<1> QED
  BY <1>2, <1>3, <1>4 DEF PagesNext

\* For any finite set of rows, any page size and any number of writes, caches and
\* other requests: a client that walks /v1/events to its end misses, and is shown
\* twice, no more rows than writes came between the statements its pages were made
\* of. Without such writes every row is shown exactly once.
THEOREM WalkBounded == ASSUME IsFiniteSet(Events) PROVE PagesSpec => []WalkBound
<1> DEFINE Inv == FreshInv /\ PagesInv /\ WalkInv
<1>1. Keys # {}
  BY PagesAssumption
<1>2. PagesInit => Inv
  BY <1>1, FreshInit, PagesTypeInit, WalkInit DEF PagesInit
<1>3. Inv /\ [PagesNext]_pageVars => Inv'
  BY <1>1, FreshNext, PagesTypeNext, PagesStepIsCacheStep, WalkNext
<1>4. Inv => WalkBound
  <2> SUFFICES ASSUME WalkInv PROVE WalkBound
    OBVIOUS
  <2>1. PICK h : WalkedInv(h)
    BY DEF WalkInv
  <2> QED
    BY <2>1 DEF WalkedInv, WalkBound
<1> QED
  BY <1>2, <1>3, <1>4, PTL DEF PagesSpec

(***************************************************************************)
(* The rate limiter. An ideal bucket per client is compared with the one   *)
(* in use: it never holds more, and, unless the client was displaced, never*)
(* less.                                                                   *)
(***************************************************************************)

\* A bucket belongs to one client, in the map and in the hands of its requests.
Owned ==
  /\ \A c, d \in DOMAIN buckets : buckets[c] = buckets[d] => c = d
  /\ \A r \in Calls : held[r] # 0 => client[r] \in Clients
  /\ \A r \in Calls : \A d \in DOMAIN buckets :
       held[r] # 0 /\ held[r] = buckets[d] => d = client[r]
  /\ \A r, q \in Calls : held[r] # 0 /\ held[r] = held[q] => client[r] = client[q]

\* No bucket in use holds less than its client's ideal one.
NoneShort ==
  /\ \A c \in DOMAIN buckets : ideal[c] <= Refilled(heap[buckets[c]])
  /\ \A r \in Calls : held[r] # 0 => ideal[client[r]] <= Refilled(heap[held[r]])

\* What bucket b of client c must not exceed. A client that has not been seen
\* for long has a full ideal bucket: forgetting it gives nothing away.
Earned(c, b) ==
  /\ Refilled(b) <= ideal[c]
  /\ ideal[c] = Full \/ ideal[c] + MaxStall >= b.sinceSeen

\* Unless it was displaced, a client's requests hold its bucket of the map, and
\* the bucket has no more than was earned.
NoneExtra ==
  \A c \in Clients \ displaced :
    /\ c \in DOMAIN buckets => Earned(c, heap[buckets[c]])
    /\ c \notin DOMAIN buckets => ideal[c] = Full
    /\ \A r \in Calls : held[r] # 0 /\ client[r] = c =>
         c \in DOMAIN buckets /\ held[r] = buckets[c]
           /\ heap[buckets[c]].sinceSeen <= stalled[r]

LimiterInv ==
  /\ LimiterTypeOK /\ IsFiniteSet(DOMAIN buckets)
  /\ Owned /\ NoneShort /\ NoneExtra
  /\ AdmittedAsConfigured

\* A bucket holds a whole number of units, and an idle bucket is full before it
\* is given up.
LEMMA FullFits == Full \in Nat /\ BucketTTL \in Nat /\ MaxStall \in Nat /\ BucketTTL >= Full + MaxStall
  BY LimiterAssumption DEF Full

\* What the operations on a bucket do to what it holds.
LEMMA BucketFacts ==
  /\ NewBucket \in Bucket /\ Refilled(NewBucket) = Full /\ NewBucket.sinceSeen = 0
  /\ Unused \in Bucket
  /\ \A b \in Bucket :
       /\ Refilled(b) \in 0..Full
       /\ Seen(b) \in Bucket /\ Refilled(Seen(b)) = Refilled(b) /\ Seen(b).sinceSeen = 0
       /\ Aged(b) \in Bucket /\ Refilled(Aged(b)) = Capped(Refilled(b) + 1, Full)
       /\ Aged(b).sinceSeen <= b.sinceSeen + 1
<1>1. NewBucket \in Bucket /\ Refilled(NewBucket) = Full /\ NewBucket.sinceSeen = 0
  BY FullFits DEF NewBucket, Bucket, Refilled, Capped
<1>2. Unused \in Bucket
  BY FullFits DEF Unused, Bucket
<1>3. ASSUME NEW b \in Bucket
      PROVE  /\ Refilled(b) \in 0..Full
             /\ Seen(b) \in Bucket /\ Refilled(Seen(b)) = Refilled(b) /\ Seen(b).sinceSeen = 0
             /\ Aged(b) \in Bucket /\ Refilled(Aged(b)) = Capped(Refilled(b) + 1, Full)
             /\ Aged(b).sinceSeen <= b.sinceSeen + 1
  <2>1. Refilled(b) \in 0..Full
    BY <1>3, FullFits DEF Bucket, Refilled, Capped
  <2>2. Seen(b) \in Bucket /\ Refilled(Seen(b)) = Refilled(b) /\ Seen(b).sinceSeen = 0
    BY <1>3, FullFits DEF Bucket, Seen, Refilled
  <2>3. Aged(b) \in Bucket /\ Aged(b).units = b.units
        /\ Aged(b).sinceLast = Capped(b.sinceLast + 1, Full)
        /\ Aged(b).sinceSeen = Capped(b.sinceSeen + 1, BucketTTL + 1)
    <3> DEFINE last == Capped(b.sinceLast + 1, Full)
               seen == Capped(b.sinceSeen + 1, BucketTTL + 1)
    <3>1. b.sinceLast \in 0..Full /\ b.sinceSeen \in 0..BucketTTL + 1
      BY <1>3 DEF Bucket
    <3>2. last \in 0..Full
      BY <3>1, FullFits DEF Capped
    <3>3. seen \in 0..BucketTTL + 1
      BY <3>1, FullFits DEF Capped
    <3>4. Aged(b) = [b EXCEPT !.sinceLast = last, !.sinceSeen = seen]
      BY DEF Aged
    <3> HIDE DEF last, seen
    <3>5. Aged(b) \in Bucket /\ Aged(b).units = b.units
          /\ Aged(b).sinceLast = last /\ Aged(b).sinceSeen = seen
      BY <1>3, <3>2, <3>3, <3>4 DEF Bucket
    <3> QED
      BY <3>5 DEF last, seen
  <2>4. Refilled(Aged(b)) = Capped(Refilled(b) + 1, Full)
    BY <1>3, <2>3, FullFits DEF Bucket, Refilled, Capped
  <2>5. Aged(b).sinceSeen <= b.sinceSeen + 1
    BY <1>3, <2>3, FullFits DEF Bucket, Capped
  <2> QED
    BY <2>1, <2>2, <2>3, <2>4, <2>5
<1> QED
  BY <1>1, <1>2, <1>3

\* The limiter starts empty, and every client with a full bucket to come.
LEMMA LimiterStarts == LimiterInit => LimiterInv
<1> SUFFICES ASSUME LimiterInit PROVE LimiterInv
  OBVIOUS
<1> USE DEF LimiterInit
<1>1. DOMAIN buckets = {}
  OBVIOUS
<1>2. IsFiniteSet(DOMAIN buckets) /\ Cardinality(DOMAIN buckets) = 0
  BY <1>1, FS_EmptySet
<1>3. LimiterTypeOK
  BY <1>1, <1>2, FullFits, BucketFacts, LimiterAssumption DEF LimiterTypeOK
<1>4. Owned /\ NoneShort /\ NoneExtra
  BY <1>1 DEF Owned, NoneShort, NoneExtra
<1>5. AdmittedAsConfigured
  BY DEF AdmittedAsConfigured
<1> QED
  BY <1>2, <1>3, <1>4, <1>5 DEF LimiterInv

\* The values of a function on a finite set are no more than the set's elements.
LEMMA ImageSize ==
  ASSUME NEW f, NEW S, IsFiniteSet(S)
  PROVE  LET T == {f[x] : x \in S}
         IN  IsFiniteSet(T) /\ Cardinality(T) <= Cardinality(S)
<1> DEFINE T == {f[x] : x \in S}
           g == [x \in S |-> f[x]]
<1>1. g \in Surjection(S, T)
  BY DEF Surjection
<1>2. IsFiniteSet(T) /\ Cardinality(T) <= Cardinality(S)
  BY <1>1, FS_Surjection
<1> QED
  BY <1>2

\* Before a bucket is allocated there is room for it: the map leaves one place
\* and the request that asks holds none.
LEMMA SpareSlot ==
  ASSUME held \in [Calls -> Slots \cup {0}], NEW r \in Calls, held[r] = 0,
         NEW kept, kept \subseteq DOMAIN buckets, IsFiniteSet(kept),
         \A c \in kept : buckets[c] \in Slots,
         Cardinality(kept) < MaxBuckets
  PROVE  Unreferenced(kept) \in Slots /\ Collected(Unreferenced(kept), kept)
<1> DEFINE mapped == {buckets[c] : c \in kept}
           others == Calls \ {r}
           inUse == {held[q] : q \in others}
<1>1. IsFiniteSet(Calls) /\ Cardinality(Calls) \in Nat /\ MaxBuckets \in Nat
  BY LimiterAssumption, FS_CardinalityType
<1>2. IsFiniteSet(mapped) /\ Cardinality(mapped) <= Cardinality(kept)
  BY ImageSize
<1>3. IsFiniteSet(others) /\ Cardinality(others) = Cardinality(Calls) - 1
  BY <1>1, FS_RemoveElement
<1>4. IsFiniteSet(inUse) /\ Cardinality(inUse) <= Cardinality(others)
  BY <1>3, ImageSize
<1>5. IsFiniteSet(mapped \cup inUse)
      /\ Cardinality(mapped \cup inUse) <= Cardinality(mapped) + Cardinality(inUse)
  <2>1. /\ IsFiniteSet(mapped \cup inUse)
        /\ Cardinality(mapped \cup inUse) =
             Cardinality(mapped) + Cardinality(inUse) - Cardinality(mapped \cap inUse)
    BY <1>2, <1>4, FS_Union
  <2>2. IsFiniteSet(mapped \cap inUse)
    BY <1>2, FS_Intersection
  <2>3. Cardinality(mapped \cap inUse) \in Nat /\ Cardinality(mapped) \in Nat
        /\ Cardinality(inUse) \in Nat
    BY <1>2, <1>4, <2>2, FS_CardinalityType
  <2> HIDE DEF mapped, inUse
  <2> QED
    BY <2>1, <2>3
<1>6. IsFiniteSet(Slots) /\ Cardinality(Slots) = MaxBuckets + Cardinality(Calls)
  <2> DEFINE n == MaxBuckets + Cardinality(Calls)
  <2>1. n \in Nat /\ n >= 1
    BY <1>1, LimiterAssumption
  <2>2. Slots = 1..n
    BY DEF Slots
  <2> HIDE DEF n
  <2>3. IsFiniteSet(1..n) /\ Cardinality(1..n) = n
    BY <2>1, FS_Interval
  <2> QED
    BY <2>2, <2>3 DEF n
<1>7. Cardinality(mapped \cup inUse) < Cardinality(Slots)
  <2>1. Cardinality(mapped) \in Nat /\ Cardinality(inUse) \in Nat /\ Cardinality(kept) \in Nat
        /\ Cardinality(mapped \cup inUse) \in Nat
    BY <1>2, <1>4, <1>5, FS_CardinalityType
  <2> HIDE DEF mapped, inUse, others
  <2> QED
    BY <1>1, <1>2, <1>3, <1>4, <1>5, <1>6, <2>1
<1>8. ~ (Slots \subseteq mapped \cup inUse)
  <2>1. SUFFICES ASSUME Slots \subseteq mapped \cup inUse PROVE FALSE
    OBVIOUS
  <2>2. Cardinality(Slots) <= Cardinality(mapped \cup inUse)
    BY <1>5, <2>1, FS_Subset
  <2>3. Cardinality(Slots) \in Nat /\ Cardinality(mapped \cup inUse) \in Nat
    BY <1>5, <1>6, FS_CardinalityType
  <2> HIDE DEF mapped, inUse
  <2> QED
    BY <1>7, <2>2, <2>3
<1>9. PICK s \in Slots : s \notin mapped /\ s \notin inUse
  BY <1>8
<1>10. s # 0
  BY <1>1 DEF Slots
<1>11. Collected(s, kept)
  BY <1>9, <1>10 DEF Collected
<1> QED
  BY <1>11 DEF Unreferenced

\* A client with no live bucket has a full ideal one, and no request under way.
LEMMA Forgotten ==
  ASSUME LimiterInv, NEW c \in Clients \ displaced, c \notin Alive
  PROVE  ideal[c] = Full /\ \A q \in Calls : held[q] # 0 => client[q] # c
<1>1. CASE c \notin DOMAIN buckets
  BY <1>1 DEF LimiterInv, NoneExtra
<1>2. CASE c \in DOMAIN buckets
  <2> DEFINE b == heap[buckets[c]]
  <2>1. b \in Bucket
    BY <1>2 DEF LimiterInv, LimiterTypeOK
  <2>2. b.sinceSeen > BucketTTL
    BY <1>2, <2>1, FullFits DEF Alive, Bucket
  <2>3. ideal[c] \in 0..Full
    BY DEF LimiterInv, LimiterTypeOK
  <2>4. ideal[c] = Full \/ ideal[c] + MaxStall >= b.sinceSeen
    BY <1>2 DEF LimiterInv, NoneExtra, Earned
  <2>5. b.sinceSeen \in Nat
    BY <2>1, FullFits DEF Bucket
  <2>6. ASSUME NEW q \in Calls, held[q] # 0, client[q] = c PROVE FALSE
    <3>1. b.sinceSeen <= stalled[q]
      BY <2>6 DEF LimiterInv, NoneExtra
    <3>2. stalled[q] \in 0..MaxStall
      BY DEF LimiterInv, LimiterTypeOK
    <3> HIDE DEF b
    <3> QED
      BY <3>1, <3>2, <2>2, <2>5, FullFits
  <2> HIDE DEF b
  <2>7. ideal[c] = Full
    BY <2>2, <2>3, <2>4, <2>5, FullFits
  <2> QED
    BY <2>6, <2>7
<1> QED
  BY <1>1, <1>2

\* bucketFor, for a bucket already there or a new one: client c ends up with
\* bucket b in a slot that is in nobody else's use, and the clients no longer in
\* the map have expired or been displaced.
LEMMA BucketGiven ==
  ASSUME LimiterInv, NEW r \in Calls, NEW c \in Clients, held[r] = 0,
         NEW kept, kept \subseteq Alive, IsFiniteSet(kept \cup {c}),
         Cardinality(kept \cup {c}) <= MaxBuckets,
         NEW slot \in Slots, NEW b \in Bucket, b.sinceSeen = 0,
         \A d \in kept : buckets[d] = slot => d = c,
         \A q \in Calls : held[q] = slot => client[q] = c,
         buckets' = [d \in kept \cup {c} |-> IF d = c THEN slot ELSE buckets[d]],
         heap' = Heap(kept, slot, b),
         Give(r, c, slot),
         displaced \subseteq displaced', displaced' \subseteq Clients,
         Alive \ (kept \cup {c}) \subseteq displaced',
         ideal[c] <= Refilled(b),
         c \notin displaced =>
           /\ Refilled(b) <= ideal[c]
           /\ \A q \in Calls : held[q] # 0 /\ client[q] = c => held[q] = slot
  PROVE  LimiterInv'
<1> DEFINE bs == [d \in kept \cup {c} |-> IF d = c THEN slot ELSE buckets[d]]
           hp == [s \in Slots |-> IF s = slot THEN b
                                  ELSE IF Collected(s, kept) THEN Unused ELSE heap[s]]
           hd == [held EXCEPT ![r] = slot]
           cl == [client EXCEPT ![r] = c]
<1>1. LimiterTypeOK /\ Owned /\ NoneShort /\ NoneExtra /\ AdmittedAsConfigured
  BY DEF LimiterInv
<1>2. buckets' = bs /\ heap' = hp /\ held' = hd /\ client' = cl
  BY DEF Give, Heap
<1>3. UNCHANGED <<stalled, ideal, overrun, unfair>>
  BY DEF Give
<1>4. slot # 0 /\ 0 \notin Slots
  BY LimiterAssumption, FS_CardinalityType DEF Slots
<1>5. Alive \subseteq DOMAIN buckets /\ DOMAIN buckets \subseteq Clients
  BY <1>1 DEF Alive, LimiterTypeOK
<1>6. /\ DOMAIN bs = kept \cup {c} /\ bs[c] = slot
      /\ \A d \in kept : d # c => bs[d] = buckets[d] /\ buckets[d] # slot
  OBVIOUS
<1>7. /\ hd[r] = slot /\ cl[r] = c
      /\ \A q \in Calls : q # r => hd[q] = held[q] /\ cl[q] = client[q]
  BY <1>1 DEF LimiterTypeOK
<1>8. hp[slot] = b
  OBVIOUS
<1>9. \A d \in kept : d # c => hp[buckets[d]] = heap[buckets[d]]
  <2> SUFFICES ASSUME NEW d \in kept, d # c PROVE hp[buckets[d]] = heap[buckets[d]]
    OBVIOUS
  <2>1. buckets[d] \in Slots /\ buckets[d] # slot
    BY <1>1, <1>5 DEF LimiterTypeOK
  <2>2. ~ Collected(buckets[d], kept)
    BY DEF Collected
  <2> QED
    BY <2>1, <2>2
<1>10. \A q \in Calls : held[q] # 0 /\ held[q] # slot => hp[held[q]] = heap[held[q]]
  <2> SUFFICES ASSUME NEW q \in Calls, held[q] # 0, held[q] # slot
               PROVE  hp[held[q]] = heap[held[q]]
    OBVIOUS
  <2>1. held[q] \in Slots
    BY <1>1 DEF LimiterTypeOK
  <2>2. ~ Collected(held[q], kept)
    BY DEF Collected
  <2> QED
    BY <2>1, <2>2
<1>11. LimiterTypeOK'
  <2>1. hp \in [Slots -> Bucket]
    BY <1>1, BucketFacts DEF LimiterTypeOK
  <2>2. hd \in [Calls -> Slots \cup {0}] /\ cl \in [Calls -> Clients \cup {Nobody}]
    BY <1>1 DEF LimiterTypeOK
  <2>3. \A d \in DOMAIN bs : bs[d] \in Slots
    BY <1>1, <1>5, <1>6 DEF LimiterTypeOK
  <2>4. DOMAIN bs \subseteq Clients /\ Cardinality(DOMAIN bs) <= MaxBuckets
    BY <1>5, <1>6
  <2> HIDE DEF bs, hp, hd, cl
  <2> QED
    BY <1>1, <1>2, <1>3, <2>1, <2>2, <2>3, <2>4 DEF LimiterTypeOK
<1>12. IsFiniteSet(DOMAIN buckets')
  BY <1>2, <1>6
<1> HIDE DEF bs, hp, hd, cl
<1>13. Owned'
  <2>1. \A d, e \in DOMAIN bs : bs[d] = bs[e] => d = e
    BY <1>1, <1>5, <1>6 DEF Owned
  <2>2. \A q \in Calls : hd[q] # 0 => cl[q] \in Clients
    BY <1>1, <1>7 DEF Owned
  <2>3. \A q \in Calls : \A d \in DOMAIN bs : hd[q] # 0 /\ hd[q] = bs[d] => d = cl[q]
    BY <1>1, <1>5, <1>6, <1>7 DEF Owned
  <2>4. \A p, q \in Calls : hd[p] # 0 /\ hd[p] = hd[q] => cl[p] = cl[q]
    BY <1>1, <1>7 DEF Owned
  <2> QED
    BY <1>2, <2>1, <2>2, <2>3, <2>4 DEF Owned
<1>14. NoneShort'
  <2>1. \A d \in DOMAIN bs : ideal[d] <= Refilled(hp[bs[d]])
    BY <1>1, <1>5, <1>6, <1>8, <1>9 DEF NoneShort
  <2>2. \A q \in Calls : hd[q] # 0 => ideal[cl[q]] <= Refilled(hp[hd[q]])
    BY <1>1, <1>7, <1>8, <1>10 DEF NoneShort
  <2> QED
    BY <1>2, <1>3, <2>1, <2>2 DEF NoneShort, Refilled
<1>15. NoneExtra'
  <2> SUFFICES ASSUME NEW d \in Clients \ displaced'
               PROVE  /\ d \in DOMAIN bs => Earned(d, hp[bs[d]])
                      /\ d \notin DOMAIN bs => ideal[d] = Full
                      /\ \A q \in Calls : hd[q] # 0 /\ cl[q] = d =>
                           d \in DOMAIN bs /\ hd[q] = bs[d] /\ hp[bs[d]].sinceSeen <= stalled[q]
    BY <1>2, <1>3 DEF NoneExtra, Earned, Refilled
  <2>1. d \notin displaced
    OBVIOUS
  <2>2. stalled \in [Calls -> 0..MaxStall] /\ ideal \in [Clients -> 0..Full]
    BY <1>1 DEF LimiterTypeOK
  <2>3. CASE d = c
    <3>1. Earned(c, b)
      BY <2>1, <2>2, <2>3, FullFits DEF Earned
    <3>2. \A q \in Calls : hd[q] # 0 /\ cl[q] = c => hd[q] = slot
      BY <1>7, <2>1, <2>3
    <3>3. \A q \in Calls : b.sinceSeen <= stalled[q]
      BY <2>2, FullFits
    <3> QED
      BY <1>6, <1>8, <2>3, <3>1, <3>2, <3>3
  <2>4. CASE d # c /\ d \in kept
    <3>1. bs[d] = buckets[d] /\ hp[bs[d]] = heap[buckets[d]] /\ d \in DOMAIN buckets
      BY <1>5, <1>6, <1>9, <2>4
    <3>2. Earned(d, hp[bs[d]])
      BY <1>1, <2>1, <3>1 DEF NoneExtra
    <3>3. \A q \in Calls : hd[q] # 0 /\ cl[q] = d =>
            hd[q] = bs[d] /\ hp[bs[d]].sinceSeen <= stalled[q]
      BY <1>1, <1>7, <2>1, <2>4, <3>1 DEF NoneExtra
    <3> QED
      BY <1>6, <2>4, <3>2, <3>3
  <2>5. CASE d # c /\ d \notin kept
    <3>1. d \notin Alive
      BY <2>5
    <3>2. ideal[d] = Full /\ \A q \in Calls : held[q] # 0 => client[q] # d
      BY <2>1, <3>1, Forgotten
    <3> QED
      BY <1>6, <1>7, <2>5, <3>2
  <2> QED
    BY <2>3, <2>4, <2>5
<1>16. AdmittedAsConfigured'
  BY <1>1, <1>3 DEF AdmittedAsConfigured
<1> QED
  BY <1>11, <1>12, <1>13, <1>14, <1>15, <1>16 DEF LimiterInv

\* A known client's bucket is marked as seen and otherwise left as it is.
LEMMA KnownKeeps ==
  ASSUME LimiterInv, NEW r \in Calls, NEW c \in Clients, BucketForKnown(r, c)
  PROVE  LimiterInv'
<1> DEFINE slot == buckets[c]
           b == Seen(heap[slot])
<1>1. LimiterTypeOK /\ Owned /\ NoneShort /\ NoneExtra /\ IsFiniteSet(DOMAIN buckets)
  BY DEF LimiterInv
<1>2. held[r] = 0 /\ c \in Alive
  BY DEF BucketForKnown
<1>3. c \in DOMAIN buckets /\ Alive \subseteq DOMAIN buckets
  BY <1>2 DEF Alive
<1>4. Alive \cup {c} = Alive /\ IsFiniteSet(Alive) /\ Cardinality(Alive) <= MaxBuckets
  <2>1. IsFiniteSet(Alive) /\ Cardinality(Alive) <= Cardinality(DOMAIN buckets)
    BY <1>1, <1>3, FS_Subset
  <2>2. Cardinality(Alive) \in Nat /\ Cardinality(DOMAIN buckets) \in Nat /\ MaxBuckets \in Nat
    BY <1>1, <2>1, FS_CardinalityType, LimiterAssumption
  <2> QED
    BY <1>1, <1>2, <2>1, <2>2 DEF LimiterTypeOK
<1>5. slot \in Slots /\ heap[slot] \in Bucket
  BY <1>1, <1>3 DEF LimiterTypeOK
<1>6. b \in Bucket /\ b.sinceSeen = 0 /\ Refilled(b) = Refilled(heap[slot])
  BY <1>5, BucketFacts
<1>7. slot # 0
  BY <1>5, LimiterAssumption, FS_CardinalityType DEF Slots
<1>8. \A d \in Alive : buckets[d] = slot => d = c
  BY <1>1, <1>3 DEF Owned
<1>9. \A q \in Calls : held[q] = slot => client[q] = c
  BY <1>1, <1>3, <1>7 DEF Owned
<1>10. buckets' = [d \in Alive \cup {c} |-> IF d = c THEN slot ELSE buckets[d]]
  BY <1>4 DEF BucketForKnown
<1>11. heap' = Heap(Alive, slot, b) /\ Give(r, c, slot) /\ displaced' = displaced
  BY DEF BucketForKnown
<1>12. ideal[c] <= Refilled(b)
  BY <1>1, <1>3, <1>6 DEF NoneShort
<1>13. c \notin displaced =>
         /\ Refilled(b) <= ideal[c]
         /\ \A q \in Calls : held[q] # 0 /\ client[q] = c => held[q] = slot
  BY <1>1, <1>3, <1>6 DEF NoneExtra, Earned
<1>14. displaced \subseteq displaced' /\ displaced' \subseteq Clients
       /\ Alive \ (Alive \cup {c}) \subseteq displaced'
  BY <1>1, <1>11 DEF LimiterTypeOK
<1> HIDE DEF b, slot
<1> QED
  BY <1>2, <1>4, <1>5, <1>6, <1>8, <1>9, <1>10, <1>11, <1>12, <1>13, <1>14, BucketGiven

\* What evictOldestLocked leaves has room for one more bucket.
LEMMA RoomMade ==
  ASSUME LimiterTypeOK, IsFiniteSet(DOMAIN buckets), NEW c, c \notin Alive,
         NEW evicted \in IF NoRoom(Alive) THEN {{d} : d \in LongestUnseen(Alive)} ELSE {{}}
  PROVE  LET kept == Alive \ evicted
         IN  /\ evicted \subseteq Alive
             /\ IsFiniteSet(kept) /\ Cardinality(kept) < MaxBuckets
             /\ IsFiniteSet(kept \cup {c}) /\ Cardinality(kept \cup {c}) <= MaxBuckets
<1> DEFINE kept == Alive \ evicted
<1>1. IsFiniteSet(Alive) /\ Cardinality(Alive) <= MaxBuckets
  <2>1. IsFiniteSet(Alive) /\ Cardinality(Alive) <= Cardinality(DOMAIN buckets)
    BY FS_Subset DEF Alive
  <2>2. Cardinality(Alive) \in Nat /\ Cardinality(DOMAIN buckets) \in Nat /\ MaxBuckets \in Nat
    BY <2>1, FS_CardinalityType, LimiterAssumption
  <2> QED
    BY <2>1, <2>2 DEF LimiterTypeOK
<1>2. Cardinality(Alive) \in Nat /\ MaxBuckets \in Nat
  BY <1>1, FS_CardinalityType, LimiterAssumption
<1>3. evicted \subseteq Alive /\ IsFiniteSet(kept) /\ Cardinality(kept) < MaxBuckets
  <2>1. CASE NoRoom(Alive)
    <3>1. PICK d \in Alive : evicted = {d}
      BY <2>1 DEF LongestUnseen
    <3>2. IsFiniteSet(Alive \ {d}) /\ Cardinality(Alive \ {d}) = Cardinality(Alive) - 1
      BY <1>1, FS_RemoveElement
    <3> QED
      BY <1>1, <1>2, <3>1, <3>2
  <2>2. CASE ~ NoRoom(Alive)
    <3>1. evicted = {} /\ kept = Alive
      BY <2>2
    <3> QED
      BY <1>1, <1>2, <2>2, <3>1 DEF NoRoom
  <2> QED
    BY <2>1, <2>2
<1>4. IsFiniteSet(kept \cup {c}) /\ Cardinality(kept \cup {c}) = Cardinality(kept) + 1
  BY <1>3, FS_AddElement
<1>5. Cardinality(kept) \in Nat
  BY <1>3, FS_CardinalityType
<1> HIDE DEF kept
<1>6. Cardinality(kept \cup {c}) <= MaxBuckets
  BY <1>2, <1>3, <1>4, <1>5
<1> QED
  BY <1>3, <1>4, <1>6 DEF kept

\* A new bucket is full: it gives nothing away, because its client has none that
\* is alive and so a full ideal one, unless it was displaced.
LEMMA NewKeeps ==
  ASSUME LimiterInv, NEW r \in Calls, NEW c \in Clients, BucketForNew(r, c)
  PROVE  LimiterInv'
<1>1. LimiterTypeOK /\ Owned /\ NoneShort /\ NoneExtra /\ IsFiniteSet(DOMAIN buckets)
  BY DEF LimiterInv
<1>2. held[r] = 0 /\ c \notin Alive
  BY DEF BucketForNew
<1>3. PICK evicted \in IF NoRoom(Alive) THEN {{d} : d \in LongestUnseen(Alive)} ELSE {{}} :
        LET kept == Alive \ evicted
            slot == Unreferenced(kept)
        IN  /\ buckets' = [d \in kept \cup {c} |-> IF d = c THEN slot ELSE buckets[d]]
            /\ heap' = Heap(kept, slot, NewBucket)
            /\ Give(r, c, slot)
            /\ displaced' = displaced \cup evicted
  BY DEF BucketForNew
<1> DEFINE kept == Alive \ evicted
           slot == Unreferenced(kept)
<1>4. /\ evicted \subseteq Alive
      /\ IsFiniteSet(kept) /\ Cardinality(kept) < MaxBuckets
      /\ IsFiniteSet(kept \cup {c}) /\ Cardinality(kept \cup {c}) <= MaxBuckets
  BY <1>1, <1>2, RoomMade
<1>5. Alive \subseteq DOMAIN buckets /\ DOMAIN buckets \subseteq Clients
  BY <1>1 DEF Alive, LimiterTypeOK
<1>6. slot \in Slots /\ Collected(slot, kept)
  <2>1. \A d \in kept : buckets[d] \in Slots
    BY <1>1, <1>5 DEF LimiterTypeOK
  <2>2. held \in [Calls -> Slots \cup {0}] /\ kept \subseteq DOMAIN buckets
    BY <1>1, <1>5 DEF LimiterTypeOK
  <2> HIDE DEF kept
  <2> QED
    BY <1>2, <1>4, <2>1, <2>2, SpareSlot
<1>7. (\A d \in kept : buckets[d] # slot) /\ (\A q \in Calls : held[q] # slot)
  BY <1>6 DEF Collected
<1>8. NewBucket \in Bucket /\ Refilled(NewBucket) = Full /\ NewBucket.sinceSeen = 0
  BY BucketFacts
<1>9. ideal[c] \in 0..Full
  BY <1>1 DEF LimiterTypeOK
<1>10. ideal[c] <= Refilled(NewBucket)
  BY <1>8, <1>9, FullFits
<1>11. c \notin displaced =>
         /\ Refilled(NewBucket) <= ideal[c]
         /\ \A q \in Calls : held[q] # 0 /\ client[q] = c => held[q] = slot
  <2> SUFFICES ASSUME c \notin displaced
               PROVE  /\ Refilled(NewBucket) <= ideal[c]
                      /\ \A q \in Calls : held[q] # 0 /\ client[q] = c => held[q] = slot
    OBVIOUS
  <2>1. ideal[c] = Full /\ \A q \in Calls : held[q] # 0 => client[q] # c
    BY <1>2, Forgotten
  <2> QED
    BY <1>8, <2>1, FullFits
<1>12. displaced \subseteq displaced' /\ displaced' \subseteq Clients
       /\ Alive \ (kept \cup {c}) \subseteq displaced'
  BY <1>1, <1>3, <1>4, <1>5 DEF LimiterTypeOK
<1>13. /\ buckets' = [d \in kept \cup {c} |-> IF d = c THEN slot ELSE buckets[d]]
       /\ heap' = Heap(kept, slot, NewBucket) /\ Give(r, c, slot)
  BY <1>3
<1>14. kept \subseteq Alive
  OBVIOUS
<1> HIDE DEF kept, slot
<1> QED
  BY <1>2, <1>4, <1>6, <1>7, <1>8, <1>10, <1>11, <1>12, <1>13, <1>14, BucketGiven

\* allow takes the same token from the bucket and from the ideal one: neither
\* falls below the other, and both refuse together.
LEMMA AllowKeeps ==
  ASSUME LimiterInv, NEW r \in Calls, Allow(r)
  PROVE  LimiterInv'
<1> DEFINE s == held[r]
           c == client[r]
           b == heap[s]
           units == Refilled(b)
           nb == [b EXCEPT !.units = Remaining(units), !.sinceLast = 0]
           hp == [heap EXCEPT ![s] = nb]
           hd == [held EXCEPT ![r] = 0]
           cl == [client EXCEPT ![r] = Nobody]
           st == [stalled EXCEPT ![r] = 0]
<1>1. LimiterTypeOK /\ Owned /\ NoneShort /\ NoneExtra /\ AdmittedAsConfigured
      /\ IsFiniteSet(DOMAIN buckets)
  BY DEF LimiterInv
<1>2. s # 0 /\ s \in Slots /\ c \in Clients
  BY <1>1 DEF Allow, LimiterTypeOK, Owned
<1>3. b \in Bucket /\ units \in 0..Full
  BY <1>1, <1>2, BucketFacts DEF LimiterTypeOK
<1>4. Cost \in Nat
  BY LimiterAssumption
<1>5. nb \in Bucket /\ Refilled(nb) = Remaining(units) /\ nb.sinceSeen = b.sinceSeen
  <2> DEFINE left == Remaining(units)
  <2>1. left \in 0..Full
    BY <1>3, <1>4, FullFits DEF Remaining
  <2>2. nb = [b EXCEPT !.units = left, !.sinceLast = 0]
    OBVIOUS
  <2> HIDE DEF left, nb, b, units
  <2>3. 0 \in 0..Full
    BY FullFits
  <2>4. nb \in Bucket /\ nb.units = left /\ nb.sinceLast = 0 /\ nb.sinceSeen = b.sinceSeen
    BY <1>3, <2>3, <2>1, <2>2 DEF Bucket
  <2>5. Refilled(nb) = left
    BY <2>1, <2>4, FullFits DEF Refilled, Capped
  <2> QED
    BY <2>4, <2>5 DEF left
<1>6. heap' = hp /\ held' = hd /\ client' = cl /\ stalled' = st
      /\ buckets' = buckets /\ displaced' = displaced
  <2>1. heap' = [heap EXCEPT ![s].units = Remaining(units), ![s].sinceLast = 0]
    BY DEF Allow
  <2>2. heap' = hp
    BY <1>1, <1>2, <1>3, <2>1 DEF LimiterTypeOK
  <2> QED
    BY <2>2 DEF Allow
<1>7. /\ hp[s] = nb /\ hp \in [Slots -> Bucket]
      /\ \A z \in Slots : z # s => hp[z] = heap[z]
  BY <1>1, <1>2, <1>5 DEF LimiterTypeOK
<1>8. /\ hd[r] = 0 /\ hd \in [Calls -> Slots \cup {0}]
      /\ cl \in [Calls -> Clients \cup {Nobody}] /\ st \in [Calls -> 0..MaxStall]
      /\ \A q \in Calls : q # r => hd[q] = held[q] /\ cl[q] = client[q] /\ st[q] = stalled[q]
  BY <1>1, FullFits DEF LimiterTypeOK
<1>9. ideal \in [Clients -> 0..Full] /\ ideal[c] <= units
  BY <1>1, <1>2 DEF LimiterTypeOK, NoneShort
<1>10. c \notin displaced =>
         c \in DOMAIN buckets /\ s = buckets[c] /\ units <= ideal[c] /\ b.sinceSeen <= stalled[r]
  BY <1>1, <1>2 DEF NoneExtra, Earned
<1>11. /\ ideal' \in [Clients -> 0..Full]
       /\ \A d \in Clients : d # c => ideal'[d] = ideal[d]
       /\ ideal'[c] <= Refilled(nb)
       /\ c \notin displaced => Refilled(nb) <= ideal'[c]
       /\ overrun' \subseteq displaced /\ unfair' = {}
  <2>1. CASE units >= Cost
    <3> DEFINE paid == IF ideal[c] < Cost THEN 0 ELSE ideal[c] - Cost
    <3>1. /\ ideal' = [ideal EXCEPT ![c] = paid]
          /\ overrun' = IF ideal[c] < Cost THEN overrun \cup {c} ELSE overrun
          /\ unfair' = unfair
      BY <2>1 DEF Allow
    <3>2. Refilled(nb) = units - Cost
      BY <1>5, <2>1 DEF Remaining
    <3>3. ideal[c] \in 0..Full
      BY <1>2, <1>9
    <3>4. paid \in 0..Full /\ paid <= units - Cost /\ (units <= ideal[c] => units - Cost <= paid)
      BY <1>3, <1>4, <1>9, <2>1, <3>3, FullFits
    <3>5. c \notin displaced => ~ (ideal[c] < Cost)
      BY <1>3, <1>4, <1>10, <2>1, <3>3, FullFits
    <3> HIDE DEF paid, nb, units
    <3>6. ideal' \in [Clients -> 0..Full] /\ ideal'[c] = paid
          /\ \A d \in Clients : d # c => ideal'[d] = ideal[d]
      BY <1>2, <1>9, <3>1, <3>4
    <3>7. overrun' \subseteq displaced /\ unfair' = {}
      BY <1>1, <3>1, <3>5 DEF AdmittedAsConfigured
    <3> QED
      BY <1>10, <3>2, <3>4, <3>6, <3>7
  <2>2. CASE ~ (units >= Cost)
    <3>1. /\ ideal' = ideal /\ overrun' = overrun
          /\ unfair' = IF ideal[c] >= Cost THEN unfair \cup {c} ELSE unfair
      BY <2>2 DEF Allow
    <3>2. Refilled(nb) = units
      BY <1>5, <2>2 DEF Remaining
    <3>3. ~ (ideal[c] >= Cost)
      BY <1>2, <1>3, <1>4, <1>9, <2>2, FullFits
    <3> HIDE DEF nb, units
    <3> QED
      BY <1>1, <1>9, <1>10, <3>1, <3>2, <3>3 DEF AdmittedAsConfigured
  <2> QED
    BY <2>1, <2>2
<1>12. LimiterTypeOK'
  <2> HIDE DEF hp, hd, cl, st, c, nb, s
  <2> QED
    BY <1>1, <1>6, <1>7, <1>8, <1>11 DEF LimiterTypeOK, AdmittedAsConfigured
<1>13. /\ \A d \in DOMAIN buckets : buckets[d] \in Slots /\ (buckets[d] = s => d = c)
       /\ \A q \in Calls : held[q] = s => client[q] = c
  BY <1>1, <1>2 DEF LimiterTypeOK, Owned
<1> HIDE DEF hp, hd, cl, st, nb, units
<1>14. Owned'
  BY <1>1, <1>6, <1>8 DEF Owned
<1>15. NoneShort'
  <2>1. \A d \in DOMAIN buckets : ideal'[d] <= Refilled(hp[buckets[d]])
    <3> SUFFICES ASSUME NEW d \in DOMAIN buckets PROVE ideal'[d] <= Refilled(hp[buckets[d]])
      OBVIOUS
    <3>1. d \in Clients /\ ideal[d] <= Refilled(heap[buckets[d]])
      BY <1>1 DEF LimiterTypeOK, NoneShort
    <3>2. CASE buckets[d] = s
      BY <1>7, <1>11, <1>13, <3>2
    <3>3. CASE buckets[d] # s /\ d # c
      BY <1>7, <1>11, <1>13, <3>1, <3>3
    <3>4. CASE buckets[d] # s /\ d = c
      <4>1. hp[buckets[d]] = heap[buckets[d]]
        BY <1>7, <1>13, <3>4
      <4>2. ideal'[c] <= ideal[c]
        <5>1. ideal'[c] \in 0..Full /\ ideal[c] \in 0..Full
          BY <1>2, <1>9, <1>11
        <5>2. ideal' = ideal \/ ideal' = [ideal EXCEPT ![c] = IF @ < Cost THEN 0 ELSE @ - Cost]
          BY DEF Allow
        <5> QED
          BY <1>2, <1>4, <1>9, <5>1, <5>2, FullFits
      <4>3. Refilled(heap[buckets[d]]) \in 0..Full
        BY <1>1, <1>13, BucketFacts DEF LimiterTypeOK
      <4>4. ideal'[c] \in 0..Full /\ ideal[c] \in 0..Full
        BY <1>2, <1>9, <1>11
      <4> QED
        BY <3>1, <3>4, <4>1, <4>2, <4>3, <4>4, FullFits
    <3> QED
      BY <3>2, <3>3, <3>4
  <2>2. \A q \in Calls : hd[q] # 0 => ideal'[cl[q]] <= Refilled(hp[hd[q]])
    <3> SUFFICES ASSUME NEW q \in Calls, hd[q] # 0 PROVE ideal'[cl[q]] <= Refilled(hp[hd[q]])
      OBVIOUS
    <3>1. q # r /\ hd[q] = held[q] /\ cl[q] = client[q] /\ held[q] \in Slots /\ client[q] \in Clients
      BY <1>1, <1>8 DEF LimiterTypeOK, Owned
    <3>2. ideal[client[q]] <= Refilled(heap[held[q]])
      BY <1>1, <3>1 DEF NoneShort
    <3>3. CASE held[q] = s
      BY <1>7, <1>11, <1>13, <3>1, <3>3
    <3>4. CASE held[q] # s
      <4>1. hp[held[q]] = heap[held[q]]
        BY <1>7, <3>1, <3>4
      <4>2. ideal'[client[q]] <= ideal[client[q]]
        <5>1. ideal' = ideal \/ ideal' = [ideal EXCEPT ![c] = IF @ < Cost THEN 0 ELSE @ - Cost]
          BY DEF Allow
        <5>2. ideal[client[q]] \in 0..Full /\ ideal[c] \in 0..Full
          BY <1>2, <1>9, <3>1
        <5> QED
          BY <1>2, <1>4, <1>9, <3>1, <5>1, <5>2, FullFits
      <4>3. Refilled(heap[held[q]]) \in 0..Full
        BY <1>1, <3>1, BucketFacts DEF LimiterTypeOK
      <4>4. ideal'[client[q]] \in 0..Full /\ ideal[client[q]] \in 0..Full
        BY <1>9, <1>11, <3>1
      <4> QED
        BY <3>1, <3>2, <4>1, <4>2, <4>3, <4>4, FullFits
    <3> QED
      BY <3>3, <3>4
  <2> QED
    BY <1>6, <2>1, <2>2 DEF NoneShort, Refilled
<1>16. NoneExtra'
  <2> SUFFICES ASSUME NEW d \in Clients \ displaced
               PROVE  /\ d \in DOMAIN buckets =>
                           Refilled(hp[buckets[d]]) <= ideal'[d]
                           /\ (ideal'[d] = Full \/ ideal'[d] + MaxStall >= hp[buckets[d]].sinceSeen)
                      /\ d \notin DOMAIN buckets => ideal'[d] = Full
                      /\ \A q \in Calls : hd[q] # 0 /\ cl[q] = d =>
                           d \in DOMAIN buckets /\ hd[q] = buckets[d]
                             /\ hp[buckets[d]].sinceSeen <= st[q]
    BY <1>6 DEF NoneExtra, Earned, Refilled
  <2>1. /\ d \in DOMAIN buckets => Earned(d, heap[buckets[d]])
        /\ d \notin DOMAIN buckets => ideal[d] = Full
        /\ \A q \in Calls : held[q] # 0 /\ client[q] = d =>
             d \in DOMAIN buckets /\ held[q] = buckets[d]
               /\ heap[buckets[d]].sinceSeen <= stalled[q]
    BY <1>1 DEF NoneExtra
  <2>2. CASE d = c
    <3>1. c \in DOMAIN buckets /\ s = buckets[c] /\ b.sinceSeen <= stalled[r]
      BY <1>10, <2>2
    <3>2. stalled[r] \in 0..MaxStall /\ ideal'[c] \in 0..Full /\ b.sinceSeen \in 0..BucketTTL + 1
      BY <1>1, <1>2, <1>3, <1>11 DEF LimiterTypeOK, Bucket
    <3>3. ideal'[c] + MaxStall >= hp[buckets[c]].sinceSeen
      BY <1>5, <1>7, <3>1, <3>2, FullFits
    <3>4. \A q \in Calls : hd[q] # 0 /\ cl[q] = c =>
            hd[q] = buckets[c] /\ hp[buckets[c]].sinceSeen <= st[q]
      BY <1>5, <1>7, <1>8, <2>1, <2>2, <3>1
    <3> QED
      BY <1>7, <1>11, <2>2, <3>1, <3>3, <3>4
  <2>3. CASE d # c
    <3>1. ideal'[d] = ideal[d]
      BY <1>11, <2>3
    <3>2. d \in DOMAIN buckets => hp[buckets[d]] = heap[buckets[d]]
      BY <1>7, <1>13, <2>3
    <3> QED
      BY <1>8, <2>1, <3>1, <3>2 DEF Earned
  <2> QED
    BY <2>2, <2>3
<1>17. AdmittedAsConfigured'
  BY <1>6, <1>11 DEF AdmittedAsConfigured
<1> QED
  BY <1>1, <1>6, <1>12, <1>14, <1>15, <1>16, <1>17 DEF LimiterInv

\* Time refills a bucket and the ideal one alike, and a request waits as long as
\* its bucket goes unseen.
LEMMA TickKeeps == LimiterInv /\ LimiterTick => LimiterInv'
<1> SUFFICES ASSUME LimiterInv, LimiterTick PROVE LimiterInv'
  OBVIOUS
<1>1. LimiterTypeOK /\ Owned /\ NoneShort /\ NoneExtra /\ AdmittedAsConfigured
      /\ IsFiniteSet(DOMAIN buckets)
  BY DEF LimiterInv
<1> DEFINE hp == [s \in Slots |-> IF Collected(s, DOMAIN buckets) THEN Unused ELSE Aged(heap[s])]
           st == [r \in Calls |-> IF held[r] = 0 THEN 0 ELSE stalled[r] + 1]
           idl == [c \in Clients |-> Capped(ideal[c] + 1, Full)]
<1>2. heap' = hp /\ stalled' = st /\ ideal' = idl
      /\ UNCHANGED <<buckets, held, client, displaced, overrun, unfair>>
  BY DEF LimiterTick
<1>3. /\ hp \in [Slots -> Bucket]
      /\ \A d \in DOMAIN buckets : hp[buckets[d]] = Aged(heap[buckets[d]])
                                   /\ heap[buckets[d]] \in Bucket
      /\ \A q \in Calls : held[q] # 0 => hp[held[q]] = Aged(heap[held[q]])
                                         /\ heap[held[q]] \in Bucket
  <2>1. hp \in [Slots -> Bucket]
    BY <1>1, BucketFacts DEF LimiterTypeOK
  <2>2. ASSUME NEW d \in DOMAIN buckets
        PROVE  hp[buckets[d]] = Aged(heap[buckets[d]]) /\ heap[buckets[d]] \in Bucket
    <3>1. buckets[d] \in Slots /\ ~ Collected(buckets[d], DOMAIN buckets)
      BY <1>1 DEF LimiterTypeOK, Collected
    <3> QED
      BY <1>1, <3>1 DEF LimiterTypeOK
  <2>3. ASSUME NEW q \in Calls, held[q] # 0
        PROVE  hp[held[q]] = Aged(heap[held[q]]) /\ heap[held[q]] \in Bucket
    <3>1. held[q] \in Slots /\ ~ Collected(held[q], DOMAIN buckets)
      BY <1>1, <2>3 DEF LimiterTypeOK, Collected
    <3> QED
      BY <1>1, <3>1 DEF LimiterTypeOK
  <2> HIDE DEF hp
  <2> QED
    BY <2>1, <2>2, <2>3
<1>4. st \in [Calls -> 0..MaxStall] /\ \A q \in Calls : held[q] # 0 => st[q] = stalled[q] + 1
  <2>1. \A q \in Calls : held[q] # 0 => stalled[q] < MaxStall
    BY DEF LimiterTick
  <2> QED
    BY <1>1, <2>1, FullFits DEF LimiterTypeOK
<1>5. /\ idl \in [Clients -> 0..Full]
      /\ \A c \in Clients : ideal[c] \in 0..Full /\ idl[c] = Capped(ideal[c] + 1, Full)
  BY <1>1, FullFits DEF LimiterTypeOK, Capped
<1>6. \A m, n \in 0..Full : m <= n => Capped(m + 1, Full) <= Capped(n + 1, Full)
  BY FullFits DEF Capped
<1> HIDE DEF hp, st, idl
<1>7. LimiterTypeOK' /\ Owned' /\ AdmittedAsConfigured' /\ IsFiniteSet(DOMAIN buckets')
  BY <1>1, <1>2, <1>3, <1>4, <1>5 DEF LimiterTypeOK, Owned, AdmittedAsConfigured
<1>8. NoneShort'
  <2>1. \A d \in DOMAIN buckets : idl[d] <= Refilled(hp[buckets[d]])
    <3> SUFFICES ASSUME NEW d \in DOMAIN buckets PROVE idl[d] <= Refilled(hp[buckets[d]])
      OBVIOUS
    <3>1. d \in Clients /\ ideal[d] <= Refilled(heap[buckets[d]])
      BY <1>1 DEF LimiterTypeOK, NoneShort
    <3>2. Refilled(heap[buckets[d]]) \in 0..Full
          /\ Refilled(hp[buckets[d]]) = Capped(Refilled(heap[buckets[d]]) + 1, Full)
      BY <1>3, BucketFacts
    <3> QED
      BY <1>5, <1>6, <3>1, <3>2
  <2>2. \A q \in Calls : held[q] # 0 => idl[client[q]] <= Refilled(hp[held[q]])
    <3> SUFFICES ASSUME NEW q \in Calls, held[q] # 0
                 PROVE  idl[client[q]] <= Refilled(hp[held[q]])
      OBVIOUS
    <3>1. client[q] \in Clients /\ ideal[client[q]] <= Refilled(heap[held[q]])
      BY <1>1 DEF Owned, NoneShort
    <3>2. Refilled(heap[held[q]]) \in 0..Full
          /\ Refilled(hp[held[q]]) = Capped(Refilled(heap[held[q]]) + 1, Full)
      BY <1>3, BucketFacts
    <3> QED
      BY <1>5, <1>6, <3>1, <3>2
  <2> QED
    BY <1>2, <2>1, <2>2 DEF NoneShort, Refilled
<1>9. NoneExtra'
  <2> SUFFICES ASSUME NEW d \in Clients \ displaced
               PROVE  /\ d \in DOMAIN buckets =>
                           Refilled(hp[buckets[d]]) <= idl[d]
                           /\ (idl[d] = Full \/ idl[d] + MaxStall >= hp[buckets[d]].sinceSeen)
                      /\ d \notin DOMAIN buckets => idl[d] = Full
                      /\ \A q \in Calls : held[q] # 0 /\ client[q] = d =>
                           d \in DOMAIN buckets /\ held[q] = buckets[d]
                             /\ hp[buckets[d]].sinceSeen <= st[q]
    BY <1>2 DEF NoneExtra, Earned, Refilled
  <2>1. ideal[d] \in 0..Full /\ idl[d] = Capped(ideal[d] + 1, Full)
    BY <1>5
  <2>2. CASE d \in DOMAIN buckets
    <3> DEFINE b == heap[buckets[d]]
    <3>1. b \in Bucket /\ hp[buckets[d]] = Aged(b)
      BY <1>3, <2>2
    <3>2. Refilled(b) \in 0..Full /\ Refilled(Aged(b)) = Capped(Refilled(b) + 1, Full)
          /\ Aged(b) \in Bucket /\ Aged(b).sinceSeen <= b.sinceSeen + 1
      BY <3>1, BucketFacts
    <3>3. Refilled(b) <= ideal[d] /\ (ideal[d] = Full \/ ideal[d] + MaxStall >= b.sinceSeen)
      BY <1>1, <2>2 DEF NoneExtra, Earned
    <3>4. Refilled(hp[buckets[d]]) <= idl[d]
      BY <1>6, <2>1, <3>1, <3>2, <3>3
    <3>5. b.sinceSeen \in 0..BucketTTL + 1 /\ Aged(b).sinceSeen \in 0..BucketTTL + 1
      BY <3>1, <3>2 DEF Bucket
    <3> HIDE DEF b
    <3>6. idl[d] = Full \/ idl[d] + MaxStall >= hp[buckets[d]].sinceSeen
      BY <2>1, <3>1, <3>2, <3>3, <3>5, FullFits DEF Capped
    <3>7. ASSUME NEW q \in Calls, held[q] # 0, client[q] = d
          PROVE  held[q] = buckets[d] /\ hp[buckets[d]].sinceSeen <= st[q]
      <4>1. held[q] = buckets[d] /\ b.sinceSeen <= stalled[q]
        BY <1>1, <3>7 DEF NoneExtra, b
      <4>2. st[q] = stalled[q] + 1 /\ stalled[q] \in 0..MaxStall
        BY <1>1, <1>4, <3>7 DEF LimiterTypeOK
      <4> QED
        BY <3>1, <3>2, <3>5, <4>1, <4>2, FullFits
    <3> QED
      BY <2>2, <3>4, <3>6, <3>7
  <2>3. CASE d \notin DOMAIN buckets
    <3>1. ideal[d] = Full /\ \A q \in Calls : held[q] # 0 => client[q] # d
      BY <1>1, <2>3 DEF NoneExtra
    <3> QED
      BY <2>1, <2>3, <3>1, FullFits DEF Capped
  <2> QED
    BY <2>2, <2>3
<1> QED
  BY <1>7, <1>8, <1>9 DEF LimiterInv

LEMMA LimiterKeeps == LimiterInv /\ [LimiterNext]_limiterVars => LimiterInv'
<1> SUFFICES ASSUME LimiterInv, [LimiterNext]_limiterVars PROVE LimiterInv'
  OBVIOUS
<1>1. ASSUME NEW r \in Calls, NEW c \in Clients, BucketForKnown(r, c) PROVE LimiterInv'
  BY <1>1, KnownKeeps
<1>2. ASSUME NEW r \in Calls, NEW c \in Clients, BucketForNew(r, c) PROVE LimiterInv'
  BY <1>2, NewKeeps
<1>3. ASSUME NEW r \in Calls, Allow(r) PROVE LimiterInv'
  BY <1>3, AllowKeeps
<1>4. CASE LimiterTick
  BY <1>4, TickKeeps
<1>5. CASE UNCHANGED limiterVars
  BY <1>5 DEF limiterVars, LimiterInv, LimiterTypeOK, Owned, NoneShort, NoneExtra, Earned,
              AdmittedAsConfigured, Refilled
<1> QED
  BY <1>1, <1>2, <1>3, <1>4, <1>5 DEF LimiterNext

LEMMA LimiterHolds == LimiterSpec => []LimiterInv
  BY LimiterStarts, LimiterKeeps, PTL DEF LimiterSpec

\* Whatever the number of clients and of requests at a time, the map of buckets
\* stays within RATE_LIMIT_MAX_BUCKETS.
THEOREM LimiterTypeCorrect == LimiterSpec => []LimiterTypeOK
<1>1. LimiterInv => LimiterTypeOK
  BY DEF LimiterInv
<1> QED
  BY <1>1, LimiterHolds, PTL

\* For every number of clients and requests, rate, size of the map and idle
\* time that outlasts a refill: a client whose bucket was never evicted for room
\* is admitted exactly as one bucket of its own would admit it, and none is
\* refused that its own bucket would admit.
THEOREM Admission == LimiterSpec => []AdmittedAsConfigured
<1>1. LimiterInv => AdmittedAsConfigured
  BY DEF LimiterInv
<1> QED
  BY <1>1, LimiterHolds, PTL

=================================================================================
