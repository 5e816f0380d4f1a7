--------------------------- MODULE MsgTableProofs ---------------------------
(***************************************************************************)
(* Safety of MsgTable for any tasks, ids, hash and length of the table.    *)
(***************************************************************************)
EXTENDS MsgTable, TLAPS, FiniteSetTheorems, SequenceTheorems, WellFoundedInduction

At(p) == table[p[1]][p[2]]
Drawn(t) == pc[t] \in {"stamp", "lock", "count", "link"}

(* What the tasks that store keep true.                                    *)
Chained ==
  /\ table \in [Buckets -> Seq(DataEntry)]
  /\ \A p \in Places : At(p).id \in Id /\ Index(At(p).id) = p[1]

Drafted ==
  /\ draft \in [Task -> DataEntry \cup {NULL}] /\ aim \in [Task -> Seq(DataEntry)]
  /\ made \in [Task -> Nat] /\ pc \in [Task -> {"idle", "stamp", "draw", "lock", "count", "link"}]
  /\ now \in 0 .. MaxTime
  /\ \A t \in Task :
       /\ made[t] <= Quota[t]
       /\ pc[t] # "idle" =>
            draft[t] \in DataEntry /\ draft[t].by = t /\ draft[t].nr = made[t] + 1
              /\ made[t] < Quota[t]
       /\ Drawn(t) => draft[t].id \in Id

(* The mutex is held from entries++ to the new head, and meanwhile the     *)
(* chain that the new entry points to does not change.                     *)
Exclusive ==
  /\ lock \in Task \cup {NULL}
  /\ \A t \in Task :
       /\ pc[t] \in {"count", "link"} <=> lock = t
       /\ pc[t] = "link" => aim[t] = table[Index(draft[t].id)]

(* Each entry a task made is at one place.                                 *)
Numbered ==
  /\ \A p \in Places : At(p).nr \in 1 .. made[At(p).by]
  /\ \A t \in Task : \A n \in 1 .. made[t] : \E p \in Places : At(p).by = t /\ At(p).nr = n
  /\ \A p, q \in Places : At(p).by = At(q).by /\ At(p).nr = At(q).nr => p = q

Counted ==
  /\ IsFiniteSet(Places) /\ entries \in Nat
  /\ entries = Cardinality(Places) + IF \E t \in Task : pc[t] = "link" THEN 1 ELSE 0

Raced == \A t \in Task : Drawn(t) /\ (\E e \in Stored : e.id = draft[t].id) => t \in raced

InsertInv == Chained /\ Drafted /\ Exclusive /\ Numbered /\ Counted /\ Raced

(* What the reader and the page keep true.                                 *)
Ordered(s) == \A i, j \in DOMAIN s : i < j => InOrder(s[i], s[j])

Newer(e, s) == \A d \in ToSet(s) : e.timestamp > d.timestamp

ReadTypes ==
  /\ losses \in 0 .. MaxLost /\ mode \in {"up", "broken"}
  /\ reader \in {"idle", "walk", "sort", "send"} /\ request \in {"none", "asked", "served"}
  /\ room \in Nat /\ bucket \in 0 .. size /\ messages \in Seq(DataEntry)
  /\ Len(messages) <= room
  /\ answer # NULL => answer \in Seq(DataEntry)
  /\ newestID \in seenMessageIds \cup {NULL}

OneFetch ==
  /\ reader # "idle" \/ answer # NULL => request = "served"
  /\ reader # "idle" => answer = NULL /\ since_id = newestID
  /\ reader = "idle" => messages = << >> /\ since_id = NULL

Walking ==
  reader \in {"walk", "sort"} =>
    /\ ToSet(messages) \subseteq Stored
    /\ \A e \in ToSet(messages) : Index(e.id) < bucket
    /\ \A i, j \in DOMAIN messages : messages[i] = messages[j] => i = j

Sorted ==
  reader = "send" =>
    /\ Ordered(messages) /\ ToSet(messages) \subseteq Stored
    /\ \A e \in Stored \ ToSet(messages) : e \in late \/ Newer(e, messages)

Answered ==
  answer # NULL =>
    /\ ToSet(answer) \subseteq Stored
    /\ \A e \in Stored \ ToSet(answer) :
         e.id \in seenMessageIds \/ e \in late \/ Twins \/ Newer(e, answer)

Seen == seenMessageIds \subseteq {e.id : e \in Stored}

ReadInv ==
  ReadTypes /\ OneFetch /\ Walking /\ Sorted /\ Answered /\ Seen /\ NothingSkipped

----------------------------------------------------------------------------
(* Sequences, places and chains.                                           *)

LEMMA ConsSet ==
  ASSUME NEW S, NEW s \in Seq(S), NEW e \in S
  PROVE  /\ <<e>> \o s \in Seq(S) /\ DOMAIN (<<e>> \o s) = 1 .. Len(s) + 1
         /\ (<<e>> \o s)[1] = e
         /\ \A i \in 1 .. Len(s) : (<<e>> \o s)[i + 1] = s[i]
<1>1. <<e>> \in Seq(S) /\ Len(<<e>>) = 1 /\ <<e>>[1] = e  OBVIOUS
<1>2. Len(s) \in Nat  BY LenProperties
<1>. DEFINE one == <<e>>
<1>3. one \in Seq(S) /\ Len(one) = 1 /\ one[1] = e  BY <1>1
<1>. HIDE DEF one
<1>4. /\ one \o s \in Seq(S) /\ Len(one \o s) = Len(s) + 1
      /\ \A i \in 1 .. Len(s) + 1 :
           (one \o s)[i] = IF i <= 1 THEN one[i] ELSE s[i - 1]
  <2>1. /\ one \o s \in Seq(S) /\ Len(one \o s) = Len(one) + Len(s)
        /\ \A i \in 1 .. Len(one) + Len(s) :
             (one \o s)[i] = IF i <= Len(one) THEN one[i] ELSE s[i - Len(one)]
    BY <1>3, ConcatProperties
  <2>. QED  BY <1>2, <1>3, <2>1
<1>5. DOMAIN (one \o s) = 1 .. Len(s) + 1  BY <1>2, <1>4, LenProperties
<1>6. \A i \in 1 .. Len(s) : (one \o s)[i + 1] = s[i]  BY <1>2, <1>4
<1>7. (one \o s)[1] = e  BY <1>2, <1>3, <1>4
<1>. QED  BY <1>4, <1>5, <1>6, <1>7 DEF one

LEMMA ConcatParts ==
  ASSUME NEW S, NEW s \in Seq(S), NEW t \in Seq(S)
  PROVE  /\ s \o t \in Seq(S) /\ DOMAIN (s \o t) = 1 .. Len(s) + Len(t)
         /\ \A i \in DOMAIN s : (s \o t)[i] = s[i]
         /\ \A i \in DOMAIN (s \o t) \ DOMAIN s :
              i - Len(s) \in DOMAIN t /\ (s \o t)[i] = t[i - Len(s)]
         /\ ToSet(s \o t) = ToSet(s) \cup ToSet(t)
<1>1. /\ s \o t \in Seq(S) /\ Len(s \o t) = Len(s) + Len(t)
      /\ \A i \in 1 .. Len(s) + Len(t) :
           (s \o t)[i] = IF i <= Len(s) THEN s[i] ELSE t[i - Len(s)]
  BY ConcatProperties
<1>2. /\ DOMAIN s = 1 .. Len(s) /\ DOMAIN t = 1 .. Len(t)
      /\ DOMAIN (s \o t) = 1 .. Len(s) + Len(t)
      /\ Len(s) \in Nat /\ Len(t) \in Nat
  BY <1>1, LenProperties
<1>. DEFINE u == s \o t
<1>. HIDE DEF u
<1>3. /\ \A i \in DOMAIN s : i \in DOMAIN u /\ u[i] = s[i]
      /\ \A i \in DOMAIN u \ DOMAIN s : i - Len(s) \in DOMAIN t /\ u[i] = t[i - Len(s)]
  BY <1>1, <1>2 DEF u
<1>4. \A i \in DOMAIN t : i + Len(s) \in DOMAIN u /\ u[i + Len(s)] = t[i]
  BY <1>1, <1>2 DEF u
<1>5. ToSet(u) = ToSet(s) \cup ToSet(t)
  <2>1. ToSet(s) \subseteq ToSet(u)  BY <1>3 DEF ToSet
  <2>2. ToSet(t) \subseteq ToSet(u)  BY <1>4 DEF ToSet
  <2>3. ToSet(u) \subseteq ToSet(s) \cup ToSet(t)  BY <1>3 DEF ToSet
  <2>. QED  BY <2>1, <2>2, <2>3
<1>. QED  BY <1>1, <1>2, <1>3, <1>5 DEF u

LEMMA PlaceIs ==
  ASSUME NEW chains, NEW p
  PROVE  p \in UNION {{b} \X DOMAIN chains[b] : b \in Buckets}
           <=> \E b \in Buckets : \E i \in DOMAIN chains[b] : p = <<b, i>>
  OBVIOUS

LEMMA StoredIs ==
  ASSUME NEW chains, NEW e
  PROVE  e \in UNION {ToSet(chains[b]) : b \in Buckets}
           <=> \E b \in Buckets : \E i \in DOMAIN chains[b] : e = chains[b][i]
  BY DEF ToSet

(* What create_hashtable makes of the 100 chains data_table.c asks for:    *)
(* for them the assumption on the size holds.                              *)
LEMMA SizeOfProgram == TABLE_SIZE = 100 => size = 101
<1>1. isPrime(101)
  <2>1. ASSUME NEW i \in 5 .. 101, i % 6 = 5, i * i <= 101 PROVE i = 5
    <3>1. CASE i >= 11
      <4>1. i * i >= 11 * 11  BY <3>1
      <4>. QED  BY <2>1, <4>1
    <3>2. CASE i < 11  BY <2>1, <3>2
    <3>. QED  BY <3>1, <3>2
  <2>2. 101 % 5 # 0 /\ 101 % 7 # 0 /\ 101 % 2 # 0 /\ 101 % 3 # 0 /\ 101 > 3  OBVIOUS
  <2>3. \A i \in 5 .. 101 :
          (i % 6 = 5 /\ i * i <= 101) => (101 % i # 0 /\ 101 % (i + 2) # 0)
    <3>1. 5 + 2 = 7  OBVIOUS
    <3>. QED  BY <2>1, <2>2, <3>1
  <2>. QED  BY <2>2, <2>3 DEF isPrime
<1>2. ~ isPrime(100)  BY DEF isPrime
<1>3. SUFFICES ASSUME TABLE_SIZE = 100 PROVE size = 101  OBVIOUS
<1>. DEFINE Fits101(n) == isPrime(n) /\ \A k \in 100 .. n - 1 : ~ isPrime(k)
<1>4. Fits101(101)  BY <1>1, <1>2
<1>5. \A n \in 100 .. 202 : Fits101(n) => n = 101
  <2>1. ASSUME NEW n \in 100 .. 202, Fits101(n), n > 101 PROVE FALSE
    <3>1. 101 \in 100 .. n - 1  BY <2>1
    <3>. QED  BY <1>1, <2>1, <3>1
  <2>2. \A n \in 100 .. 202 : n = 100 \/ n = 101 \/ n > 101  OBVIOUS
  <2>. QED  BY <1>2, <2>1, <2>2
<1>6. size = CHOOSE n \in 100 .. 202 : Fits101(n)  BY <1>3 DEF size
<1>7. 101 \in 100 .. 202  OBVIOUS
<1>. HIDE DEF Fits101
<1>. QED  BY <1>4, <1>5, <1>6, <1>7

LEMMA InBuckets == \A x \in Id : Index(x) \in Buckets
<1>. SUFFICES ASSUME NEW x \in Id PROVE Index(x) \in Buckets  OBVIOUS
<1>1. Mix[x] \in Nat /\ size \in Nat \ {0}  BY MsgTableAssumption, SizeAssumption
<1>. QED  BY <1>1 DEF Index, Buckets

InPlaces == Stored = {At(p) : p \in Places}

(* What is stored under an id is in its chain, so hash_find finds it.      *)
LEMMA Found ==
  ASSUME Chained
  PROVE  /\ Stored = {At(p) : p \in Places}
         /\ \A e \in Stored : e \in DataEntry /\ e.id \in Id
         /\ \A x \in Id : hash_find(x) <=> \E e \in Stored : e.id = x
<1>1. \A p : p \in Places <=> \E b \in Buckets : \E i \in DOMAIN table[b] : p = <<b, i>>
  BY PlaceIs DEF Places
<1>2. \A e : e \in Stored <=> \E b \in Buckets : \E i \in DOMAIN table[b] : e = table[b][i]
  BY StoredIs DEF Stored
<1>3. Stored = {At(p) : p \in Places}
  <2>1. ASSUME NEW e \in Stored PROVE \E p \in Places : e = At(p)
    <3>1. PICK b \in Buckets : \E i \in DOMAIN table[b] : e = table[b][i]  BY <1>2
    <3>2. PICK i \in DOMAIN table[b] : e = table[b][i]  BY <3>1
    <3>3. <<b, i>> \in Places /\ At(<<b, i>>) = table[b][i]  BY <1>1 DEF At
    <3>. QED  BY <3>2, <3>3
  <2>2. ASSUME NEW p \in Places PROVE At(p) \in Stored
    <3>1. PICK b \in Buckets : \E i \in DOMAIN table[b] : p = <<b, i>>  BY <1>1
    <3>2. PICK i \in DOMAIN table[b] : p = <<b, i>>  BY <3>1
    <3>3. At(p) = table[b][i]  BY <3>2 DEF At
    <3>. QED  BY <1>2, <3>3
  <2>. QED  BY <2>1, <2>2
<1>4. \A p \in Places : At(p) \in DataEntry
  <2>. SUFFICES ASSUME NEW b \in Buckets, NEW i \in DOMAIN table[b]
                PROVE  table[b][i] \in DataEntry
    BY <1>1 DEF At
  <2>1. table[b] \in Seq(DataEntry)  BY DEF Chained
  <2>. QED  BY <2>1, ElementOfSeq, LenProperties
<1>5. \A e \in Stored : e \in DataEntry /\ e.id \in Id  BY <1>3, <1>4 DEF Chained
<1>6. ASSUME NEW x \in Id PROVE hash_find(x) <=> \E e \in Stored : e.id = x
  <2>1. ASSUME hash_find(x) PROVE \E e \in Stored : e.id = x
    <3>1. PICK e \in ToSet(table[Index(x)]) : e.id = x  BY <2>1 DEF hash_find
    <3>2. e \in Stored  BY <3>1, <1>2, InBuckets DEF ToSet
    <3>. QED  BY <3>1, <3>2
  <2>2. ASSUME NEW e \in Stored, e.id = x PROVE hash_find(x)
    <3>1. PICK p \in Places : e = At(p)  BY <1>3
    <3>2. Index(x) = p[1]  BY <2>2, <3>1 DEF Chained
    <3>3. e \in ToSet(table[Index(x)])  BY <1>1, <3>1, <3>2 DEF At, ToSet
    <3>. QED  BY <2>2, <3>3 DEF hash_find
  <2>. QED  BY <2>1, <2>2
<1>. QED  BY <1>3, <1>5, <1>6

----------------------------------------------------------------------------
(* Storing an entry.                                                       *)

LEMMA InsertInit == Init => InsertInv
<1>. SUFFICES ASSUME Init PROVE InsertInv  OBVIOUS
<1>1. \A b \in Buckets : table[b] = << >>  BY DEF Init
<1>2. \A p : p \notin Places
  <2>1. \A p : p \in Places <=> \E b \in Buckets : \E i \in DOMAIN table[b] : p = <<b, i>>
    BY PlaceIs DEF Places
  <2>. QED  BY <1>1, <2>1
<1>3. Places = {}  BY <1>2
<1>4. Chained  BY <1>2 DEF Init, Chained
<1>5. Drafted  BY MsgTableAssumption DEF Init, Drafted, Drawn
<1>6. Exclusive  BY MsgTableAssumption DEF Init, Exclusive
<1>7. Numbered  BY <1>2 DEF Init, Numbered
<1>8. Counted
  <2>1. ~ \E t \in Task : pc[t] = "link"  BY DEF Init
  <2>2. Cardinality(Places) = 0 /\ IsFiniteSet(Places)  BY <1>3, FS_EmptySet
  <2>. QED  BY <2>1, <2>2 DEF Init, Counted
<1>9. Raced  BY DEF Init, Raced, Drawn
<1>. QED  BY <1>4, <1>5, <1>6, <1>7, <1>8, <1>9 DEF InsertInv

LEMMA ChainedPlaces == Chained => InPlaces
  BY Found DEF InPlaces

(* Where the entries are once one is linked.                               *)
LEMMA LinkEffect ==
  ASSUME InsertInv, NEW t \in Task, Link(t)
  PROVE  LET b == Index(draft[t].id)
         IN  /\ b \in Buckets /\ table' \in [Buckets -> Seq(DataEntry)]
             /\ \A c \in Buckets : c # b => table'[c] = table[c]
             /\ DOMAIN table'[b] = 1 .. Len(table[b]) + 1 /\ table'[b][1] = draft[t]
             /\ \A i \in 1 .. Len(table[b]) : table'[b][i + 1] = table[b][i]
<1>. DEFINE b == Index(draft[t].id)
<1>1. pc[t] = "link"  BY DEF Link, Goto
<1>2. draft[t] \in DataEntry /\ draft[t].id \in Id /\ aim[t] = table[b]
  BY <1>1 DEF InsertInv, Drafted, Drawn, Exclusive
<1>3. b \in Buckets  BY <1>2, InBuckets
<1>. HIDE DEF b
<1>4. table \in [Buckets -> Seq(DataEntry)] /\ table[b] \in Seq(DataEntry)
  BY <1>3 DEF InsertInv, Chained
<1>5. table' = [table EXCEPT ![b] = <<draft[t]>> \o table[b]]  BY <1>2 DEF Link, b
<1>. DEFINE chain == <<draft[t]>> \o table[b]
<1>6. /\ chain \in Seq(DataEntry) /\ DOMAIN chain = 1 .. Len(table[b]) + 1
      /\ chain[1] = draft[t]
      /\ \A i \in 1 .. Len(table[b]) : chain[i + 1] = table[b][i]
  BY <1>2, <1>4, ConsSet
<1>7. table' = [table EXCEPT ![b] = chain]  BY <1>5
<1>. HIDE DEF chain
<1>8. table'[b] = chain /\ table' \in [Buckets -> Seq(DataEntry)]
  BY <1>3, <1>4, <1>6, <1>7
<1>9. \A c \in Buckets : c # b => table'[c] = table[c]  BY <1>4, <1>7
<1>. QED  BY <1>3, <1>6, <1>8, <1>9 DEF b

LEMMA LinkPlaces ==
  ASSUME InsertInv, NEW t \in Task, Link(t)
  PROVE  LET b == Index(draft[t].id)
         IN  /\ \A p \in Places' :
                  \/ p = <<b, 1>> /\ At(p)' = draft[t]
                  \/ \E q \in Places : /\ At(p)' = At(q) /\ p[1] = q[1]
                                      /\ IF p[1] = b THEN p = <<b, q[2] + 1>> ELSE p = q
             /\ \A q \in Places : \E p \in Places' : At(p)' = At(q)
             /\ \E p \in Places' : p = <<b, 1>> /\ At(p)' = draft[t]
             /\ Places' = Places \cup {<<b, Len(table[b]) + 1>>}
             /\ <<b, Len(table[b]) + 1>> \notin Places
<1>. DEFINE b == Index(draft[t].id)
            last == Len(table[b]) + 1
<1>1. /\ b \in Buckets /\ \A c \in Buckets : c # b => table'[c] = table[c]
      /\ DOMAIN table'[b] = 1 .. last /\ table'[b][1] = draft[t]
      /\ \A i \in 1 .. Len(table[b]) : table'[b][i + 1] = table[b][i]
  BY LinkEffect
<1>2. /\ \A p : p \in Places <=> \E c \in Buckets : \E i \in DOMAIN table[c] : p = <<c, i>>
      /\ \A p : p \in Places' <=> \E c \in Buckets : \E i \in DOMAIN table'[c] : p = <<c, i>>
  BY PlaceIs DEF Places
<1>3. DOMAIN table[b] = 1 .. Len(table[b]) /\ Len(table[b]) \in Nat
  BY <1>1, LenProperties DEF InsertInv, Chained
<1>4. \A p, c, i : p = <<c, i>> => At(p) = table[c][i] /\ At(p)' = table'[c][i]  BY DEF At
<1>. HIDE DEF b
<1>5. ASSUME NEW p \in Places'
      PROVE  \/ p = <<b, 1>> /\ At(p)' = draft[t]
             \/ \E q \in Places : /\ At(p)' = At(q) /\ p[1] = q[1]
                                 /\ IF p[1] = b THEN p = <<b, q[2] + 1>> ELSE p = q
  <2>1. PICK c \in Buckets : \E i \in DOMAIN table'[c] : p = <<c, i>>  BY <1>2
  <2>2. PICK i \in DOMAIN table'[c] : p = <<c, i>>  BY <2>1
  <2>3. CASE c # b
    <3>1. p \in Places /\ At(p)' = At(p)  BY <1>1, <1>2, <1>4, <2>2, <2>3
    <3>. QED  BY <2>2, <2>3, <3>1
  <2>4. CASE c = b /\ i = 1  BY <1>1, <1>4, <2>2, <2>4
  <2>5. CASE c = b /\ i # 1
    <3>1. i - 1 \in 1 .. Len(table[b]) /\ (i - 1) + 1 = i  BY <1>1, <1>3, <2>2, <2>5
    <3>2. table'[b][i] = table[b][i - 1]  BY <1>1, <3>1
    <3>3. <<b, i - 1>> \in Places  BY <1>1, <1>2, <1>3, <3>1
    <3>. QED  BY <1>4, <2>2, <2>5, <3>1, <3>2, <3>3
  <2>. QED  BY <2>3, <2>4, <2>5
<1>6. ASSUME NEW q \in Places PROVE \E p \in Places' : At(p)' = At(q)
  <2>1. PICK c \in Buckets : \E i \in DOMAIN table[c] : q = <<c, i>>  BY <1>2
  <2>2. PICK i \in DOMAIN table[c] : q = <<c, i>>  BY <2>1
  <2>3. CASE c # b
    <3>1. q \in Places'  BY <1>1, <1>2, <2>2, <2>3
    <3>. QED  BY <1>1, <1>4, <2>2, <2>3, <3>1
  <2>4. CASE c = b
    <3>1. i \in 1 .. Len(table[b]) /\ i + 1 \in 1 .. last  BY <1>3, <2>2, <2>4
    <3>2. \E p \in Places' : p = <<b, i + 1>>  BY <1>1, <1>2, <3>1
    <3>. QED  BY <1>1, <1>4, <2>2, <2>4, <3>1, <3>2
  <2>. QED  BY <2>3, <2>4
<1>7. \E p \in Places' : p = <<b, 1>> /\ At(p)' = draft[t]
  <2>1. 1 \in DOMAIN table'[b]  BY <1>1, <1>3
  <2>2. <<b, 1>> \in Places'  BY <1>1, <1>2, <2>1
  <2>3. \A p : p = <<b, 1>> => At(p)' = table'[b][1]  BY DEF At
  <2>. QED  BY <1>1, <2>2, <2>3
<1>8. <<b, last>> \notin Places  BY <1>2, <1>3
<1>9. Places' = Places \cup {<<b, last>>}
  <2>1. \A i : i \in 1 .. last <=> i \in 1 .. Len(table[b]) \/ i = last  BY <1>3
  <2>. HIDE DEF last
  <2>2. ASSUME NEW p PROVE p \in Places' <=> p \in Places \/ p = <<b, last>>
    <3>1. ASSUME p \in Places' PROVE p \in Places \/ p = <<b, last>>
      <4>1. PICK c \in Buckets : \E i \in DOMAIN table'[c] : p = <<c, i>>  BY <1>2, <3>1
      <4>2. PICK i \in DOMAIN table'[c] : p = <<c, i>>  BY <4>1
      <4>3. i \in DOMAIN table[c] \/ (c = b /\ i = last)  BY <1>1, <1>3, <2>1, <4>2
      <4>. QED  BY <1>2, <4>2, <4>3
    <3>2. ASSUME p \in Places PROVE p \in Places'
      <4>1. PICK c \in Buckets : \E i \in DOMAIN table[c] : p = <<c, i>>  BY <1>2, <3>2
      <4>2. PICK i \in DOMAIN table[c] : p = <<c, i>>  BY <4>1
      <4>3. i \in DOMAIN table'[c]  BY <1>1, <1>3, <2>1, <4>2
      <4>. QED  BY <1>2, <4>2, <4>3
    <3>3. <<b, last>> \in Places'  BY <1>1, <1>2, <2>1
    <3>. QED  BY <3>1, <3>2, <3>3
  <2>. QED  BY <2>2
<1>. QED  BY <1>5, <1>6, <1>7, <1>8, <1>9 DEF b

LEMMA LinkKeeps ==
  ASSUME InsertInv, NEW t \in Task, Link(t)
  PROVE  InsertInv' /\ Stored' = Stored \cup {draft[t]} /\ draft[t] \notin Stored
<1>. DEFINE b == Index(draft[t].id)
            x == draft[t]
            last == <<b, Len(table[b]) + 1>>
<1>1. /\ \A p \in Places' :
           \/ p = <<b, 1>> /\ At(p)' = x
           \/ \E q \in Places : /\ At(p)' = At(q) /\ p[1] = q[1]
                               /\ IF p[1] = b THEN p = <<b, q[2] + 1>> ELSE p = q
      /\ \A q \in Places : \E p \in Places' : At(p)' = At(q)
      /\ \E p \in Places' : p = <<b, 1>> /\ At(p)' = x
      /\ Places' = Places \cup {last}
      /\ last \notin Places
  BY LinkPlaces
<1>2. b \in Buckets /\ table' \in [Buckets -> Seq(DataEntry)]  BY LinkEffect
<1>3. /\ mode = "up" /\ pc[t] = "link" /\ pc' = [pc EXCEPT ![t] = "idle"]
      /\ draft' = [draft EXCEPT ![t] = NULL] /\ aim' = [aim EXCEPT ![t] = << >>]
      /\ made' = [made EXCEPT ![t] = @ + 1] /\ lock' = NULL /\ entries' = entries
      /\ now' = now
      /\ raced' = {u \in Task \ {t} : u \in raced \/ (pc[u] # "idle" /\ draft[u].id = x.id)}
  BY DEF Link, Goto
<1>4. x \in DataEntry /\ x.id \in Id /\ x.by = t /\ x.nr = made[t] + 1 /\ made[t] < Quota[t]
  BY <1>3 DEF InsertInv, Drafted, Drawn
<1>5. lock = t /\ \A u \in Task : pc[u] \in {"count", "link"} => u = t
  BY <1>3 DEF InsertInv, Exclusive
<1>6. made \in [Task -> Nat] /\ Quota \in [Task -> Nat]
  BY MsgTableAssumption DEF InsertInv, Drafted
<1>. HIDE DEF b, x, last
<1>7. Stored = {At(p) : p \in Places}  BY Found DEF InsertInv
<1>8. Chained'
  <2>1. \A p \in Places' : At(p)'.id \in Id /\ Index(At(p)'.id) = p[1]
    BY <1>1, <1>4 DEF InsertInv, Chained, b, x
  <2>. QED  BY <1>2, <2>1 DEF Chained
<1>9. Stored' = Stored \cup {x}
  <2>1. InPlaces'  BY <1>8, ChainedPlaces, PTL
  <2>2. ASSUME NEW p \in Places' PROVE At(p)' \in Stored \cup {x}  BY <1>1, <1>7
  <2>3. ASSUME NEW e \in Stored \cup {x} PROVE \E p \in Places' : e = At(p)'
    <3>1. CASE e = x  BY <1>1, <3>1
    <3>2. CASE e \in Stored
      <4>1. PICK q \in Places : e = At(q)  BY <1>7, <3>2
      <4>2. PICK p \in Places' : At(p)' = At(q)  BY <1>1
      <4>. QED  BY <4>1, <4>2
    <3>. QED  BY <3>1, <3>2
  <2>. QED  BY <2>1, <2>2, <2>3 DEF InPlaces
<1>10. \A p \in Places : At(p).by \in Task /\ At(p).nr \in 1 .. made[At(p).by]
  <2>1. \A p \in Places : At(p) \in DataEntry  BY <1>7, Found DEF InsertInv
  <2>. QED  BY <2>1 DEF InsertInv, Numbered, DataEntry
<1>11. \A p \in Places : ~ (At(p).by = t /\ At(p).nr = x.nr)  BY <1>4, <1>6, <1>10
<1>12. x \notin Stored  BY <1>4, <1>7, <1>11
<1>13. \A u \in Task : made'[u] = IF u = t THEN made[t] + 1 ELSE made[u]  BY <1>3, <1>6
<1>14. Drafted'
  <2>1. made' \in [Task -> Nat]  BY <1>3, <1>6
  <2>2. /\ draft' \in [Task -> DataEntry \cup {NULL}] /\ aim' \in [Task -> Seq(DataEntry)]
        /\ pc' \in [Task -> {"idle", "stamp", "draw", "lock", "count", "link"}]
        /\ now' \in 0 .. MaxTime
    BY <1>3 DEF InsertInv, Drafted
  <2>3. \A u \in Task : u # t => pc'[u] = pc[u] /\ draft'[u] = draft[u]
    BY <1>3 DEF InsertInv, Drafted
  <2>4. pc'[t] = "idle"  BY <1>3 DEF InsertInv, Drafted
  <2>5. ASSUME NEW u \in Task
        PROVE  /\ made'[u] <= Quota[u]
               /\ pc'[u] # "idle" =>
                    draft'[u] \in DataEntry /\ draft'[u].by = u /\ draft'[u].nr = made'[u] + 1
                      /\ made'[u] < Quota[u]
               /\ pc'[u] \in {"stamp", "lock", "count", "link"} => draft'[u].id \in Id
    BY <1>4, <1>6, <1>13, <2>3, <2>4 DEF InsertInv, Drafted, Drawn
  <2>. QED  BY <2>1, <2>2, <2>5 DEF Drafted, Drawn
<1>15. Exclusive'
  <2>1. \A u \in Task : pc'[u] \notin {"count", "link"}
    BY <1>3, <1>5 DEF InsertInv, Drafted
  <2>. QED  BY <1>3, <2>1, MsgTableAssumption DEF Exclusive
<1>16. Numbered'
  <2>1. \A p \in Places' : At(p)'.nr \in 1 .. made'[At(p)'.by]
    <3>1. ASSUME NEW p \in Places' PROVE At(p)'.nr \in 1 .. made'[At(p)'.by]
      <4>1. CASE At(p)' = x  BY <1>4, <1>6, <1>13, <4>1
      <4>2. ASSUME NEW q \in Places, At(p)' = At(q)
            PROVE  At(p)'.nr \in 1 .. made'[At(p)'.by]
        <5>1. At(q).by \in Task /\ At(q).nr \in 1 .. made[At(q).by]  BY <1>10
        <5>2. made'[At(q).by] >= made[At(q).by] /\ made[At(q).by] \in Nat
              /\ made'[At(q).by] \in Nat
          BY <1>6, <1>13, <5>1
        <5>. QED  BY <4>2, <5>1, <5>2
      <4>. QED  BY <1>1, <4>1, <4>2
    <3>. QED  BY <3>1
  <2>2. ASSUME NEW u \in Task, NEW n \in 1 .. made'[u]
        PROVE  \E p \in Places' : At(p)'.by = u /\ At(p)'.nr = n
    <3>1. CASE u = t /\ n = made[t] + 1  BY <1>1, <1>4, <3>1
    <3>2. CASE ~ (u = t /\ n = made[t] + 1)
      <4>1. n \in 1 .. made[u]  BY <1>6, <1>13, <3>2
      <4>2. PICK q \in Places : At(q).by = u /\ At(q).nr = n  BY <4>1 DEF InsertInv, Numbered
      <4>. QED  BY <1>1, <4>2
    <3>. QED  BY <3>1, <3>2
  <2>3. ASSUME NEW p \in Places', NEW q \in Places',
               At(p)'.by = At(q)'.by, At(p)'.nr = At(q)'.nr
        PROVE  p = q
    <3>1. \A r, s \in Places : At(r).by = At(s).by /\ At(r).nr = At(s).nr => r = s
      BY DEF InsertInv, Numbered
    <3>. QED  BY <1>1, <1>4, <1>11, <2>3, <3>1
  <2>. QED  BY <2>1, <2>2, <2>3 DEF Numbered
<1>17. Counted'
  <2>1. IsFiniteSet(Places) /\ entries = Cardinality(Places) + 1
    BY <1>3 DEF InsertInv, Counted
  <2>2. IsFiniteSet(Places') /\ Cardinality(Places') = Cardinality(Places) + 1
    BY <1>1, <2>1, FS_AddElement
  <2>3. ~ \E u \in Task : pc'[u] = "link"  BY <1>3, <1>5 DEF InsertInv, Drafted
  <2>4. Cardinality(Places) \in Nat  BY <2>1, FS_CardinalityType
  <2>. QED  BY <1>3, <2>1, <2>2, <2>3, <2>4 DEF Counted
<1>18. Raced'
  <2>. SUFFICES ASSUME NEW u \in Task, pc'[u] \in {"stamp", "lock", "count", "link"},
                       NEW e \in Stored', e.id = draft'[u].id
                PROVE  u \in raced'
    BY DEF Raced, Drawn
  <2>1. u # t /\ pc[u] = pc'[u] /\ draft'[u] = draft[u]
    BY <1>3 DEF InsertInv, Drafted
  <2>2. CASE e = x  BY <1>3, <2>1, <2>2
  <2>3. CASE e \in Stored
    <3>1. u \in raced  BY <2>1, <2>3 DEF InsertInv, Raced, Drawn
    <3>. QED  BY <1>3, <2>1, <3>1
  <2>. QED  BY <1>9, <2>2, <2>3
<1>. QED  BY <1>8, <1>9, <1>12, <1>14, <1>15, <1>16, <1>17, <1>18 DEF InsertInv, x

(* The steps that change no chain.                                         *)
LEMMA SameChains ==
  ASSUME InsertInv, table' = table, made' = made
  PROVE  Chained' /\ Numbered' /\ Places' = Places /\ Stored' = Stored
<1>1. Places' = Places /\ Stored' = Stored  BY DEF Places, Stored
<1>2. \A p : At(p)' = At(p)  BY DEF At
<1>. QED  BY <1>1, <1>2 DEF InsertInv, Chained, Numbered

(* A task that goes on to write or to link its entry, or to the mutex.     *)
LEMMA DraftKeeps ==
  ASSUME InsertInv, NEW t \in Task, NEW to \in {"stamp", "draw", "lock"},
         table' = table, made' = made, raced' = raced, lock' = lock, entries' = entries,
         now' = now, aim' = aim, pc' = [pc EXCEPT ![t] = to], NEW x,
         draft' = [draft EXCEPT ![t] = x],
         pc[t] \in {"idle", "stamp", "draw"}, made[t] < Quota[t],
         x \in DataEntry, x.by = t, x.nr = made[t] + 1,
         to # "draw" => x.id \in Id /\ (t \in raced \/ \A e \in Stored : e.id # x.id)
  PROVE  InsertInv'
<1>1. Chained' /\ Numbered' /\ Places' = Places /\ Stored' = Stored  BY SameChains
<1>2. \A u \in Task : u # t => pc'[u] = pc[u] /\ draft'[u] = draft[u]
  BY DEF InsertInv, Drafted
<1>3. pc'[t] = to /\ draft'[t] = x  BY DEF InsertInv, Drafted
<1>4. Drafted'
  <2>1. /\ draft' \in [Task -> DataEntry \cup {NULL}]
        /\ pc' \in [Task -> {"idle", "stamp", "draw", "lock", "count", "link"}]
        /\ now' \in 0 .. MaxTime /\ made' \in [Task -> Nat] /\ aim' \in [Task -> Seq(DataEntry)]
    BY DEF InsertInv, Drafted
  <2>2. ASSUME NEW u \in Task
        PROVE  /\ made'[u] <= Quota[u]
               /\ pc'[u] # "idle" =>
                    draft'[u] \in DataEntry /\ draft'[u].by = u /\ draft'[u].nr = made'[u] + 1
                      /\ made'[u] < Quota[u]
               /\ pc'[u] \in {"stamp", "lock", "count", "link"} => draft'[u].id \in Id
    BY <1>2, <1>3 DEF InsertInv, Drafted, Drawn
  <2>. QED  BY <2>1, <2>2 DEF Drafted, Drawn
<1>5. \A u \in Task : pc'[u] \in {"count", "link"} <=> pc[u] \in {"count", "link"}
  BY <1>2, <1>3 DEF InsertInv
<1>6. \A u \in Task : pc'[u] = "link" <=> pc[u] = "link"
  BY <1>2, <1>3 DEF InsertInv
<1>7. Exclusive'
  <2>1. \A u \in Task : pc[u] = "link" => u # t  OBVIOUS
  <2>2. \A u \in Task : pc'[u] = "link" => aim'[u] = table'[Index(draft'[u].id)]
    BY <1>2, <1>6, <2>1 DEF InsertInv, Exclusive
  <2>. QED  BY <1>5, <2>2 DEF InsertInv, Exclusive
<1>8. Counted'  BY <1>1, <1>6 DEF InsertInv, Counted
<1>9. Raced'
  <2>. SUFFICES ASSUME NEW u \in Task, pc'[u] \in {"stamp", "lock", "count", "link"},
                       NEW e \in Stored, e.id = draft'[u].id
                PROVE  u \in raced
    BY <1>1 DEF Raced, Drawn
  <2>1. CASE u = t  BY <1>3, <2>1
  <2>2. CASE u # t  BY <1>2, <2>2 DEF InsertInv, Raced, Drawn
  <2>. QED  BY <2>1, <2>2
<1>. QED  BY <1>1, <1>4, <1>7, <1>8, <1>9 DEF InsertInv

LEMMA LockKeeps ==
  ASSUME InsertInv, NEW t \in Task, Lock(t)
  PROVE  InsertInv'
<1>1. /\ lock = NULL /\ lock' = t /\ pc[t] = "lock" /\ pc' = [pc EXCEPT ![t] = "count"]
      /\ UNCHANGED <<entries, table, draft, aim, made, raced, now>>
  BY DEF Lock, CanLock, Goto
<1>2. Chained' /\ Numbered' /\ Places' = Places /\ Stored' = Stored  BY <1>1, SameChains
<1>3. /\ \A u \in Task : u # t => pc'[u] = pc[u]
      /\ pc'[t] = "count" /\ pc' \in [Task -> {"idle", "stamp", "draw", "lock", "count", "link"}]
  BY <1>1 DEF InsertInv, Drafted
<1>4. \A u \in Task : Drawn(u)' <=> Drawn(u)  BY <1>1, <1>3 DEF Drawn
<1>5. \A u \in Task : pc'[u] # "idle" <=> pc[u] # "idle"  BY <1>1, <1>3
<1>6. Drafted'  BY <1>1, <1>3, <1>4, <1>5 DEF InsertInv, Drafted
<1>7. \A u \in Task : pc[u] \notin {"count", "link"}
  BY <1>1, MsgTableAssumption DEF InsertInv, Exclusive
<1>8. Exclusive'
  <2>1. \A u \in Task : pc'[u] \in {"count", "link"} <=> lock' = u
    BY <1>1, <1>3, <1>7
  <2>2. \A u \in Task : pc'[u] # "link"  BY <1>3, <1>7
  <2>. QED  BY <1>1, <2>1, <2>2 DEF Exclusive
<1>9. Counted'
  <2>1. \A u \in Task : pc'[u] # "link" /\ pc[u] # "link"  BY <1>3, <1>7
  <2>. QED  BY <1>1, <1>2, <2>1 DEF InsertInv, Counted
<1>10. Raced'  BY <1>1, <1>2, <1>4 DEF InsertInv, Raced
<1>. QED  BY <1>2, <1>6, <1>8, <1>9, <1>10 DEF InsertInv

LEMMA CountKeeps ==
  ASSUME InsertInv, NEW t \in Task, Count(t)
  PROVE  InsertInv'
<1>1. /\ pc[t] = "count" /\ pc' = [pc EXCEPT ![t] = "link"] /\ entries' = entries + 1
      /\ aim' = [aim EXCEPT ![t] = table[Index(draft[t].id)]]
      /\ UNCHANGED <<lock, table, draft, made, raced, now>>
  BY DEF Count, Goto
<1>2. Chained' /\ Numbered' /\ Places' = Places /\ Stored' = Stored  BY <1>1, SameChains
<1>3. /\ \A u \in Task : u # t => pc'[u] = pc[u]
      /\ pc'[t] = "link" /\ pc' \in [Task -> {"idle", "stamp", "draw", "lock", "count", "link"}]
  BY <1>1 DEF InsertInv, Drafted
<1>4. \A u \in Task : Drawn(u)' <=> Drawn(u)  BY <1>1, <1>3 DEF Drawn
<1>5. \A u \in Task : pc'[u] # "idle" <=> pc[u] # "idle"  BY <1>1, <1>3
<1>6. Index(draft[t].id) \in Buckets
  BY <1>1, InBuckets DEF InsertInv, Drafted, Drawn
<1>7. aim' \in [Task -> Seq(DataEntry)]
  BY <1>1, <1>6 DEF InsertInv, Drafted, Chained
<1>8. Drafted'  BY <1>1, <1>3, <1>4, <1>5, <1>7 DEF InsertInv, Drafted
<1>9. lock = t /\ \A u \in Task : pc[u] \in {"count", "link"} => u = t
  BY <1>1 DEF InsertInv, Exclusive
<1>10. Exclusive'
  <2>1. \A u \in Task : pc'[u] \in {"count", "link"} <=> lock' = u  BY <1>1, <1>3, <1>9
  <2>2. aim'[t] = table'[Index(draft'[t].id)]  BY <1>1 DEF InsertInv, Drafted
  <2>3. \A u \in Task : pc'[u] = "link" => u = t  BY <1>3, <1>9
  <2>. QED  BY <1>1, <2>1, <2>2, <2>3 DEF InsertInv, Exclusive
<1>11. Counted'
  <2>1. ~ \E u \in Task : pc[u] = "link"  BY <1>1, <1>9
  <2>2. \E u \in Task : pc'[u] = "link"  BY <1>3
  <2>3. IsFiniteSet(Places) /\ Cardinality(Places) \in Nat
    BY FS_CardinalityType DEF InsertInv, Counted
  <2>. QED  BY <1>1, <1>2, <2>1, <2>2, <2>3 DEF InsertInv, Counted
<1>12. Raced'  BY <1>1, <1>2, <1>4 DEF InsertInv, Raced
<1>. QED  BY <1>2, <1>8, <1>10, <1>11, <1>12 DEF InsertInv

(* The reader, the page and the clock.                                     *)
LEMMA ReadersKeepEntries ==
  ASSUME [api_get_msgs \/ Poll \/ Show \/ Lose \/ Tick]_vars
  PROVE  UNCHANGED insertVars
<1>1. CASE api_get_msgs
  BY <1>1 DEF api_get_msgs, NoMessages, MakeRoom, WalkChain, WalkTooFar, Sort, SortTooFar,
              SendRows, SendTooFar, Reading
<1>2. CASE Poll \/ Show \/ Lose \/ Tick
  BY <1>2 DEF Poll, Show, Lose, Tick
<1>3. CASE UNCHANGED vars  BY <1>3 DEF vars
<1>. QED  BY <1>1, <1>2, <1>3

LEMMA ReadersKeepInsertInv ==
  ASSUME InsertInv, [api_get_msgs \/ Poll \/ Show \/ Lose \/ Tick]_vars
  PROVE  InsertInv'
<1>1. UNCHANGED <<lock, entries, table, pc, draft, aim, made, raced>>
  BY ReadersKeepEntries DEF insertVars
<1>2. now' \in 0 .. MaxTime
  <2>1. now \in 0 .. MaxTime /\ MaxTime \in Nat
    BY MsgTableAssumption DEF InsertInv, Drafted
  <2>2. CASE Tick  BY <2>1, <2>2 DEF Tick
  <2>3. CASE ~ Tick
    <3>1. now' = now
      <4>1. CASE api_get_msgs
        BY <4>1 DEF api_get_msgs, NoMessages, MakeRoom, WalkChain, WalkTooFar, Sort,
                    SortTooFar, SendRows, SendTooFar, Reading
      <4>2. CASE Poll \/ Show \/ Lose  BY <4>2 DEF Poll, Show, Lose
      <4>3. CASE UNCHANGED vars  BY <4>3 DEF vars
      <4>. QED  BY <2>3, <4>1, <4>2, <4>3
    <3>. QED  BY <2>1, <3>1
  <2>. QED  BY <2>2, <2>3
<1>3. Chained' /\ Numbered' /\ Places' = Places /\ Stored' = Stored  BY <1>1, SameChains
<1>4. \A u \in Task : Drawn(u)' <=> Drawn(u)  BY <1>1 DEF Drawn
<1>5. Drafted'  BY <1>1, <1>2, <1>4 DEF InsertInv, Drafted
<1>6. Exclusive'  BY <1>1 DEF InsertInv, Exclusive
<1>7. Counted'  BY <1>1, <1>3 DEF InsertInv, Counted
<1>8. Raced'  BY <1>1, <1>3, <1>4 DEF InsertInv, Raced
<1>. QED  BY <1>3, <1>5, <1>6, <1>7, <1>8 DEF InsertInv

LEMMA InsertStep == InsertInv /\ [Next]_vars => InsertInv'
<1>. SUFFICES ASSUME InsertInv, [Next]_vars PROVE InsertInv'  OBVIOUS
<1>1. Quota \in [Task -> Nat] /\ made \in [Task -> Nat] /\ now \in 0 .. MaxTime
      /\ Handler \in Task
  BY MsgTableAssumption DEF InsertInv, Drafted
<1>2. ASSUME NEW t \in Task, Begin(t) PROVE InsertInv'
  <2>1. /\ pc[t] = "idle" /\ pc' = [pc EXCEPT ![t] = "draw"] /\ made[t] < Quota[t]
        /\ draft' = [draft EXCEPT ![t] = Draft(t, NULL)]
        /\ UNCHANGED <<lock, entries, table, aim, made, raced, now>>
    BY <1>2 DEF Begin, MayBegin, Goto
  <2>2. Draft(t, NULL) \in DataEntry /\ Draft(t, NULL).by = t /\ Draft(t, NULL).nr = made[t] + 1
    BY <1>1 DEF Draft, DataEntry
  <2>. QED  BY <2>1, <2>2, DraftKeeps
<1>3. ASSUME NEW t \in Task, Draw(t) PROVE InsertInv'
  <2>1. /\ pc[t] = "draw" /\ pc' = [pc EXCEPT ![t] = "lock"]
        /\ UNCHANGED <<lock, entries, table, aim, made, raced, now>>
    BY <1>3 DEF Draw, Goto
  <2>2. PICK x \in Id : ~ hash_find(x) /\ draft' = [draft EXCEPT ![t].id = x]
    BY <1>3 DEF Draw
  <2>3. \A e \in Stored : e.id # x  BY <2>2, Found DEF InsertInv
  <2>4. draft[t] \in DataEntry /\ draft[t].by = t /\ draft[t].nr = made[t] + 1 /\ made[t] < Quota[t]
    BY <2>1 DEF InsertInv, Drafted
  <2>. DEFINE y == [draft[t] EXCEPT !.id = x]
  <2>5. y \in DataEntry /\ y.by = t /\ y.nr = made[t] + 1 /\ y.id = x
    BY <2>4 DEF DataEntry
  <2>6. draft' = [draft EXCEPT ![t] = y]  BY <2>2
  <2>. HIDE DEF y
  <2>. QED  BY <2>1, <2>3, <2>4, <2>5, <2>6, DraftKeeps
<1>4. ASSUME NEW x \in Id, Hear(x) PROVE InsertInv'
  <2>1. /\ pc[Handler] = "idle" /\ pc' = [pc EXCEPT ![Handler] = "stamp"]
        /\ made[Handler] < Quota[Handler]
        /\ draft' = [draft EXCEPT ![Handler] = Draft(Handler, x)]
        /\ UNCHANGED <<lock, entries, table, aim, made, raced, now>>
    BY <1>4 DEF Hear, MayBegin, Goto
  <2>2. /\ Draft(Handler, x) \in DataEntry /\ Draft(Handler, x).by = Handler
        /\ Draft(Handler, x).nr = made[Handler] + 1 /\ Draft(Handler, x).id = x
    BY <1>1 DEF Draft, DataEntry
  <2>3. \A e \in Stored : e.id # x  BY <1>4, Found DEF InsertInv, Hear
  <2>. QED  BY <1>1, <2>1, <2>2, <2>3, DraftKeeps
<1>5. CASE Stamp
  <2>1. /\ pc[Handler] = "stamp" /\ pc' = [pc EXCEPT ![Handler] = "lock"]
        /\ draft' = [draft EXCEPT ![Handler].timestamp = now]
        /\ UNCHANGED <<lock, entries, table, aim, made, raced, now>>
    BY <1>5 DEF Stamp, Goto
  <2>2. /\ draft[Handler] \in DataEntry /\ draft[Handler].by = Handler
        /\ draft[Handler].nr = made[Handler] + 1 /\ made[Handler] < Quota[Handler]
        /\ draft[Handler].id \in Id
    BY <1>1, <2>1 DEF InsertInv, Drafted, Drawn
  <2>. DEFINE y == [draft[Handler] EXCEPT !.timestamp = now]
  <2>3. y \in DataEntry /\ y.by = Handler /\ y.nr = made[Handler] + 1 /\ y.id = draft[Handler].id
    BY <1>1, <2>2 DEF DataEntry
  <2>4. draft' = [draft EXCEPT ![Handler] = y]  BY <2>1
  <2>5. Handler \in raced \/ \A e \in Stored : e.id # y.id
    BY <1>1, <2>1, <2>3 DEF InsertInv, Raced, Drawn
  <2>. HIDE DEF y
  <2>. QED  BY <1>1, <2>1, <2>2, <2>3, <2>4, <2>5, DraftKeeps
<1>6. ASSUME NEW t \in Task, Lock(t) PROVE InsertInv'  BY <1>6, LockKeeps
<1>7. ASSUME NEW t \in Task, Count(t) PROVE InsertInv'  BY <1>7, CountKeeps
<1>8. ASSUME NEW t \in Task, Link(t) PROVE InsertInv'  BY <1>8, LinkKeeps
<1>9. CASE [api_get_msgs \/ Poll \/ Show \/ Lose \/ Tick]_vars
  BY <1>9, ReadersKeepInsertInv
<1>. QED
  BY <1>2, <1>3, <1>4, <1>5, <1>6, <1>7, <1>8, <1>9 DEF Next, create_data_object, Finish

(* Two entries share an id only if a task linked one after the task that   *)
(* links the other had looked for it: generate_unique_id and the handler   *)
(* look without the mutex, and hash_insert does not look.                  *)
THEOREM TwinsAreRaced == Spec => []TwinsRace
<1>1. InsertInv => TwinsRace  BY DEF InsertInv, Raced, TwinsRace, Drawn
<1>. QED  BY <1>1, InsertInit, InsertStep, PTL DEF Spec

----------------------------------------------------------------------------
(* Reading the entries.                                                    *)

LEMMA ReadInit == Init => ReadInv
<1>. SUFFICES ASSUME Init PROVE ReadInv  OBVIOUS
<1>1. Stored = {}
  <2>1. \A e : e \in Stored <=> \E b \in Buckets : \E i \in DOMAIN table[b] : e = table[b][i]
    BY StoredIs DEF Stored
  <2>2. \A b \in Buckets : table[b] = << >>  BY DEF Init
  <2>. QED  BY <2>1, <2>2
<1>2. size \in Nat \ {0} /\ MaxLost \in Nat  BY MsgTableAssumption, SizeAssumption
<1>3. ReadTypes
  <2>1. << >> \in Seq(DataEntry) /\ Len(<< >>) = 0  OBVIOUS
  <2>. QED  BY <1>2, <2>1 DEF Init, ReadTypes
<1>. QED
  BY <1>1, <1>3 DEF Init, ReadInv, OneFetch, Walking, Sorted, Answered, Seen, NothingSkipped

(* There are as many entries as places.                                    *)
LEMMA StoredCount ==
  ASSUME InsertInv
  PROVE  IsFiniteSet(Stored) /\ Cardinality(Stored) = Cardinality(Places)
<1>. DEFINE f == [p \in Places |-> At(p)]
<1>1. Stored = {At(p) : p \in Places}  BY Found DEF InsertInv
<1>2. f \in Surjection(Places, Stored)  BY <1>1 DEF Surjection
<1>3. f \in Injection(Places, Stored)
  <2>1. \A p, q \in Places : At(p) = At(q) => p = q  BY DEF InsertInv, Numbered
  <2>. QED  BY <1>1, <2>1 DEF Injection, IsInjective
<1>4. IsFiniteSet(Places)  BY DEF InsertInv, Counted
<1>. QED  BY <1>2, <1>3, <1>4, FS_Surjection

(* An array without repetition has as many elements as it is long.         *)
LEMMA DistinctCount ==
  ASSUME NEW S, NEW s \in Seq(S), \A i, j \in DOMAIN s : s[i] = s[j] => i = j
  PROVE  IsFiniteSet(ToSet(s)) /\ Cardinality(ToSet(s)) = Len(s)
<1>1. Len(s) \in Nat /\ DOMAIN s = 1 .. Len(s) /\ s \in [1 .. Len(s) -> S]
  BY LenProperties
<1>2. IsFiniteSet(1 .. Len(s)) /\ Cardinality(1 .. Len(s)) = Len(s)
  BY <1>1, FS_Interval
<1>3. s \in [1 .. Len(s) -> ToSet(s)]  BY <1>1 DEF ToSet
<1>4. s \in Surjection(1 .. Len(s), ToSet(s))  BY <1>1, <1>3 DEF Surjection, ToSet
<1>5. s \in Injection(1 .. Len(s), ToSet(s))  BY <1>1, <1>3 DEF Injection, IsInjective
<1>. QED  BY <1>2, <1>4, <1>5, FS_Surjection

(* A walk that found as many entries as the count says found them all.     *)
LEMMA WalkComplete ==
  ASSUME InsertInv, ReadInv, reader = "sort", entries = Len(messages)
  PROVE  ToSet(messages) = Stored /\ Cardinality(Stored) = Len(messages)
<1>1. /\ messages \in Seq(DataEntry) /\ ToSet(messages) \subseteq Stored
      /\ \A i, j \in DOMAIN messages : messages[i] = messages[j] => i = j
  BY DEF ReadInv, ReadTypes, Walking
<1>2. Cardinality(ToSet(messages)) = Len(messages)  BY <1>1, DistinctCount
<1>3. IsFiniteSet(Stored) /\ Cardinality(Stored) = Cardinality(Places)  BY StoredCount
<1>4. Cardinality(Stored) \in Nat  BY <1>3, FS_CardinalityType
<1>5. Cardinality(Stored) <= entries
  <2>1. entries = Cardinality(Places) \/ entries = Cardinality(Places) + 1
    <3>1. CASE \E t \in Task : pc[t] = "link"  BY <1>3, <1>4, <3>1 DEF InsertInv, Counted
    <3>2. CASE ~ \E t \in Task : pc[t] = "link"  BY <1>3, <1>4, <3>2 DEF InsertInv, Counted
    <3>. QED  BY <3>1, <3>2
  <2>. QED  BY <1>3, <1>4, <2>1
<1>6. /\ Cardinality(ToSet(messages)) <= Cardinality(Stored)
      /\ Cardinality(Stored) = Cardinality(ToSet(messages)) => Stored = ToSet(messages)
  BY <1>1, <1>3, FS_Subset
<1>7. Cardinality(ToSet(messages)) = Cardinality(Stored)
  BY <1>2, <1>4, <1>5, <1>6
<1>. QED  BY <1>2, <1>6, <1>7

(* So qsort has them all to put in order.                                  *)
LEMMA SortedAll ==
  ASSUME InsertInv, ReadInv, Sort
  PROVE  /\ messages' \in Seq(DataEntry) /\ Len(messages') = Len(messages)
         /\ ToSet(messages') = Stored /\ Len(messages') = Cardinality(Stored)
         /\ Ordered(messages')
<1>1. reader = "sort" /\ entries = Len(messages)  BY DEF Sort, Reading
<1>2. ToSet(messages) = Stored /\ Cardinality(Stored) = Len(messages)  BY <1>1, WalkComplete
<1>3. PICK s \in SetToSeqs(Stored) :
        /\ \A i, j \in DOMAIN s : i < j => InOrder(s[i], s[j])
        /\ messages' = s
  BY <1>2 DEF Sort
<1>. DEFINE n == Cardinality(Stored)
<1>4. n \in Nat /\ IsFiniteSet(Stored)  BY StoredCount, FS_CardinalityType
<1>5. /\ s \in [1 .. n -> Stored]
      /\ \A i, j \in 1 .. n : i # j => s[i] # s[j]
  BY <1>3 DEF SetToSeqs
<1>6. IsFiniteSet(1 .. n) /\ Cardinality(1 .. n) = n  BY <1>4, FS_Interval
<1>7. s \in Injection(1 .. n, Stored)  BY <1>5 DEF Injection, IsInjective
<1>8. s \in Surjection(1 .. n, Stored)
  <2>. HIDE DEF n
  <2>. QED  BY <1>4, <1>6, <1>7, FS_Injection DEF n
<1>9. ToSet(s) = Stored  BY <1>5, <1>8 DEF ToSet, Surjection
<1>10. \A e \in Stored : e \in DataEntry  BY Found DEF InsertInv
<1>11. s \in Seq(DataEntry) /\ Len(s) = n
  <2>. HIDE DEF n
  <2>1. s \in [1 .. n -> DataEntry]  BY <1>5, <1>10
  <2>. QED  BY <1>4, <2>1, SeqDef, LenProperties
<1>. QED  BY <1>2, <1>3, <1>9, <1>11 DEF Ordered

(* A step of a task that links nothing changes nothing the reader sees.    *)
LEMMA SameStored ==
  ASSUME ReadInv, Stored' = Stored,
         UNCHANGED <<readVars, pageVars, answer, late, mode>>
  PROVE  ReadInv'
<1>1. Twins' <=> Twins  BY DEF Twins
<1>. USE DEF readVars, pageVars
<1>2. ReadTypes'  BY DEF ReadInv, ReadTypes
<1>3. OneFetch'  BY DEF ReadInv, OneFetch
<1>4. Walking'  BY DEF ReadInv, Walking
<1>5. Sorted'  BY DEF ReadInv, Sorted
<1>6. Answered'  BY <1>1 DEF ReadInv, Answered
<1>7. Seen'  BY DEF ReadInv, Seen
<1>8. NothingSkipped'  BY <1>1 DEF ReadInv, NothingSkipped
<1>. QED  BY <1>2, <1>3, <1>4, <1>5, <1>6, <1>7, <1>8 DEF ReadInv

(* A new entry is newer than what the page is given, or marked late.       *)
LEMMA LinkReads ==
  ASSUME InsertInv, ReadInv, NEW t \in Task, Link(t)
  PROVE  ReadInv'
<1>. DEFINE x == draft[t]
<1>1. Stored' = Stored \cup {x} /\ x \notin Stored  BY LinkKeeps
<1>2. /\ UNCHANGED <<readVars, pageVars, answer, now, mode>>
      /\ late' = IF \E e \in Given : e.timestamp >= x.timestamp THEN late \cup {x} ELSE late
      /\ pc[t] = "link"
  BY DEF Link, Goto
<1>3. x \in DataEntry /\ \A e \in Stored : e \in DataEntry
  BY <1>2, Found DEF InsertInv, Drafted
<1>. HIDE DEF x
<1>4. Twins => Twins'  BY <1>1 DEF Twins
<1>5. late \subseteq late'  BY <1>2
<1>6. \A e \in Given : e \in Stored
  BY DEF Given, ReadInv, Walking, Sorted, Answered, OneFetch, ReadTypes, EmptySeq, ToSet
<1>7. ASSUME x \notin late' PROVE \A e \in Given : x.timestamp > e.timestamp
  <2>1. \A e \in Given : ~ (e.timestamp >= x.timestamp)  BY <1>2, <1>7
  <2>2. \A e \in Given : e.timestamp \in Nat  BY <1>3, <1>6 DEF DataEntry
  <2>3. x.timestamp \in Nat  BY <1>3 DEF DataEntry
  <2>. QED  BY <2>1, <2>2, <2>3
<1>. USE DEF readVars, pageVars
<1>8. ReadTypes'  BY <1>2 DEF ReadInv, ReadTypes
<1>9. OneFetch'  BY <1>2 DEF ReadInv, OneFetch
<1>10. Walking'  BY <1>1, <1>2 DEF ReadInv, Walking
<1>11. Sorted'
  <2>. SUFFICES ASSUME reader = "send"
                PROVE  /\ Ordered(messages) /\ ToSet(messages) \subseteq Stored'
                       /\ \A e \in Stored' \ ToSet(messages) : e \in late' \/ Newer(e, messages)
    BY <1>2 DEF Sorted
  <2>1. x \in late' \/ Newer(x, messages)  BY <1>7 DEF Newer, Given
  <2>. QED  BY <1>1, <1>5, <2>1 DEF ReadInv, Sorted
<1>12. Answered'
  <2>. SUFFICES ASSUME answer # NULL
                PROVE  /\ ToSet(answer) \subseteq Stored'
                       /\ \A e \in Stored' \ ToSet(answer) :
                            e.id \in seenMessageIds \/ e \in late' \/ Twins' \/ Newer(e, answer)
    BY <1>2 DEF Answered
  <2>1. x \in late' \/ Newer(x, answer)  BY <1>7 DEF Newer, Given
  <2>. QED  BY <1>1, <1>4, <1>5, <2>1 DEF ReadInv, Answered
<1>13. Seen'  BY <1>1, <1>2 DEF ReadInv, Seen
<1>14. NothingSkipped'
  <2>. SUFFICES ASSUME NEW e \in Stored', e.id \notin seenMessageIds, e \notin late', ~ Twins',
                       NEW d \in Stored', d.id = newestID
                PROVE  e.timestamp > d.timestamp
    BY <1>2 DEF NothingSkipped
  <2>1. CASE d \in Stored /\ e \in Stored
    BY <1>4, <1>5, <2>1 DEF ReadInv, NothingSkipped
  <2>2. CASE d \in Stored /\ e = x
    <3>1. d \in DataEntry /\ d.id \in Id  BY <2>2, Found DEF InsertInv
    <3>2. newestID \in seenMessageIds
      BY <3>1, MsgTableAssumption DEF ReadInv, ReadTypes
    <3>3. d \in Given  BY <2>2, <3>2 DEF Given
    <3>. QED  BY <1>7, <2>2, <3>3
  <2>3. CASE d = x
    <3>1. x.id \in Id  BY <1>2 DEF InsertInv, Drafted, Drawn, x
    <3>2. newestID \in seenMessageIds
      BY <2>3, <3>1, MsgTableAssumption DEF ReadInv, ReadTypes
    <3>3. PICK c \in Stored : c.id = newestID  BY <3>2 DEF ReadInv, Seen
    <3>. QED  BY <1>1, <2>3, <3>3 DEF Twins
  <2>. QED  BY <1>1, <2>1, <2>2, <2>3
<1>. QED  BY <1>8, <1>9, <1>10, <1>11, <1>12, <1>13, <1>14 DEF ReadInv

LEMMA WalkReads ==
  ASSUME InsertInv, ReadInv, WalkChain
  PROVE  ReadInv'
<1>1. /\ reader = "walk" /\ bucket < size /\ Len(Walked) <= room
      /\ reader' \in {"walk", "sort"}
      /\ messages' = Walked /\ bucket' = bucket + 1
      /\ UNCHANGED <<insertVars, newestID, seenMessageIds, losses, late, request, answer,
                     since_id, room, mode>>
  BY DEF WalkChain, Reading, Fits
<1>2. Stored' = Stored  BY <1>1 DEF Stored, insertVars
<1>3. bucket \in Buckets /\ bucket \in Nat /\ size \in Nat
  BY <1>1, SizeAssumption DEF ReadInv, ReadTypes, Buckets
<1>. DEFINE chain == table[bucket]
<1>4. messages \in Seq(DataEntry) /\ chain \in Seq(DataEntry)
  BY <1>3 DEF ReadInv, ReadTypes, InsertInv, Chained
<1>5. /\ Walked \in Seq(DataEntry) /\ DOMAIN Walked = 1 .. Len(messages) + Len(chain)
      /\ \A i \in DOMAIN messages : Walked[i] = messages[i]
      /\ \A i \in DOMAIN Walked \ DOMAIN messages :
           i - Len(messages) \in DOMAIN chain /\ Walked[i] = chain[i - Len(messages)]
      /\ ToSet(Walked) = ToSet(messages) \cup ToSet(chain)
  BY <1>4, ConcatParts DEF Walked
<1>6. \A i \in DOMAIN chain : <<bucket, i>> \in Places /\ At(<<bucket, i>>) = chain[i]
  <2>1. \A p : p \in Places <=> \E b \in Buckets : \E i \in DOMAIN table[b] : p = <<b, i>>
    BY PlaceIs DEF Places
  <2>. QED  BY <1>3, <2>1 DEF At
<1>7. \A i \in DOMAIN chain : chain[i] \in Stored /\ Index(chain[i].id) = bucket
  <2>1. \A p \in Places : At(p) \in Stored /\ Index(At(p).id) = p[1]
    BY Found DEF InsertInv, Chained
  <2>. QED  BY <1>6, <2>1
<1>8. \A i, j \in DOMAIN chain : chain[i] = chain[j] => i = j
  <2>. SUFFICES ASSUME NEW i \in DOMAIN chain, NEW j \in DOMAIN chain, chain[i] = chain[j]
                PROVE  i = j
    OBVIOUS
  <2>1. PICK p \in Places : p = <<bucket, i>> /\ At(p) = chain[i]  BY <1>6
  <2>2. PICK q \in Places : q = <<bucket, j>> /\ At(q) = chain[j]  BY <1>6
  <2>3. p = q  BY <2>1, <2>2 DEF InsertInv, Numbered
  <2>. QED  BY <2>1, <2>2, <2>3
<1>. HIDE DEF chain
<1>9. /\ ToSet(messages) \subseteq Stored
      /\ \A e \in ToSet(messages) : Index(e.id) < bucket
      /\ \A i, j \in DOMAIN messages : messages[i] = messages[j] => i = j
  BY <1>1 DEF ReadInv, Walking
<1>10. \A e \in ToSet(chain) : e \in Stored /\ Index(e.id) = bucket  BY <1>7 DEF ToSet
<1>11. ToSet(Walked) \subseteq Stored  BY <1>5, <1>9, <1>10
<1>12. \A e \in Stored : Index(e.id) \in Nat
  <2>1. \A e \in Stored : Index(e.id) \in Buckets  BY Found, InBuckets DEF InsertInv
  <2>. QED  BY <1>3, <2>1 DEF Buckets
<1>13. \A e \in ToSet(Walked) : Index(e.id) < bucket + 1
  BY <1>3, <1>5, <1>9, <1>10, <1>12
<1>14. \A i \in DOMAIN messages : Index(messages[i].id) < bucket  BY <1>9 DEF ToSet
<1>15. ASSUME NEW i \in DOMAIN Walked, NEW j \in DOMAIN Walked, Walked[i] = Walked[j]
       PROVE  i = j
  <2>1. CASE i \in DOMAIN messages /\ j \in DOMAIN messages  BY <1>5, <1>9, <1>15, <2>1
  <2>2. CASE i \notin DOMAIN messages /\ j \notin DOMAIN messages
    <3>1. i - Len(messages) = j - Len(messages)  BY <1>5, <1>8, <1>15, <2>2
    <3>. QED  BY <1>4, <1>5, <3>1, LenProperties
  <2>3. CASE i \in DOMAIN messages /\ j \notin DOMAIN messages
    BY <1>3, <1>5, <1>7, <1>14, <1>15, <2>3
  <2>4. CASE i \notin DOMAIN messages /\ j \in DOMAIN messages
    BY <1>3, <1>5, <1>7, <1>14, <1>15, <2>4
  <2>. QED  BY <2>1, <2>2, <2>3, <2>4
<1>16. ReadTypes'  BY <1>1, <1>3, <1>5 DEF ReadInv, ReadTypes
<1>17. OneFetch'  BY <1>1 DEF ReadInv, OneFetch
<1>18. Walking'  BY <1>1, <1>2, <1>11, <1>13, <1>15 DEF Walking
<1>19. Sorted' /\ Answered' /\ Seen'
  BY <1>1, <1>2 DEF ReadInv, Sorted, Answered, Seen, OneFetch
<1>20. NothingSkipped'  BY <1>1, <1>2 DEF ReadInv, NothingSkipped, Twins
<1>. QED  BY <1>16, <1>17, <1>18, <1>19, <1>20 DEF ReadInv

LEMMA SortReads ==
  ASSUME InsertInv, ReadInv, Sort
  PROVE  ReadInv'
<1>1. /\ messages' \in Seq(DataEntry) /\ Len(messages') = Len(messages)
      /\ ToSet(messages') = Stored /\ Ordered(messages')
  BY SortedAll
<1>2. /\ reader = "sort" /\ reader' = "send"
      /\ UNCHANGED <<insertVars, newestID, seenMessageIds, losses, late, request, answer,
                     since_id, room, bucket, mode>>
  BY DEF Sort, Reading
<1>3. Stored' = Stored  BY <1>2 DEF Stored, insertVars
<1>4. ReadTypes'  BY <1>1, <1>2 DEF ReadInv, ReadTypes
<1>5. OneFetch' /\ Walking' /\ Answered' /\ Seen'
  BY <1>2, <1>3 DEF ReadInv, OneFetch, Walking, Answered, Seen
<1>6. Sorted'
  <2>1. Ordered(messages)'  BY <1>1 DEF Ordered, InOrder
  <2>. QED  BY <1>1, <1>3, <2>1 DEF Sorted
<1>7. NothingSkipped'  BY <1>2, <1>3 DEF ReadInv, NothingSkipped, Twins
<1>. QED  BY <1>4, <1>5, <1>6, <1>7 DEF ReadInv

LEMMA LeastExists ==
  ASSUME NEW S \in SUBSET Nat, S # {}
  PROVE  \E i \in S : \A j \in S : i <= j
<1>1. PICK i \in S : \A j \in S : ~ (<<j, i>> \in OpToRel(<, Nat))
  BY NatLessThanWellFounded, WFMin, Zenon
<1>2. ASSUME NEW j \in S PROVE i <= j
  <2>1. CASE j < i
    <3>1. <<j, i>> \in {ss \in Nat \X Nat : ss[1] < ss[2]}  BY <2>1, SMT
    <3>. QED  BY <3>1, <1>1, Zenon DEF OpToRel
  <2>2. CASE ~ (j < i)
    BY <2>2, SMT
  <2>. QED  BY <2>1, <2>2
<1>. QED  BY <1>2

(* The rows of an answer are those before the id that was asked for.       *)
LEMMA RowsAre ==
  ASSUME messages \in Seq(DataEntry)
  PROVE  /\ Rows \in Seq(DataEntry)
         /\ \A i \in DOMAIN Rows : i \in DOMAIN messages /\ Rows[i] = messages[i]
         /\ \A k \in DOMAIN messages :
              \/ k \in DOMAIN Rows
              \/ \E m \in DOMAIN messages : m <= k /\ messages[m].id = since_id
<1>. DEFINE older == {i \in DOMAIN messages : messages[i].id = since_id}
<1>1. DOMAIN messages = 1 .. Len(messages) /\ Len(messages) \in Nat  BY LenProperties
<1>2. CASE older = {}  BY <1>2 DEF Rows
<1>3. CASE older # {}
  <2>1. \E m \in older : \A j \in older : m <= j
    <3>1. older \in SUBSET Nat  BY <1>1
    <3>. HIDE DEF older
    <3>. QED  BY <1>3, <3>1, LeastExists
  <2>. DEFINE m == Min(older)
  <2>2. m \in older  BY <2>1 DEF Min
  <2>3. m - 1 \in 0 .. Len(messages) /\ m \in DOMAIN messages /\ messages[m].id = since_id
    BY <1>1, <2>2
  <2>4. Rows = SubSeq(messages, 1, m - 1)  BY <1>3 DEF Rows
  <2>. HIDE DEF m
  <2>5. /\ Rows \in Seq(DataEntry) /\ Len(Rows) = m - 1
        /\ \A i \in 1 .. m - 1 : Rows[i] = messages[i]
    <3>. DEFINE u == SubSeq(messages, 1, m - 1)
    <3>1. \A i \in 1 .. m - 1 : messages[i] \in DataEntry  BY <1>1, <2>3, ElementOfSeq
    <3>2. /\ u \in Seq(DataEntry)
          /\ Len(u) = IF 1 <= m - 1 THEN (m - 1) - 1 + 1 ELSE 0
          /\ \A i \in 1 .. (m - 1) - 1 + 1 : u[i] = messages[1 + i - 1]
      BY <1>1, <2>3, <3>1, SubSeqProperties
    <3>. HIDE DEF u
    <3>3. Len(u) = m - 1 /\ \A i \in 1 .. m - 1 : u[i] = messages[i]
      BY <1>1, <2>3, <3>2
    <3>. QED  BY <2>4, <3>2, <3>3 DEF u
  <2>6. DOMAIN Rows = 1 .. m - 1  BY <2>5, LenProperties
  <2>7. ASSUME NEW k \in DOMAIN messages, k \notin DOMAIN Rows PROVE m <= k
    BY <1>1, <2>3, <2>6, <2>7
  <2>. QED  BY <1>1, <2>3, <2>5, <2>6, <2>7
<1>. QED  BY <1>2, <1>3

LEMMA SendReads ==
  ASSUME InsertInv, ReadInv, SendRows
  PROVE  ReadInv'
<1>1. /\ reader = "send" /\ reader' = "idle"
      /\ answer' = Rows /\ since_id' = NULL /\ room' = 0 /\ bucket' = 0 /\ messages' = << >>
      /\ UNCHANGED <<insertVars, newestID, seenMessageIds, losses, late, request, mode>>
  BY DEF SendRows, Reading, ReturnRows
<1>2. Stored' = Stored  BY <1>1 DEF Stored, insertVars
<1>3. Twins' <=> Twins  BY <1>2 DEF Twins
<1>4. /\ messages \in Seq(DataEntry) /\ Ordered(messages) /\ ToSet(messages) \subseteq Stored
      /\ \A e \in Stored \ ToSet(messages) : e \in late \/ Newer(e, messages)
      /\ since_id = newestID /\ request = "served"
  BY <1>1 DEF ReadInv, ReadTypes, Sorted, OneFetch
<1>5. /\ Rows \in Seq(DataEntry)
      /\ \A i \in DOMAIN Rows : i \in DOMAIN messages /\ Rows[i] = messages[i]
      /\ \A k \in DOMAIN messages :
           \/ k \in DOMAIN Rows
           \/ \E m \in DOMAIN messages : m <= k /\ messages[m].id = since_id
  BY <1>4, RowsAre
<1>. HIDE DEF Rows
<1>6. ToSet(Rows) \subseteq ToSet(messages)  BY <1>5 DEF ToSet
<1>7. ReadTypes'
  <2>1. << >> \in Seq(DataEntry) /\ Len(<< >>) = 0  OBVIOUS
  <2>2. 0 \in 0 .. size  BY SizeAssumption
  <2>. QED  BY <1>1, <1>5, <2>1, <2>2 DEF ReadInv, ReadTypes
<1>8. OneFetch' /\ Walking' /\ Sorted'  BY <1>1, <1>4 DEF OneFetch, Walking, Sorted
<1>9. Answered'
  <2>. SUFFICES ASSUME NEW e \in Stored \ ToSet(Rows),
                       e.id \notin seenMessageIds, e \notin late, ~ Twins
                PROVE  Newer(e, Rows)
    BY <1>1, <1>2, <1>3, <1>4, <1>6 DEF Answered, Newer
  <2>1. CASE e \notin ToSet(messages)  BY <1>4, <1>6, <2>1 DEF Newer
  <2>2. CASE e \in ToSet(messages)
    <3>1. PICK k \in DOMAIN messages : e = messages[k]  BY <2>2 DEF ToSet
    <3>2. k \notin DOMAIN Rows  BY <1>5, <3>1 DEF ToSet
    <3>3. PICK m \in DOMAIN messages : m <= k /\ messages[m].id = newestID
      BY <1>4, <1>5, <3>2
    <3>4. messages[m] \in Stored  BY <1>4 DEF ToSet
    <3>5. messages[m].id \in Id  BY <3>4, Found DEF InsertInv
    <3>6. newestID \in seenMessageIds
      BY <3>3, <3>5, MsgTableAssumption DEF ReadInv, ReadTypes
    <3>7. m # k  BY <3>1, <3>3, <3>6
    <3>8. m < k  BY <1>4, <3>3, <3>7, LenProperties
    <3>9. messages[m].timestamp >= e.timestamp
      BY <1>4, <3>1, <3>8 DEF Ordered, InOrder
    <3>10. e.timestamp > messages[m].timestamp
      BY <3>3, <3>4 DEF ReadInv, NothingSkipped
    <3>11. e.timestamp \in Nat /\ messages[m].timestamp \in Nat
      <4>1. e \in DataEntry /\ messages[m] \in DataEntry  BY <3>4, Found DEF InsertInv
      <4>. QED  BY <4>1 DEF DataEntry
    <3>. QED  BY <3>9, <3>10, <3>11
  <2>. QED  BY <2>1, <2>2
<1>10. Seen' /\ NothingSkipped'
  BY <1>1, <1>2, <1>3 DEF ReadInv, Seen, NothingSkipped
<1>. QED  BY <1>7, <1>8, <1>9, <1>10 DEF ReadInv

LEMMA ShowReads ==
  ASSUME InsertInv, ReadInv, Show
  PROVE  ReadInv'
<1>1. /\ answer # NULL /\ newestID' = Newest(answer) /\ answer' = NULL /\ request' = "none"
      /\ seenMessageIds' = seenMessageIds \cup {e.id : e \in ToSet(answer)}
      /\ UNCHANGED <<insertVars, readVars, losses, late, mode>>
  BY DEF Show
<1>2. Stored' = Stored  BY <1>1 DEF Stored, insertVars
<1>3. Twins' <=> Twins  BY <1>2 DEF Twins
<1>4. reader = "idle" /\ messages = << >> /\ since_id = NULL
  BY <1>1 DEF ReadInv, OneFetch, ReadTypes
<1>5. /\ answer \in Seq(DataEntry) /\ ToSet(answer) \subseteq Stored
      /\ \A e \in Stored \ ToSet(answer) :
           e.id \in seenMessageIds \/ e \in late \/ Twins \/ Newer(e, answer)
  BY <1>1 DEF ReadInv, ReadTypes, Answered
<1>6. \/ answer = << >> /\ newestID' = newestID
      \/ Head(answer) \in ToSet(answer) /\ newestID' = Head(answer).id
  <2>1. CASE answer = << >>  BY <1>1, <2>1 DEF Newest
  <2>2. CASE answer # << >>
    <3>1. 1 \in DOMAIN answer /\ Head(answer) = answer[1]
      BY <1>5, <2>2, LenProperties, EmptySeq
    <3>. QED  BY <1>1, <2>2, <3>1 DEF Newest, ToSet
  <2>. QED  BY <2>1, <2>2
<1>. USE DEF readVars, pageVars
<1>7. ReadTypes'  BY <1>1, <1>6 DEF ReadInv, ReadTypes
<1>8. OneFetch' /\ Walking' /\ Sorted' /\ Answered'
  BY <1>1, <1>4 DEF OneFetch, Walking, Sorted, Answered
<1>9. Seen'  BY <1>1, <1>2, <1>5 DEF ReadInv, Seen
<1>10. NothingSkipped'
  <2>. SUFFICES ASSUME NEW e \in Stored, e.id \notin seenMessageIds', e \notin late, ~ Twins,
                       NEW d \in Stored, d.id = newestID'
                PROVE  e.timestamp > d.timestamp
    BY <1>1, <1>2, <1>3 DEF NothingSkipped
  <2>1. e.id \notin seenMessageIds /\ e \notin ToSet(answer)  BY <1>1
  <2>2. CASE newestID' = newestID
    BY <2>1, <2>2 DEF ReadInv, NothingSkipped
  <2>3. CASE Head(answer) \in ToSet(answer) /\ newestID' = Head(answer).id
    <3>1. Head(answer) = d  BY <1>5, <2>3 DEF Twins
    <3>2. Newer(e, answer)  BY <1>5, <2>1
    <3>. QED  BY <2>3, <3>1, <3>2 DEF Newer
  <2>. QED  BY <1>6, <2>2, <2>3
<1>. QED  BY <1>7, <1>8, <1>9, <1>10 DEF ReadInv

(* The steps that show or send nothing.                                    *)
LEMMA OtherReads ==
  ASSUME InsertInv, ReadInv,
         [\/ NoMessages \/ MakeRoom \/ WalkTooFar \/ SortTooFar \/ SendTooFar
          \/ Poll \/ Lose \/ Tick]_vars
  PROVE  ReadInv'
<1>. USE DEF insertVars, readVars, pageVars
<1>1. CASE WalkTooFar \/ SortTooFar \/ SendTooFar
  <2>1. /\ reader' = reader /\ mode' = "broken"
        /\ UNCHANGED <<insertVars, newestID, seenMessageIds, losses, late, request, answer,
                       since_id, room, bucket, messages>>
    BY <1>1 DEF WalkTooFar, SortTooFar, SendTooFar, Reading
  <2>2. Stored' = Stored  BY <2>1 DEF Stored
  <2>3. (Twins' <=> Twins)  BY <2>2 DEF Twins
  <2>4. ReadTypes' /\ OneFetch'  BY <2>1 DEF ReadInv, ReadTypes, OneFetch
  <2>5. Walking' /\ Sorted' /\ Seen'  BY <2>1, <2>2 DEF ReadInv, Walking, Sorted, Seen
  <2>6. Answered' /\ NothingSkipped'
    BY <2>1, <2>2, <2>3 DEF ReadInv, Answered, NothingSkipped
  <2>. QED  BY <2>4, <2>5, <2>6 DEF ReadInv
<1>2. CASE NoMessages \/ MakeRoom
  <2>1. /\ request = "asked" /\ reader = "idle" /\ request' = "served"
        /\ UNCHANGED <<insertVars, newestID, seenMessageIds, losses, late, mode>>
    BY <1>2 DEF NoMessages, MakeRoom, Reading
  <2>2. Stored' = Stored  BY <2>1 DEF Stored
  <2>3. (Twins' <=> Twins)  BY <2>2 DEF Twins
  <2>4. messages = << >> /\ answer = NULL  BY <2>1 DEF ReadInv, OneFetch
  <2>5. \/ /\ reader' = "idle" /\ answer' = << >>
           /\ since_id' = NULL /\ room' = 0 /\ bucket' = 0 /\ messages' = << >>
        \/ /\ reader' = "walk" /\ since_id' = newestID /\ room' = entries
           /\ UNCHANGED <<answer, bucket, messages>>
    BY <1>2 DEF NoMessages, MakeRoom, Reading, ReturnRows
  <2>6. << >> \in Seq(DataEntry) /\ Len(<< >>) = 0 /\ ToSet(<< >>) = {} /\ DOMAIN << >> = {}
    BY DEF ToSet
  <2>7. entries \in Nat /\ 0 \in 0 .. size  BY SizeAssumption DEF InsertInv, Counted
  <2>8. /\ room' \in Nat /\ bucket' \in 0 .. size /\ messages' \in Seq(DataEntry)
        /\ Len(messages') <= room' /\ (answer' # NULL => answer' \in Seq(DataEntry))
        /\ reader' \in {"idle", "walk", "sort", "send"}
    <3>1. CASE reader' = "idle" /\ answer' = << >> /\ room' = 0 /\ bucket' = 0 /\ messages' = << >>
      BY <2>6, <2>7, <3>1
    <3>2. CASE reader' = "walk" /\ room' = entries /\ UNCHANGED <<answer, bucket, messages>>
      <4>1. messages' \in Seq(DataEntry) /\ Len(messages') = 0  BY <2>4, <2>6, <3>2
      <4>. QED  BY <2>4, <2>7, <3>2, <4>1 DEF ReadInv, ReadTypes
    <3>. QED  BY <2>5, <3>1, <3>2
  <2>13. ReadTypes'  BY <2>1, <2>8 DEF ReadInv, ReadTypes
  <2>9. OneFetch'  BY <2>1, <2>4, <2>5 DEF ReadInv, OneFetch
  <2>10. Walking' /\ Sorted'  BY <2>4, <2>5, <2>6 DEF Walking, Sorted
  <2>11. Answered'  BY <2>4, <2>5, <2>6 DEF Answered, Newer
  <2>12. Seen' /\ NothingSkipped'  BY <2>1, <2>2, <2>3 DEF ReadInv, Seen, NothingSkipped
  <2>. QED  BY <2>13, <2>9, <2>10, <2>11, <2>12 DEF ReadInv
<1>3. CASE Poll \/ Lose
  <2>1. /\ UNCHANGED <<insertVars, readVars, newestID, seenMessageIds, late, mode>>
        /\ answer' = NULL /\ request' \in {"none", "asked"} /\ losses' \in 0 .. MaxLost
        /\ reader = "idle"
    BY <1>3, MsgTableAssumption DEF Poll, Lose, ReadInv, OneFetch, ReadTypes
  <2>2. Stored' = Stored  BY <2>1 DEF Stored
  <2>3. (Twins' <=> Twins)  BY <2>2 DEF Twins
  <2>4. ReadTypes' /\ OneFetch'  BY <2>1 DEF ReadInv, ReadTypes, OneFetch
  <2>5. Walking' /\ Sorted' /\ Answered'  BY <2>1 DEF Walking, Sorted, Answered
  <2>6. Seen' /\ NothingSkipped'  BY <2>1, <2>2, <2>3 DEF ReadInv, Seen, NothingSkipped
  <2>. QED  BY <2>4, <2>5, <2>6 DEF ReadInv
<1>4. CASE Tick \/ UNCHANGED vars
  <2>1. UNCHANGED <<insertVars, readVars, pageVars, answer, late, mode>>
    BY <1>4 DEF Tick, vars
  <2>2. Stored' = Stored  BY <2>1 DEF Stored
  <2>. QED  BY <2>1, <2>2, SameStored
<1>. QED  BY <1>1, <1>2, <1>3, <1>4

LEMMA ReadStep == InsertInv /\ ReadInv /\ [Next]_vars => ReadInv'
<1>. SUFFICES ASSUME InsertInv, ReadInv, [Next]_vars PROVE ReadInv'  OBVIOUS
<1>1. ASSUME \/ \E t \in Task : Begin(t) \/ Draw(t) \/ Lock(t) \/ Count(t)
             \/ \E x \in Id : Hear(x)
             \/ Stamp
      PROVE  ReadInv'
  <2>1. table' = table /\ UNCHANGED <<readVars, pageVars, answer, late, mode>>
    BY <1>1 DEF Begin, Draw, Lock, Count, Hear, Stamp, Goto
  <2>2. Stored' = Stored  BY <2>1 DEF Stored
  <2>. QED  BY <2>1, <2>2, SameStored
<1>2. ASSUME NEW t \in Task, Link(t) PROVE ReadInv'  BY <1>2, LinkReads
<1>3. CASE WalkChain  BY <1>3, WalkReads
<1>4. CASE Sort  BY <1>4, SortReads
<1>5. CASE SendRows  BY <1>5, SendReads
<1>6. CASE Show  BY <1>6, ShowReads
<1>7. CASE [\/ NoMessages \/ MakeRoom \/ WalkTooFar \/ SortTooFar \/ SendTooFar
            \/ Poll \/ Lose \/ Tick]_vars
  BY <1>7, OtherReads
<1>. QED
  BY <1>1, <1>2, <1>3, <1>4, <1>5, <1>6, <1>7 DEF Next, create_data_object, Finish, api_get_msgs

LEMMA TableInv == Spec => [](InsertInv /\ ReadInv)
  BY InsertInit, InsertStep, ReadInit, ReadStep, PTL DEF Spec

(* What the page has not shown is newer than the newest it has, so the id  *)
(* it asks for hides no entry: but for those linked late, and twins.       *)
THEOREM NothingIsSkipped == Spec => []NothingSkipped
<1>1. ReadInv => NothingSkipped  BY DEF ReadInv
<1>. QED  BY <1>1, TableInv, PTL

(* A reader that no task has broken has, once sorted, the whole table as   *)
(* it then is, newest first, though it walked the chains without the mutex. *)
THEOREM ReaderComplete == Spec => Complete
<1>1. ASSUME InsertInv, ReadInv, [Next]_vars
      PROVE  [reader = "sort" /\ reader' = "send" =>
                /\ Len(messages') = Cardinality(Stored) /\ ToSet(messages') = Stored
                /\ \A i, j \in DOMAIN messages' :
                     i < j => messages'[i].timestamp >= messages'[j].timestamp]_vars
  <2>. USE <1>1
  <2>. SUFFICES ASSUME reader = "sort", reader' = "send"
                PROVE  /\ Len(messages') = Cardinality(Stored) /\ ToSet(messages') = Stored
                       /\ \A i, j \in DOMAIN messages' :
                            i < j => messages'[i].timestamp >= messages'[j].timestamp
    OBVIOUS
  <2>1. Sort
    <3>1. CASE api_get_msgs
      BY <3>1 DEF api_get_msgs, NoMessages, MakeRoom, WalkChain, WalkTooFar, SortTooFar,
                  SendRows, SendTooFar, Reading
    <3>2. CASE \/ \E t \in Task : create_data_object(t)
               \/ \E x \in Id : Hear(x)
               \/ Poll \/ Show \/ Lose \/ Tick
      BY <3>2 DEF create_data_object, Finish, Begin, Draw, Stamp, Lock, Count, Link, Hear, Goto,
                  Poll, Show, Lose, Tick, readVars
    <3>3. CASE UNCHANGED vars  BY <3>3 DEF vars, readVars
    <3>. QED  BY <3>1, <3>2, <3>3 DEF Next
  <2>. QED  BY <2>1, SortedAll DEF Ordered, InOrder
<1>. QED  BY <1>1, TableInv, PTL DEF Spec, Complete

(* No entry is lost or linked twice, whichever tasks interleave in         *)
(* create_data_object and hash_insert, and the count is ahead of the table *)
(* by the one entry that is being linked.                                  *)
THEOREM NoEntryLost == Spec => []NoneLost
<1>1. ASSUME InsertInv, ReadInv PROVE NoneLost
  <2>. USE <1>1
  <2>1. TypeOK
    <3>1. \A t \in Task : made[t] \in 0 .. Quota[t]
      BY MsgTableAssumption DEF InsertInv, Drafted
    <3>2. ASSUME NEW b \in Buckets, NEW e \in ToSet(table[b])
          PROVE  e \in DataEntry /\ Index(e.id) = b
      <4>1. \A p : p \in Places <=> \E c \in Buckets : \E i \in DOMAIN table[c] : p = <<c, i>>
        BY PlaceIs DEF Places
      <4>2. PICK i \in DOMAIN table[b] : e = table[b][i]  BY <3>2 DEF ToSet
      <4>3. PICK p \in Places : p = <<b, i>>  BY <4>1
      <4>4. e = At(p)  BY <4>2, <4>3 DEF At
      <4>. QED  BY <4>3, <4>4, Found DEF InsertInv, Chained
    <3>3. since_id \in Id \cup {NULL}
      <4>1. newestID \in Id \cup {NULL}
        BY Found DEF InsertInv, ReadInv, ReadTypes, Seen
      <4>. QED  BY <4>1 DEF ReadInv, OneFetch
    <3>. QED
      BY <3>1, <3>2, <3>3
      DEF TypeOK, InsertInv, Exclusive, Counted, Drafted, ReadInv, ReadTypes
  <2>2. ASSUME NEW t \in Task, NEW n \in 1 .. Quota[t]
        PROVE  Cardinality({p \in Places : table[p[1]][p[2]].by = t /\ table[p[1]][p[2]].nr = n})
                 = IF n <= made[t] THEN 1 ELSE 0
    <3>. DEFINE P == {p \in Places : At(p).by = t /\ At(p).nr = n}
    <3>1. Quota[t] \in Nat /\ made[t] \in Nat
      BY MsgTableAssumption DEF InsertInv, Drafted
    <3>2. CASE n <= made[t]
      <4>1. n \in 1 .. made[t]  BY <3>1, <3>2
      <4>2. PICK p \in Places : At(p).by = t /\ At(p).nr = n
        BY <4>1 DEF InsertInv, Numbered
      <4>3. P = {p}  BY <4>2 DEF InsertInv, Numbered
      <4>4. Cardinality(P) = 1  BY <4>3, FS_Singleton
      <4>. QED  BY <3>2, <4>4 DEF At
    <3>3. CASE ~ (n <= made[t])
      <4>1. P = {}
        <5>. SUFFICES ASSUME NEW p \in Places, At(p).by = t, At(p).nr = n PROVE FALSE
          OBVIOUS
        <5>1. n \in 1 .. made[t]  BY DEF InsertInv, Numbered
        <5>. QED  BY <3>1, <3>3, <5>1
      <4>2. Cardinality(P) = 0  BY <4>1, FS_EmptySet
      <4>. QED  BY <3>3, <4>2 DEF At
    <3>. QED  BY <3>2, <3>3
  <2>3. entries = Cardinality(Places) + Cardinality({t \in Task : pc[t] = "link"})
    <3>. DEFINE L == {t \in Task : pc[t] = "link"}
    <3>0. Cardinality(Places) \in Nat  BY FS_CardinalityType DEF InsertInv, Counted
    <3>1. CASE \E t \in Task : pc[t] = "link"
      <4>1. PICK t \in Task : pc[t] = "link"  BY <3>1
      <4>2. L = {t}  BY <4>1 DEF InsertInv, Exclusive
      <4>3. Cardinality(L) = 1  BY <4>2, FS_Singleton
      <4>4. entries = Cardinality(Places) + 1  BY <3>1 DEF InsertInv, Counted
      <4>. QED  BY <4>3, <4>4
    <3>2. CASE ~ \E t \in Task : pc[t] = "link"
      <4>1. L = {}  BY <3>2
      <4>2. Cardinality(L) = 0  BY <4>1, FS_EmptySet
      <4>3. entries = Cardinality(Places) + 0  BY <3>2 DEF InsertInv, Counted
      <4>. QED  BY <4>2, <4>3
    <3>. QED  BY <3>1, <3>2
  <2>. QED  BY <2>1, <2>2, <2>3 DEF NoneLost
<1>. QED  BY <1>1, TableInv, PTL
=============================================================================
