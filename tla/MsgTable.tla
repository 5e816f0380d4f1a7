------------------------------ MODULE MsgTable ------------------------------
(***************************************************************************)
(* The message table: the chained hash table of src/hash_table.c, the      *)
(* tasks that create entries in it (create_data_object of                  *)
(* src/data_table.c), the web server's handler that walks it without the   *)
(* mutex (api_get_msgs of src/web_server.c), and the page that polls for   *)
(* what is newer than the last id it saw (templates/index.html).           *)
(*                                                                         *)
(* A chain is the sequence of the entries behind a head pointer: an entry  *)
(* is never changed once it is linked, and none is ever removed            *)
(* (hash_remove and delete_hashtable have no callers).  An entry is what   *)
(* the reader sorts and finds it by; it also says who made it.             *)
(***************************************************************************)
EXTENDS Naturals, Sequences, SequencesExt, FiniteSetsExt

CONSTANTS
  Task,            \* tasks that create entries
  Httpd,           \* the one that also answers the page
  Handler,         \* the one that stores messages of other boards, with their ids
  Id,              \* of messages
  NULL,
  Mix,             \* Mix[x]: mix32(x)
  TABLE_SIZE,      \* asked for (100)
  Quota,           \* bound: entries each task makes
  MaxTime,         \* bound: of the clock, in seconds
  MaxLost          \* bound: answers that never reach the page

ASSUME MsgTableAssumption ==
  /\ {Httpd, Handler} \subseteq Task /\ NULL \notin Task \cup Id
  /\ Mix \in [Id -> Nat] /\ TABLE_SIZE \in Nat
  /\ Quota \in [Task -> Nat] /\ MaxTime \in Nat /\ MaxLost \in Nat

VARIABLES
  lock,            \* g_dtb_mutex: the task that holds it
  entries,         \* the table's count
  table,           \* its chains
  pc, draft,       \* of a task: where create_data_object is, and with which entry
  aim,             \* of a task: hash_insert's new_entry->next
  made,            \* of a task: entries made so far
  raced,           \* history: tasks whose draft's id was linked since they looked
  now,             \* time()
  reader,          \* api_get_msgs: where it is
  since_id,        \* api_get_msgs: the id asked for
  room,            \* sort_hash_to_array: what calloc made room for
  bucket,          \* sort_hash_to_array: the next chain to walk
  messages,        \* the array
  request,         \* the page's fetch
  answer,          \* on its way to the page
  newestID, seenMessageIds,   \* the page
  late,            \* history: entries linked when the page had been given one as new
  losses,          \* answers lost so far
  mode             \* "up", or "broken" by an access outside of the array or to NULL

insertVars == <<lock, entries, table, pc, draft, aim, made, raced>>
readVars == <<reader, since_id, room, bucket, messages>>
pageVars == <<request, newestID, seenMessageIds, losses>>
vars == <<insertVars, readVars, pageVars, answer, now, late, mode>>

(* The loop looks at i and i + 2 for i = 5, 11, ... as long as i * i <= n. *)
isPrime(n) ==
  \/ n \in {2, 3}
  \/ /\ n > 3 /\ n % 2 # 0 /\ n % 3 # 0
     /\ \A i \in 5 .. n :
          (i % 6 = 5 /\ i * i <= n) => (n % i # 0 /\ n % (i + 2) # 0)

size == CHOOSE n \in TABLE_SIZE .. 2 * TABLE_SIZE + 2 :
          isPrime(n) /\ \A k \in TABLE_SIZE .. n - 1 : ~ isPrime(k)

(* There is a prime between n and 2 * n + 2 (Bertrand).                    *)
ASSUME SizeAssumption == size \in Nat \ {0}

Index(x) == Mix[x] % size
Buckets == 0 .. size - 1
DataEntry == [by : Task, nr : Nat, id : Id \cup {NULL}, timestamp : 0 .. MaxTime]
Places == UNION {{b} \X DOMAIN table[b] : b \in Buckets}
Stored == UNION {ToSet(table[b]) : b \in Buckets}

TypeOK ==
  /\ lock \in Task \cup {NULL}
  /\ entries \in Nat
  /\ \A b \in Buckets : \A e \in ToSet(table[b]) : e \in DataEntry /\ Index(e.id) = b
  /\ pc \in [Task -> {"idle", "stamp", "draw", "lock", "count", "link"}]
  /\ \A t \in Task : draft[t] \in DataEntry \cup {NULL}
  /\ \A t \in Task : made[t] \in 0 .. Quota[t]
  /\ now \in 0 .. MaxTime
  /\ reader \in {"idle", "walk", "sort", "send"}
  /\ since_id \in Id \cup {NULL}
  /\ bucket \in 0 .. size
  /\ Len(messages) <= room
  /\ request \in {"none", "asked", "served"}
  /\ newestID \in seenMessageIds \cup {NULL}
  /\ losses \in 0 .. MaxLost
  /\ mode \in {"up", "broken"}

Init ==
  /\ lock = NULL /\ entries = 0
  /\ table = [b \in Buckets |-> << >>]
  /\ pc = [t \in Task |-> "idle"] /\ draft = [t \in Task |-> NULL]
  /\ aim = [t \in Task |-> << >>]
  /\ made = [t \in Task |-> 0] /\ raced = {}
  /\ now = 0
  /\ reader = "idle" /\ since_id = NULL /\ room = 0 /\ bucket = 0
  /\ messages = << >>
  /\ request = "none" /\ answer = NULL /\ newestID = NULL /\ seenMessageIds = {}
  /\ late = {} /\ losses = 0 /\ mode = "up"

----------------------------------------------------------------------------
(* create_data_object and hash_insert.                                     *)

Goto(t, from, to) ==
  /\ mode = "up" /\ pc[t] = from
  /\ pc' = [pc EXCEPT ![t] = to]
  /\ UNCHANGED <<readVars, pageVars, answer, now, mode>>

hash_find_head(x) ==                           (* mutant: looks at the first of the chain *)
  table[Index(x)] # << >> /\ Head(table[Index(x)]).id = x

hash_find(x) == \E e \in ToSet(table[Index(x)]) : e.id = x

Draft(t, x) == [by |-> t, nr |-> made[t] + 1, id |-> x, timestamp |-> now]

MayBegin(t) == made[t] < Quota[t] /\ (t = Httpd => reader = "idle")

(* A message of this board gets its timestamp first, then an id that       *)
(* msg_find does not find.                                                 *)
Begin(t) ==
  /\ t # Handler /\ MayBegin(t)
  /\ Goto(t, "idle", "draw")
  /\ draft' = [draft EXCEPT ![t] = Draft(t, NULL)]
  /\ UNCHANGED <<lock, entries, table, aim, made, raced, late>>

Draw(t) ==
  /\ lock = NULL
  /\ Goto(t, "draw", "lock")
  /\ \E x \in Id : ~ hash_find(x) /\ draft' = [draft EXCEPT ![t].id = x]
  /\ UNCHANGED <<lock, entries, table, aim, made, raced, late>>

(* The handler stores a message it does not find, under the id it has.     *)
Hear(x) ==
  /\ MayBegin(Handler) /\ lock = NULL
  /\ ~ hash_find(x)
  /\ Goto(Handler, "idle", "stamp")
  /\ draft' = [draft EXCEPT ![Handler] = Draft(Handler, x)]
  /\ UNCHANGED <<lock, entries, table, aim, made, raced, late>>

Stamp ==
  /\ Goto(Handler, "stamp", "lock")
  /\ draft' = [draft EXCEPT ![Handler].timestamp = now]
  /\ UNCHANGED <<lock, entries, table, aim, made, raced, late>>

CanLock_always == TRUE                         (* mutant: the mutex is not taken *)

CanLock == lock = NULL

Lock(t) ==
  /\ CanLock
  /\ Goto(t, "lock", "count")
  /\ lock' = t
  /\ UNCHANGED <<entries, table, draft, aim, made, raced, late>>

(* entries++ and new_entry->next, which only tasks with the mutex may change. *)
Count(t) ==
  /\ Goto(t, "count", "link")
  /\ entries' = entries + 1
  /\ aim' = [aim EXCEPT ![t] = table[Index(draft[t].id)]]
  /\ UNCHANGED <<lock, table, draft, made, raced, late>>

(* What the page has been given or is about to be.                         *)
Given ==
  {e \in Stored : e.id \in seenMessageIds}
    \cup ToSet(messages) \cup (IF answer = NULL THEN {} ELSE ToSet(answer))

(* The new head; the mutex is given back.                                  *)
Link(t) ==
  /\ Goto(t, "link", "idle")
  /\ table' = [table EXCEPT ![Index(draft[t].id)] = <<draft[t]>> \o aim[t]]
  /\ late' = IF \E e \in Given : e.timestamp >= draft[t].timestamp
             THEN late \cup {draft[t]} ELSE late
  /\ lock' = NULL
  /\ draft' = [draft EXCEPT ![t] = NULL] /\ aim' = [aim EXCEPT ![t] = << >>]
  /\ made' = [made EXCEPT ![t] = @ + 1]
  /\ raced' = {u \in Task \ {t} :
                u \in raced \/ (pc[u] # "idle" /\ draft[u].id = draft[t].id)}
  /\ UNCHANGED entries

(* The rest of create_data_object, once begun.                             *)
Finish(t) == Draw(t) \/ (t = Handler /\ Stamp) \/ Lock(t) \/ Count(t) \/ Link(t)

create_data_object(t) == Begin(t) \/ Finish(t)

----------------------------------------------------------------------------
(* api_get_msgs and sort_hash_to_array, in the web server's task.          *)

Reading(from, to) ==
  /\ mode = "up" /\ reader = from
  /\ reader' = to
  /\ UNCHANGED <<insertVars, newestID, seenMessageIds, losses, now, late>>

ReturnRows(sent) ==
  /\ answer' = sent
  /\ since_id' = NULL /\ room' = 0 /\ bucket' = 0 /\ messages' = << >>

NoMessages ==
  /\ request = "asked" /\ pc[Httpd] = "idle"
  /\ entries = 0
  /\ Reading("idle", "idle")
  /\ request' = "served"
  /\ ReturnRows(<< >>)
  /\ UNCHANGED mode

MakeRoom ==
  /\ request = "asked" /\ pc[Httpd] = "idle"
  /\ entries # 0
  /\ Reading("idle", "walk")
  /\ request' = "served" /\ since_id' = newestID
  /\ room' = entries
  /\ UNCHANGED <<answer, bucket, messages, mode>>

Walked == messages \o table[bucket]

Fits == Len(Walked) <= room

WalkChain ==
  /\ Reading("walk", IF bucket + 1 = size THEN "sort" ELSE "walk")
  /\ bucket < size
  /\ Fits
  /\ messages' = Walked /\ bucket' = bucket + 1
  /\ UNCHANGED <<request, answer, since_id, room, mode>>

WalkTooFar ==
  /\ Reading("walk", "walk")
  /\ bucket < size
  /\ ~ Fits
  /\ mode' = "broken"
  /\ UNCHANGED <<request, answer, since_id, room, bucket, messages>>

InOrder_asc(d, e) == d.timestamp <= e.timestamp   (* mutant: as the function's name says *)

InOrder_byId(d, e) == d.id >= e.id             (* mutant *)

InOrder(d, e) == d.timestamp >= e.timestamp

(* qsort: entries of one second may come in any order.  Every element is   *)
(* looked at, so none may be NULL or outside of the array.                 *)
Sort ==
  /\ Reading("sort", "send")
  /\ entries = Len(messages) /\ room = Len(messages)
  /\ \E s \in SetToSeqs(ToSet(messages)) :
       /\ \A i, j \in DOMAIN s : i < j => InOrder(s[i], s[j])
       /\ messages' = s
  /\ UNCHANGED <<request, answer, since_id, room, bucket, mode>>

SortTooFar ==
  /\ Reading("sort", "sort")
  /\ entries > Len(messages)
  /\ mode' = "broken"
  /\ UNCHANGED <<request, answer, since_id, room, bucket, messages>>

(* The loop goes on to the id asked for or, reading the table's count anew *)
(* each time round, to the end.                                            *)
Rows ==
  LET older == {i \in DOMAIN messages : messages[i].id = since_id}
  IN  IF older = {} THEN messages ELSE SubSeq(messages, 1, Min(older) - 1)

SendRows ==
  /\ Reading("send", "idle")
  /\ entries > room => Rows # messages
  /\ ReturnRows(Rows)
  /\ UNCHANGED <<request, mode>>

SendTooFar ==
  /\ Reading("send", "send")
  /\ entries > room /\ Rows = messages
  /\ mode' = "broken"
  /\ UNCHANGED <<request, answer, since_id, room, bucket, messages>>

api_get_msgs ==
  \/ NoMessages \/ MakeRoom \/ WalkChain \/ WalkTooFar \/ Sort \/ SortTooFar
  \/ SendRows \/ SendTooFar

----------------------------------------------------------------------------
(* pollMessages of the page, one fetch at a time.                          *)

Poll ==
  /\ mode = "up" /\ request = "none"
  /\ request' = "asked"
  /\ UNCHANGED <<insertVars, readVars, answer, newestID, seenMessageIds, losses, now, late, mode>>

Newest(sent) == IF sent = << >> THEN newestID ELSE Head(sent).id

Show ==
  /\ mode = "up" /\ answer # NULL
  /\ newestID' = Newest(answer)
  /\ seenMessageIds' = seenMessageIds \cup {e.id : e \in ToSet(answer)}
  /\ answer' = NULL /\ request' = "none"
  /\ UNCHANGED <<insertVars, readVars, losses, now, late, mode>>

Lose ==
  /\ mode = "up" /\ answer # NULL /\ losses < MaxLost
  /\ losses' = losses + 1
  /\ answer' = NULL /\ request' = "none"
  /\ UNCHANGED <<insertVars, readVars, newestID, seenMessageIds, now, late, mode>>

Tick ==
  /\ mode = "up" /\ now < MaxTime
  /\ now' = now + 1
  /\ UNCHANGED <<insertVars, readVars, pageVars, answer, late, mode>>

Next ==
  \/ \E t \in Task : create_data_object(t)
  \/ \E x \in Id : Hear(x)
  \/ api_get_msgs
  \/ Poll \/ Show \/ Lose \/ Tick

Spec == Init /\ [][Next]_vars

(* The page polls as long as it is visible, the server answers, and a task *)
(* that began to store an entry stores it.                                 *)
FairSpec ==
  /\ Spec
  /\ WF_vars(Poll) /\ WF_vars(api_get_msgs) /\ WF_vars(Show)
  /\ \A t \in Task : WF_vars(Finish(t))

----------------------------------------------------------------------------
(* Properties.                                                             *)

(* Beside the types: no entry is lost or linked twice, however the tasks   *)
(* interleave, and the count the readers rely on is never behind: every    *)
(* task's entries are in the table, and the count is ahead only of one     *)
(* that is being linked.                                                   *)
NoneLost ==
  /\ TypeOK
  /\ \A t \in Task : \A n \in 1 .. Quota[t] :
       Cardinality({p \in Places : table[p[1]][p[2]].by = t /\ table[p[1]][p[2]].nr = n})
         = IF n <= made[t] THEN 1 ELSE 0
  /\ entries = Cardinality(Places) + Cardinality({t \in Task : pc[t] = "link"})

(* Two entries share an id only if a task linked one after the task that   *)
(* links the other had looked for it.                                      *)
TwinsRace ==
  \A t \in Task : pc[t] \in {"lock", "count", "link"} /\ (\E e \in Stored : e.id = draft[t].id)
    => t \in raced

(* A reader that is not broken by the tasks it does not lock out has, once *)
(* sorted, every entry that is in the table then, once, newest first.      *)
Complete ==
  [][reader = "sort" /\ reader' = "send" =>
       /\ Len(messages') = Cardinality(Stored) /\ ToSet(messages') = Stored
       /\ \A i, j \in DOMAIN messages' :
            i < j => messages'[i].timestamp >= messages'[j].timestamp]_vars

Twins == \E d, e \in Stored : d # e /\ d.id = e.id

(* What the page has not shown will still be in an answer, for it is newer *)
(* than the newest the page has: it asks for no id that hides an entry,    *)
(* unless the entry was linked when the page had been given one that is    *)
(* not older, or two share an id.                                          *)
NothingSkipped ==
  \A e \in Stored :
    \/ e.id \in seenMessageIds \/ e \in late \/ Twins
    \/ \A d \in Stored : d.id = newestID => e.timestamp > d.timestamp

(* And it is shown: over and over, unless an answer breaks, the page has   *)
(* all there is.                                                           *)
AllShown ==
  []<>(\/ mode = "broken" \/ Twins
       \/ \A e \in Stored : e.id \in seenMessageIds \/ e \in late)
=============================================================================
