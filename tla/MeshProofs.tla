----------------------------- MODULE MeshProofs -----------------------------
(***************************************************************************)
(* Theorems about Mesh, for any finite set of nodes, any topology and any  *)
(* script: types, and that a node transmits a gbcast at most once.         *)
(*                                                                         *)
(* A task's step is a composition of operators on node records.  Ready is  *)
(* what every one of them preserves of the node it works on, and Learns is *)
(* what it may do to the message table: add messages of its own, and never *)
(* forget or rewrite one.                                                  *)
(***************************************************************************)
EXTENDS Mesh, RoutingProofs

Content == Commands \cup Responses \cup {"chat"}

Pair == [destination_node : Node, steps : Nat, at : Nat]

Table == UNION {[D -> DataEntry] : D \in SUBSET Id}

PingTable == UNION {[D -> Id \cup {NO_ID}] : D \in SUBSET Node}

NodeRecord ==
  [mode : {"off", "up", "panic"}, router : RouterType,
   ping_id : PingTable, link_enabled : [Node -> BOOLEAN],
   last_rquery : [Node -> Seq32], g_msg_table : Table,
   MessageQueue : Seq(Id), drawn : Nat]

Frame ==
  [from : Node, id : Id, content : Content, pairs : SUBSET Pair, origin : Node,
   dst : Node \cup {NO_ID}, steps : Nat, ack_for : Id \cup {NO_ID}]

(* No node loses its memory.                                               *)
Steady == \A o \in Script : o.op # "restart"

(* What an entry of node n says of itself: its origin made its id, a       *)
(* message that made no step is its own, and responses are what acks.      *)
EntryOk(n, id, e) ==
  /\ e.origin_node = id[1]
  /\ e.steps = 0 => e.src_node = n /\ e.origin_node = n
  /\ e.ack_for = NO_ID <=> e.content \notin Responses

FrameOk(f) ==
  /\ f.origin = f.id[1]
  /\ f.steps = 0 => f.from = f.origin
  /\ f.ack_for = NO_ID <=> f.content \notin Responses

(* The gbcasts a node has sent are in its table, and those it has yet to   *)
(* send are others, each queued once.                                      *)
OnceEach(s, sent) ==
  LET q == s.MessageQueue
  IN  /\ sent \subseteq DOMAIN s.g_msg_table
      /\ \A k \in DOMAIN q :
           s.g_msg_table[q[k]].content = "gbcast" =>
             q[k] \notin sent /\ \A j \in DOMAIN q : q[j] = q[k] => j = k

(* A ping of the node's own.                                               *)
IsPing(e) == e.content = "ping" /\ e.steps = 0

Ready(n, s, sent) ==
  /\ s \in NodeRecord
  /\ s.MessageQueue \in Seq(DOMAIN s.g_msg_table)
  /\ \A id \in DOMAIN s.g_msg_table :
       EntryOk(n, id, s.g_msg_table[id]) /\ (id[1] = n => id[2] \in 1 .. s.drawn)
  /\ \A m \in DOMAIN s.ping_id :
       \/ m = n
       \/ In(s, s.ping_id[m]) /\ IsPing(s.g_msg_table[s.ping_id[m]])
  /\ s.mode = "off" => s = Off
  /\ Steady => OnceEach(s, sent)

(* The part of an entry that nothing rewrites.                             *)
Stamp(e) ==
  <<e.content, e.pairs, e.src_node, e.dst_node, e.origin_node, e.steps, e.ack_for>>

Learns(n, s, t) ==
  /\ s.drawn <= t.drawn
  /\ \A id \in DOMAIN s.g_msg_table :
       In(t, id) /\ Stamp(t.g_msg_table[id]) = Stamp(s.g_msg_table[id])
  /\ \A id \in DOMAIN t.g_msg_table \ DOMAIN s.g_msg_table :
       id[1] = n /\ id[2] \in s.drawn + 1 .. t.drawn /\ t.g_msg_table[id].src_node = n
  /\ t.mode # s.mode => t.mode = "panic" /\ s.mode # "off"

----------------------------------------------------------------------------
(* Tables.                                                                 *)

LEMMA TableIs ==
  ASSUME NEW T
  PROVE  T \in Table <=> /\ DOMAIN T \in SUBSET Id
                         /\ T = [id \in DOMAIN T |-> T[id]]
                         /\ \A id \in DOMAIN T : T[id] \in DataEntry
<1>1. T \in Table <=> \E D \in SUBSET Id : T \in [D -> DataEntry]  BY DEF Table
<1>. QED  BY <1>1

LEMMA WithTable ==
  ASSUME NEW T \in Table, NEW id \in Id, NEW e \in DataEntry
  PROVE  With(T, id, e) \in Table
<1>1. DOMAIN T \in SUBSET Id /\ \A x \in DOMAIN T : T[x] \in DataEntry  BY TableIs
<1>2. With(T, id, e) \in [DOMAIN T \cup {id} -> DataEntry]  BY <1>1 DEF With
<1>. QED  BY <1>1, <1>2, TableIs

LEMMA WithPings ==
  ASSUME NEW s \in NodeRecord, NEW m \in Node, NEW v \in Id \cup {NO_ID}
  PROVE  With(s.ping_id, m, v) \in PingTable
<1>1. PICK D \in SUBSET Node : s.ping_id \in [D -> Id \cup {NO_ID}]
  BY DEF NodeRecord, PingTable
<1>2. With(s.ping_id, m, v) \in [D \cup {m} -> Id \cup {NO_ID}]  BY <1>1 DEF With
<1>. QED  BY <1>2 DEF PingTable

LEMMA LearnsTwice ==
  ASSUME NEW n, NEW s \in NodeRecord, NEW t \in NodeRecord, NEW u \in NodeRecord,
         Learns(n, s, t), Learns(n, t, u)
  PROVE  Learns(n, s, u)
<1>1. s.drawn \in Nat /\ t.drawn \in Nat /\ u.drawn \in Nat  BY DEF NodeRecord
<1>2. ASSUME NEW id \in DOMAIN s.g_msg_table
      PROVE  In(u, id) /\ Stamp(u.g_msg_table[id]) = Stamp(s.g_msg_table[id])
  BY DEF Learns, In
<1>3. ASSUME NEW id \in DOMAIN u.g_msg_table \ DOMAIN s.g_msg_table
      PROVE  id[1] = n /\ id[2] \in s.drawn + 1 .. u.drawn /\ u.g_msg_table[id].src_node = n
  <2>1. CASE id \in DOMAIN t.g_msg_table
    <3>1. id[1] = n /\ id[2] \in s.drawn + 1 .. t.drawn /\ t.g_msg_table[id].src_node = n
      BY <1>3, <2>1 DEF Learns
    <3>2. u.g_msg_table[id].src_node = t.g_msg_table[id].src_node
      BY <2>1 DEF Learns, Stamp
    <3>3. t.drawn <= u.drawn  BY DEF Learns
    <3>. QED  BY <1>1, <3>1, <3>2, <3>3
  <2>2. CASE id \notin DOMAIN t.g_msg_table  BY <1>1, <1>3, <2>2 DEF Learns
  <2>. QED  BY <2>1, <2>2
<1>. QED  BY <1>1, <1>2, <1>3 DEF Learns

LEMMA LearnsSame ==
  ASSUME NEW n, NEW s \in NodeRecord, NEW t \in NodeRecord,
         t.g_msg_table = s.g_msg_table, t.drawn = s.drawn,
         t.mode # s.mode => t.mode = "panic" /\ s.mode # "off"
  PROVE  Learns(n, s, t)
<1>1. s.drawn \in Nat  BY DEF NodeRecord
<1>. QED  BY <1>1 DEF Learns, In

----------------------------------------------------------------------------
(* The operators of the message table and the send queue.                  *)

OwnEntry(n, content, pairs, dst, ack_for) ==
  [content |-> content, pairs |-> pairs, src_node |-> n, dst_node |-> dst,
   origin_node |-> n, target_node |-> NO_ID, steps |-> 0,
   ack_for |-> ack_for, ack_status |-> FALSE]

(* create_data_object adds one fresh message of the node's own.            *)
Created(n, s, t, e) ==
  /\ t \in NodeRecord
  /\ t = [s EXCEPT !.drawn = t.drawn, !.g_msg_table = t.g_msg_table]
  /\ t.drawn = s.drawn + 1
  /\ LastId(n, t) = <<n, t.drawn>> /\ LastId(n, t) \in Id
  /\ DOMAIN t.g_msg_table = DOMAIN s.g_msg_table \cup {LastId(n, t)}
  /\ t.g_msg_table[LastId(n, t)] = e
  /\ \A id \in DOMAIN s.g_msg_table :
       id # LastId(n, t) => t.g_msg_table[id] = s.g_msg_table[id]

LEMMA CreateEffect ==
  ASSUME NEW n \in Node, NEW s \in NodeRecord, NEW content \in Content,
         NEW pairs \in SUBSET Pair, NEW dst \in Node \cup {NO_ID},
         NEW ack_for \in Id \cup {NO_ID},
         NEW t, t = create_data_object(s, n, content, pairs, dst, ack_for)
  PROVE  Created(n, s, t, OwnEntry(n, content, pairs, dst, ack_for))
<1>. DEFINE e == OwnEntry(n, content, pairs, dst, ack_for)
            new == <<n, s.drawn + 1>>
            T == With(s.g_msg_table, new, e)
            u == [s EXCEPT !.drawn = s.drawn + 1]
<1>1. e \in DataEntry  BY DEF DataEntry, OwnEntry, Content, Pair
<1>2. s.drawn \in Nat /\ s.g_msg_table \in Table  BY DEF NodeRecord
<1>3. new \in Id  BY <1>2 DEF Id
<1>4. t = [s EXCEPT !.drawn = s.drawn + 1, !.g_msg_table = T]
  BY DEF create_data_object, OwnEntry
<1>5. u \in NodeRecord /\ u.drawn = s.drawn + 1  BY <1>2 DEF NodeRecord
<1>6. t = [u EXCEPT !.g_msg_table = T]  BY <1>4
<1>. HIDE DEF u, new
<1>7. T \in Table  BY <1>1, <1>2, <1>3, WithTable
<1>8. /\ DOMAIN T = DOMAIN s.g_msg_table \cup {new}
      /\ T[new] = e
      /\ \A id \in DOMAIN s.g_msg_table : id # new => T[id] = s.g_msg_table[id]
  BY DEF With
<1>. HIDE DEF T
<1>9. t \in NodeRecord /\ t.drawn = s.drawn + 1 /\ t.g_msg_table = T
  BY <1>5, <1>6, <1>7 DEF NodeRecord
<1>10. t = [s EXCEPT !.drawn = t.drawn, !.g_msg_table = t.g_msg_table]  BY <1>4, <1>9
<1>11. LastId(n, t) = new /\ new = <<n, t.drawn>>  BY <1>9 DEF LastId, new
<1>. QED  BY <1>1, <1>3, <1>8, <1>9, <1>10, <1>11 DEF Created

LEMMA CreateReady ==
  ASSUME NEW n \in Node, NEW s, NEW sent, Ready(n, s, sent), s.mode # "off",
         NEW content \in Content, NEW pairs \in SUBSET Pair,
         NEW dst \in Node \cup {NO_ID}, NEW ack_for \in Id \cup {NO_ID},
         ack_for = NO_ID <=> content \notin Responses,
         NEW t, t = create_data_object(s, n, content, pairs, dst, ack_for)
  PROVE  /\ Ready(n, t, sent)
         /\ Learns(n, s, t)
         /\ ~ In(s, LastId(n, t))
<1>. DEFINE new == LastId(n, t)
            e == OwnEntry(n, content, pairs, dst, ack_for)
<1>1. s \in NodeRecord  BY DEF Ready
<1>2. /\ t \in NodeRecord
      /\ t = [s EXCEPT !.drawn = t.drawn, !.g_msg_table = t.g_msg_table]
      /\ t.drawn = s.drawn + 1
      /\ new = <<n, t.drawn>> /\ new \in Id
      /\ DOMAIN t.g_msg_table = DOMAIN s.g_msg_table \cup {new}
      /\ t.g_msg_table[new] = e
      /\ \A id \in DOMAIN s.g_msg_table : id # new => t.g_msg_table[id] = s.g_msg_table[id]
  <2>1. Created(n, s, t, e)  BY <1>1, CreateEffect
  <2>. QED  BY <2>1 DEF Created
<1>. HIDE DEF new
<1>3. s.drawn \in Nat  BY <1>1 DEF NodeRecord
<1>4. new[1] = n /\ new[2] = s.drawn + 1  BY <1>2
<1>5. ~ In(s, new)  BY <1>3, <1>4 DEF Ready, In
<1>6. \A id \in DOMAIN s.g_msg_table : t.g_msg_table[id] = s.g_msg_table[id]
  BY <1>2, <1>5 DEF In
<1>7. t.MessageQueue = s.MessageQueue /\ t.ping_id = s.ping_id /\ t.mode = s.mode
  BY <1>1, <1>2 DEF NodeRecord
<1>8. Learns(n, s, t)
  <2>1. e.src_node = n  BY DEF OwnEntry
  <2>. HIDE DEF e
  <2>. QED  BY <1>2, <1>3, <1>4, <1>5, <1>6, <1>7, <2>1 DEF Learns, In
<1>9. Ready(n, t, sent)
  <2>1. t.MessageQueue \in Seq(DOMAIN t.g_msg_table)
    BY <1>2, <1>7 DEF Ready
  <2>2. ASSUME NEW id \in DOMAIN t.g_msg_table
        PROVE  EntryOk(n, id, t.g_msg_table[id]) /\ (id[1] = n => id[2] \in 1 .. t.drawn)
    <3>1. CASE id = new
      <4>1. EntryOk(n, new, e)  BY <1>4 DEF EntryOk, OwnEntry
      <4>. QED  BY <3>1, <4>1, <1>2, <1>3, <1>4
    <3>2. CASE id \in DOMAIN s.g_msg_table
      BY <3>2, <1>2, <1>3, <1>6 DEF Ready
    <3>. QED  BY <3>1, <3>2, <1>2
  <2>3. ASSUME NEW m \in DOMAIN t.ping_id
        PROVE  \/ m = n
               \/ In(t, t.ping_id[m]) /\ IsPing(t.g_msg_table[t.ping_id[m]])
    BY <1>2, <1>6, <1>7 DEF Ready, In
  <2>4. ASSUME Steady PROVE OnceEach(t, sent)
    <3>1. OnceEach(s, sent)  BY <2>4 DEF Ready
    <3>2. \A k \in DOMAIN s.MessageQueue : s.MessageQueue[k] \in DOMAIN s.g_msg_table
      BY DEF Ready
    <3>. QED  BY <3>1, <3>2, <1>2, <1>6, <1>7 DEF OnceEach
  <2>. QED  BY <2>1, <2>2, <2>3, <2>4, <1>2, <1>7 DEF Ready
<1>. QED  BY <1>5, <1>8, <1>9 DEF new

(* What the router answers is a node it may send to, or none.              *)
LEMMA QueryType ==
  ASSUME NEW r \in RouterType, NEW d
  PROVE  router_query_intermediate(r, d) \in Node \cup {NO_ID}
<1>1. CASE d \in Known(r) /\ Routed(r, d)
  <2>1. d \in Node  BY <1>1 DEF Known, RouterType
  <2>2. PICK i \in ActiveSlots(r.best_routing_info[d]) :
          BestRoute(r, d) = r.best_routing_info[d][i]
    BY <1>1, <2>1, BestIsActive
  <2>. QED
    BY <1>1, <2>1, <2>2 DEF router_query_intermediate, ActiveSlots, RouterType,
                            DestinationApproximator, IntermediateStepInfo
<1>2. CASE ~ (d \in Known(r) /\ Routed(r, d))
  BY <1>2 DEF router_query_intermediate
<1>. QED  BY <1>1, <1>2

(* queue_send gives a message its next hop, and queues it if there is room.*)
Queued(s, t, id, final) ==
  /\ t \in NodeRecord
  /\ t = [s EXCEPT !.g_msg_table = t.g_msg_table, !.MessageQueue = t.MessageQueue]
  /\ DOMAIN t.g_msg_table = DOMAIN s.g_msg_table
  /\ \A x \in DOMAIN s.g_msg_table : x # id => t.g_msg_table[x] = s.g_msg_table[x]
  /\ t.g_msg_table[id] = [s.g_msg_table[id] EXCEPT !.target_node = final]
  /\ t.MessageQueue = s.MessageQueue \/ t.MessageQueue = Append(s.MessageQueue, id)

Hop(s, target, use_router) ==
  IF use_router THEN router_query_intermediate(s.router, target) ELSE target

LEMMA QueueEffect ==
  ASSUME NEW s \in NodeRecord, NEW id \in DOMAIN s.g_msg_table,
         NEW target \in Node \cup {NO_ID}, NEW use_router \in BOOLEAN,
         NEW t, t = queue_send(s, id, target, use_router)
  PROVE  \/ t = s
         \/ Queued(s, t, id, Hop(s, target, use_router))
            /\ ~ (use_router /\ Hop(s, target, use_router) = NO_ID)
<1>. DEFINE final == Hop(s, target, use_router)
            T == [s.g_msg_table EXCEPT ![id] = [@ EXCEPT !.target_node = final]]
            q == IF Len(s.MessageQueue) < QUEUE_LENGTH
                 THEN Append(s.MessageQueue, id) ELSE s.MessageQueue
            u == [s EXCEPT !.g_msg_table = T]
<1>1. s.router \in RouterType /\ s.g_msg_table \in Table /\ s.MessageQueue \in Seq(Id)
  BY DEF NodeRecord
<1>2. final \in Node \cup {NO_ID}  BY <1>1, QueryType DEF Hop
<1>3. CASE use_router /\ final = NO_ID
  BY <1>3 DEF queue_send, Hop
<1>4. CASE ~ (use_router /\ final = NO_ID)
  <2>1. t = [s EXCEPT !.g_msg_table[id].target_node = final, !.MessageQueue = q]
    BY <1>4 DEF queue_send, Hop
  <2>. HIDE DEF final
  <2>2. id \in Id /\ s.g_msg_table[id] \in DataEntry  BY <1>1, TableIs
  <2>3. T \in Table
    <3>1. PICK D \in SUBSET Id : s.g_msg_table \in [D -> DataEntry]  BY <1>1 DEF Table
    <3>2. T \in [D -> DataEntry]  BY <2>2, <1>2, <3>1 DEF DataEntry
    <3>. QED  BY <3>2 DEF Table
  <2>4. /\ DOMAIN T = DOMAIN s.g_msg_table
        /\ \A x \in DOMAIN s.g_msg_table : x # id => T[x] = s.g_msg_table[x]
        /\ T[id] = [s.g_msg_table[id] EXCEPT !.target_node = final]
    OBVIOUS
  <2>5. q \in Seq(Id) /\ (q = s.MessageQueue \/ q = Append(s.MessageQueue, id))
    BY <1>1, <2>2
  <2>6. u \in NodeRecord /\ t = [u EXCEPT !.MessageQueue = q] /\ u.g_msg_table = T
    BY <2>1, <2>3 DEF NodeRecord
  <2>. HIDE DEF T, q
  <2>7. t = [s EXCEPT !.g_msg_table = T, !.MessageQueue = q]  BY <2>6
  <2>. HIDE DEF u
  <2>8. t \in NodeRecord /\ t.g_msg_table = T /\ t.MessageQueue = q
    BY <2>5, <2>6 DEF NodeRecord
  <2>9. Queued(s, t, id, final)  BY <2>4, <2>5, <2>7, <2>8 DEF Queued
  <2>. QED  BY <1>4, <2>9 DEF final
<1>. QED  BY <1>3, <1>4

LEMMA QueueReady ==
  ASSUME NEW n, NEW s, NEW sent, Ready(n, s, sent), s.mode # "off",
         NEW id \in DOMAIN s.g_msg_table,
         NEW target \in Node \cup {NO_ID}, NEW use_router \in BOOLEAN,
         NEW t, t = queue_send(s, id, target, use_router),
         Steady /\ s.g_msg_table[id].content = "gbcast" =>
           id \notin sent /\ \A k \in DOMAIN s.MessageQueue : s.MessageQueue[k] # id
  PROVE  Ready(n, t, sent) /\ Learns(n, s, t)
<1>1. s \in NodeRecord /\ s.MessageQueue \in Seq(DOMAIN s.g_msg_table)  BY DEF Ready
<1>2. CASE t = s
  <2>1. Learns(n, s, t)  BY <1>1, <1>2, LearnsSame
  <2>. QED  BY <1>2, <2>1
<1>3. ASSUME NEW final, Queued(s, t, id, final) PROVE Ready(n, t, sent) /\ Learns(n, s, t)
  <2>1. /\ t \in NodeRecord
        /\ t = [s EXCEPT !.g_msg_table = t.g_msg_table, !.MessageQueue = t.MessageQueue]
        /\ DOMAIN t.g_msg_table = DOMAIN s.g_msg_table
        /\ \A x \in DOMAIN s.g_msg_table : x # id => t.g_msg_table[x] = s.g_msg_table[x]
        /\ t.g_msg_table[id] = [s.g_msg_table[id] EXCEPT !.target_node = final]
        /\ t.MessageQueue = s.MessageQueue \/ t.MessageQueue = Append(s.MessageQueue, id)
    BY <1>3 DEF Queued
  <2>2. t.drawn = s.drawn /\ t.ping_id = s.ping_id /\ t.mode = s.mode /\ s.drawn \in Nat
    BY <1>1, <2>1 DEF NodeRecord
  <2>3. s.g_msg_table[id] \in DataEntry  BY <1>1, TableIs DEF NodeRecord
  <2>4. ASSUME NEW x \in DOMAIN s.g_msg_table
        PROVE  /\ Stamp(t.g_msg_table[x]) = Stamp(s.g_msg_table[x])
               /\ EntryOk(n, x, t.g_msg_table[x])
               /\ t.g_msg_table[x].content = s.g_msg_table[x].content
               /\ IsPing(s.g_msg_table[x]) => IsPing(t.g_msg_table[x])
    <3>1. EntryOk(n, x, s.g_msg_table[x])  BY DEF Ready
    <3>2. CASE x # id  BY <2>1, <3>1, <3>2
    <3>3. CASE x = id
      <4>1. /\ t.g_msg_table[x].content = s.g_msg_table[x].content
            /\ t.g_msg_table[x].pairs = s.g_msg_table[x].pairs
            /\ t.g_msg_table[x].src_node = s.g_msg_table[x].src_node
            /\ t.g_msg_table[x].dst_node = s.g_msg_table[x].dst_node
            /\ t.g_msg_table[x].origin_node = s.g_msg_table[x].origin_node
            /\ t.g_msg_table[x].steps = s.g_msg_table[x].steps
            /\ t.g_msg_table[x].ack_for = s.g_msg_table[x].ack_for
        BY <2>1, <2>3, <3>3 DEF DataEntry
      <4>. QED  BY <4>1, <3>1 DEF Stamp, EntryOk, IsPing
    <3>. QED  BY <3>2, <3>3
  <2>5. Learns(n, s, t)  BY <2>1, <2>2, <2>4 DEF Learns, In
  <2>6. t.MessageQueue \in Seq(DOMAIN t.g_msg_table)  BY <1>1, <2>1
  <2>7. ASSUME Steady PROVE OnceEach(t, sent)
    <3>1. OnceEach(s, sent)  BY <2>7 DEF Ready
    <3>2. CASE t.MessageQueue = s.MessageQueue
      <4>1. \A k \in DOMAIN s.MessageQueue : s.MessageQueue[k] \in DOMAIN s.g_msg_table
        BY <1>1
      <4>. QED  BY <2>1, <2>4, <3>1, <3>2, <4>1 DEF OnceEach
    <3>3. CASE t.MessageQueue = Append(s.MessageQueue, id)
      <4>. DEFINE q == s.MessageQueue
      <4>1. /\ DOMAIN t.MessageQueue = DOMAIN q \cup {Len(q) + 1}
            /\ Len(q) + 1 \notin DOMAIN q
            /\ t.MessageQueue[Len(q) + 1] = id
            /\ \A k \in DOMAIN q : t.MessageQueue[k] = q[k] /\ q[k] \in DOMAIN s.g_msg_table
        BY <1>1, <3>3
      <4>. QED  BY <2>1, <2>4, <2>7, <3>1, <4>1 DEF OnceEach
    <3>. QED  BY <2>1, <3>2, <3>3
  <2>. QED  BY <2>1, <2>2, <2>4, <2>5, <2>6, <2>7 DEF Ready, In
<1>. QED  BY <1>1, <1>2, <1>3, QueueEffect

(* An update of the other fields leaves a node ready.                      *)
LEMMA PlainReady ==
  ASSUME NEW n, NEW s, NEW sent, Ready(n, s, sent), s.mode # "off",
         NEW t \in NodeRecord,
         t.g_msg_table = s.g_msg_table, t.MessageQueue = s.MessageQueue,
         t.ping_id = s.ping_id, t.drawn = s.drawn,
         t.mode # s.mode => t.mode = "panic"
  PROVE  Ready(n, t, sent) /\ Learns(n, s, t)
<1>1. s \in NodeRecord  BY DEF Ready
<1>2. Learns(n, s, t)  BY <1>1, LearnsSame
<1>3. OnceEach(s, sent) => OnceEach(t, sent)  BY DEF OnceEach
<1>. QED  BY <1>2, <1>3 DEF Ready, In

LEMMA RouterReady ==
  ASSUME NEW n, NEW s, NEW sent, Ready(n, s, sent), s.mode # "off",
         NEW r \in RouterType, NEW t, t = [s EXCEPT !.router = r]
  PROVE  Ready(n, t, sent) /\ Learns(n, s, t)
<1>1. s \in NodeRecord  BY DEF Ready
<1>2. /\ t \in NodeRecord /\ t.mode = s.mode /\ t.g_msg_table = s.g_msg_table
      /\ t.MessageQueue = s.MessageQueue /\ t.ping_id = s.ping_id /\ t.drawn = s.drawn
  BY <1>1 DEF NodeRecord
<1>. QED  BY <1>2, PlainReady

LEMMA SetNeighborLinkReady ==
  ASSUME NEW n, NEW s, NEW sent, Ready(n, s, sent), s.mode # "off",
         NEW m \in Node, NEW up \in BOOLEAN, NEW t, t = SetNeighborLink(s, m, up)
  PROVE  Ready(n, t, sent) /\ Learns(n, s, t)
<1>. DEFINE r == SetLink(s.router, m, up)
            links == [s.link_enabled EXCEPT ![m] = up]
            u == [s EXCEPT !.router = r]
<1>1. s \in NodeRecord  BY DEF Ready
<1>2. s.router \in RouterType /\ s.link_enabled \in [Node -> BOOLEAN]
  BY <1>1 DEF NodeRecord
<1>3. r \in RouterType  BY <1>2, SetLinkType
<1>4. links \in [Node -> BOOLEAN]  BY <1>2
<1>5. t = [s EXCEPT !.router = r, !.link_enabled = links]
  BY DEF SetNeighborLink, router_link_node, router_unlink_node
<1>6. t = [u EXCEPT !.link_enabled = links]  BY <1>5
<1>. HIDE DEF r, links
<1>7. u \in NodeRecord  BY <1>1, <1>3 DEF NodeRecord
<1>8. /\ u.mode = s.mode /\ u.g_msg_table = s.g_msg_table
      /\ u.MessageQueue = s.MessageQueue /\ u.ping_id = s.ping_id /\ u.drawn = s.drawn
  BY <1>1 DEF NodeRecord
<1>. HIDE DEF u
<1>9. /\ t \in NodeRecord /\ t.mode = u.mode /\ t.g_msg_table = u.g_msg_table
      /\ t.MessageQueue = u.MessageQueue /\ t.ping_id = u.ping_id /\ t.drawn = u.drawn
  BY <1>4, <1>6, <1>7 DEF NodeRecord
<1>. QED  BY <1>8, <1>9, PlainReady

LEMMA PanicReady ==
  ASSUME NEW n, NEW s, NEW sent, Ready(n, s, sent), s.mode # "off", NEW t, t = Panic(s)
  PROVE  Ready(n, t, sent) /\ Learns(n, s, t)
<1>1. s \in NodeRecord  BY DEF Ready
<1>2. /\ t \in NodeRecord /\ t.mode = "panic" /\ t.g_msg_table = s.g_msg_table
      /\ t.MessageQueue = s.MessageQueue /\ t.ping_id = s.ping_id /\ t.drawn = s.drawn
  BY <1>1 DEF NodeRecord, Panic
<1>. QED  BY <1>2, PlainReady

LEMMA QueriedReady ==
  ASSUME NEW n, NEW s, NEW sent, Ready(n, s, sent), s.mode # "off", NEW m \in Node,
         NEW t, t = [s EXCEPT !.last_rquery[m] = s.router.discovery_seq]
  PROVE  Ready(n, t, sent) /\ Learns(n, s, t)
<1>. DEFINE dates == [s.last_rquery EXCEPT ![m] = s.router.discovery_seq]
<1>1. s \in NodeRecord  BY DEF Ready
<1>2. s.router \in RouterType /\ s.last_rquery \in [Node -> Seq32]  BY <1>1 DEF NodeRecord
<1>3. dates \in [Node -> Seq32]  BY <1>2 DEF RouterType
<1>4. t = [s EXCEPT !.last_rquery = dates]  OBVIOUS
<1>. HIDE DEF dates
<1>5. /\ t \in NodeRecord /\ t.mode = s.mode /\ t.g_msg_table = s.g_msg_table
      /\ t.MessageQueue = s.MessageQueue /\ t.ping_id = s.ping_id /\ t.drawn = s.drawn
  BY <1>1, <1>3, <1>4 DEF NodeRecord
<1>. QED  BY <1>5, PlainReady

(* Marking a message leaves the rest of its entry.                         *)
Marked(s, t, id, status) ==
  /\ t \in NodeRecord
  /\ t = [s EXCEPT !.g_msg_table = t.g_msg_table]
  /\ DOMAIN t.g_msg_table = DOMAIN s.g_msg_table
  /\ \A x \in DOMAIN s.g_msg_table : x # id => t.g_msg_table[x] = s.g_msg_table[x]
  /\ t.g_msg_table[id] = [s.g_msg_table[id] EXCEPT !.ack_status = status]

LEMMA MarkEffect ==
  ASSUME NEW s \in NodeRecord, NEW id \in DOMAIN s.g_msg_table, NEW status \in BOOLEAN,
         NEW t, t = [s EXCEPT !.g_msg_table[id].ack_status = status]
  PROVE  Marked(s, t, id, status)
<1>. DEFINE T == [s.g_msg_table EXCEPT ![id] = [@ EXCEPT !.ack_status = status]]
<1>1. s.g_msg_table \in Table  BY DEF NodeRecord
<1>2. s.g_msg_table[id] \in DataEntry  BY <1>1, TableIs
<1>3. PICK D \in SUBSET Id : s.g_msg_table \in [D -> DataEntry]  BY <1>1 DEF Table
<1>4. T \in [D -> DataEntry]  BY <1>2, <1>3 DEF DataEntry
<1>5. T \in Table  BY <1>4 DEF Table
<1>6. /\ DOMAIN T = DOMAIN s.g_msg_table
      /\ \A x \in DOMAIN s.g_msg_table : x # id => T[x] = s.g_msg_table[x]
      /\ T[id] = [s.g_msg_table[id] EXCEPT !.ack_status = status]
  OBVIOUS
<1>7. t = [s EXCEPT !.g_msg_table = T]  OBVIOUS
<1>. HIDE DEF T
<1>8. t \in NodeRecord /\ t.g_msg_table = T  BY <1>5, <1>7 DEF NodeRecord
<1>. QED  BY <1>6, <1>7, <1>8 DEF Marked

LEMMA MarkReady ==
  ASSUME NEW n, NEW s, NEW sent, Ready(n, s, sent), s.mode # "off",
         NEW id \in DOMAIN s.g_msg_table, NEW status \in BOOLEAN,
         NEW t, t = [s EXCEPT !.g_msg_table[id].ack_status = status]
  PROVE  Ready(n, t, sent) /\ Learns(n, s, t)
<1>1. s \in NodeRecord /\ s.MessageQueue \in Seq(DOMAIN s.g_msg_table)  BY DEF Ready
<1>2. Marked(s, t, id, status)  BY <1>1, MarkEffect
<1>3. /\ t \in NodeRecord
      /\ t = [s EXCEPT !.g_msg_table = t.g_msg_table]
      /\ DOMAIN t.g_msg_table = DOMAIN s.g_msg_table
      /\ \A x \in DOMAIN s.g_msg_table : x # id => t.g_msg_table[x] = s.g_msg_table[x]
      /\ t.g_msg_table[id] = [s.g_msg_table[id] EXCEPT !.ack_status = status]
  BY <1>2 DEF Marked
<1>4. /\ t.drawn = s.drawn /\ t.ping_id = s.ping_id /\ t.mode = s.mode /\ s.drawn \in Nat
      /\ t.MessageQueue = s.MessageQueue
  BY <1>1, <1>3 DEF NodeRecord
<1>5. s.g_msg_table[id] \in DataEntry  BY <1>1, TableIs DEF NodeRecord
<1>6. ASSUME NEW x \in DOMAIN s.g_msg_table
      PROVE  /\ Stamp(t.g_msg_table[x]) = Stamp(s.g_msg_table[x])
             /\ EntryOk(n, x, t.g_msg_table[x])
             /\ t.g_msg_table[x].content = s.g_msg_table[x].content
             /\ IsPing(s.g_msg_table[x]) => IsPing(t.g_msg_table[x])
  <2>1. EntryOk(n, x, s.g_msg_table[x])  BY DEF Ready
  <2>2. CASE x # id  BY <1>3, <2>1, <2>2
  <2>3. CASE x = id
    <3>1. /\ t.g_msg_table[x].content = s.g_msg_table[x].content
          /\ t.g_msg_table[x].pairs = s.g_msg_table[x].pairs
          /\ t.g_msg_table[x].src_node = s.g_msg_table[x].src_node
          /\ t.g_msg_table[x].dst_node = s.g_msg_table[x].dst_node
          /\ t.g_msg_table[x].origin_node = s.g_msg_table[x].origin_node
          /\ t.g_msg_table[x].steps = s.g_msg_table[x].steps
          /\ t.g_msg_table[x].ack_for = s.g_msg_table[x].ack_for
      BY <1>3, <1>5, <2>3 DEF DataEntry
    <3>. QED  BY <3>1, <2>1 DEF Stamp, EntryOk, IsPing
  <2>. QED  BY <2>2, <2>3
<1>7. Learns(n, s, t)  BY <1>3, <1>4, <1>6 DEF Learns, In
<1>8. ASSUME Steady PROVE OnceEach(t, sent)
  <2>1. OnceEach(s, sent)  BY <1>8 DEF Ready
  <2>2. \A k \in DOMAIN s.MessageQueue : s.MessageQueue[k] \in DOMAIN s.g_msg_table
    BY <1>1
  <2>. QED  BY <1>3, <1>4, <1>6, <2>1, <2>2 DEF OnceEach
<1>. QED  BY <1>1, <1>3, <1>4, <1>6, <1>7, <1>8 DEF Ready, In

(* The node table's operators make pings.                                  *)
LEMMA PingReady ==
  ASSUME NEW n, NEW s, NEW sent, Ready(n, s, sent), s.mode # "off",
         NEW m \in Node, NEW id \in DOMAIN s.g_msg_table,
         IsPing(s.g_msg_table[id]),
         NEW t, t = [s EXCEPT !.ping_id = With(s.ping_id, m, id)]
  PROVE  Ready(n, t, sent) /\ Learns(n, s, t)
<1>. DEFINE P == With(s.ping_id, m, id)
<1>1. s \in NodeRecord  BY DEF Ready
<1>2. id \in Id  BY <1>1, TableIs DEF NodeRecord
<1>3. P \in PingTable  BY <1>1, <1>2, WithPings
<1>4. /\ DOMAIN P = DOMAIN s.ping_id \cup {m} /\ P[m] = id
      /\ \A x \in DOMAIN s.ping_id : x # m => P[x] = s.ping_id[x]
  BY DEF With
<1>. HIDE DEF P
<1>5. t = [s EXCEPT !.ping_id = P]  BY DEF P
<1>6. /\ t \in NodeRecord /\ t.mode = s.mode /\ t.g_msg_table = s.g_msg_table
      /\ t.MessageQueue = s.MessageQueue /\ t.ping_id = P /\ t.drawn = s.drawn
  BY <1>1, <1>3, <1>5 DEF NodeRecord
<1>7. Learns(n, s, t)  BY <1>1, <1>6, LearnsSame
<1>8. OnceEach(s, sent) => OnceEach(t, sent)  BY <1>6 DEF OnceEach
<1>9. ASSUME NEW x \in DOMAIN t.ping_id
      PROVE  \/ x = n
             \/ In(t, t.ping_id[x]) /\ IsPing(t.g_msg_table[t.ping_id[x]])
  <2>1. CASE x = m  BY <1>4, <1>6, <2>1 DEF In
  <2>2. CASE x # m  BY <1>4, <1>6, <2>2 DEF Ready, In
  <2>. QED  BY <2>1, <2>2
<1>. QED  BY <1>6, <1>7, <1>8, <1>9 DEF Ready

LEMMA LearnsMode ==
  ASSUME NEW n, NEW s, NEW t, s.mode # "off", Learns(n, s, t)
  PROVE  t.mode # "off"
BY DEF Learns

LEMMA NodeCreateReady ==
  ASSUME NEW n \in Node, NEW s, NEW sent, Ready(n, s, sent), s.mode # "off",
         NEW m \in Node, NEW t, t = node_create_if_needed(s, n, m)
  PROVE  Ready(n, t, sent) /\ Learns(n, s, t)
<1>1. s \in NodeRecord  BY DEF Ready
<1>2. CASE m \in DOMAIN s.ping_id
  <2>1. t = s  BY <1>2 DEF node_create_if_needed
  <2>. QED  BY <1>1, <2>1, LearnsSame
<1>3. CASE m \notin DOMAIN s.ping_id
  <2>. DEFINE u == create_data_object(s, n, "ping", {}, m, NO_ID)
  <2>1. t = [u EXCEPT !.ping_id = With(u.ping_id, m, LastId(n, u))]
    BY <1>3 DEF node_create_if_needed
  <2>2. /\ "ping" \in Content /\ "ping" \notin Responses
        /\ {} \in SUBSET Pair /\ m \in Node \cup {NO_ID} /\ NO_ID \in Id \cup {NO_ID}
    BY DEF Content, Commands, Responses
  <2>3. Ready(n, u, sent) /\ Learns(n, s, u)  BY <2>2, CreateReady
  <2>4. Created(n, s, u, OwnEntry(n, "ping", {}, m, NO_ID))  BY <1>1, <2>2, CreateEffect
  <2>. HIDE DEF u
  <2>5. /\ LastId(n, u) \in DOMAIN u.g_msg_table
        /\ IsPing(u.g_msg_table[LastId(n, u)])
    BY <2>4 DEF Created, OwnEntry, IsPing
  <2>6. u.mode # "off"  BY <2>3, LearnsMode
  <2>7. Ready(n, t, sent) /\ Learns(n, u, t)  BY <2>1, <2>3, <2>5, <2>6, PingReady
  <2>8. u \in NodeRecord /\ t \in NodeRecord  BY <2>3, <2>7 DEF Ready
  <2>. QED  BY <1>1, <2>3, <2>7, <2>8, LearnsTwice
<1>. QED  BY <1>2, <1>3

LEMMA NodesUpdateReady ==
  ASSUME NEW n \in Node, NEW s, NEW sent, Ready(n, s, sent), s.mode # "off",
         NEW id \in DOMAIN s.g_msg_table, NEW t, t = nodes_update(s, n, id)
  PROVE  Ready(n, t, sent) /\ Learns(n, s, t)
<1>. DEFINE e == s.g_msg_table[id]
            u == node_create_if_needed(s, n, e.origin_node)
<1>1. s \in NodeRecord  BY DEF Ready
<1>2. e \in DataEntry  BY <1>1, TableIs DEF NodeRecord
<1>3. e.origin_node \in Node /\ e.src_node \in Node  BY <1>2 DEF DataEntry
<1>4. t = node_create_if_needed(u, n, e.src_node)  BY DEF nodes_update
<1>. HIDE DEF e
<1>5. Ready(n, u, sent) /\ Learns(n, s, u)  BY <1>3, NodeCreateReady
<1>. HIDE DEF u
<1>6. u.mode # "off"  BY <1>5, LearnsMode
<1>7. Ready(n, t, sent) /\ Learns(n, u, t)  BY <1>3, <1>4, <1>5, <1>6, NodeCreateReady
<1>8. u \in NodeRecord /\ t \in NodeRecord  BY <1>5, <1>7 DEF Ready
<1>. QED  BY <1>1, <1>5, <1>7, <1>8, LearnsTwice

(* All they do is to make pings, and to note them in the node table.       *)
Notes(n, s, t) ==
  /\ t.router = s.router /\ t.link_enabled = s.link_enabled
  /\ t.last_rquery = s.last_rquery /\ t.MessageQueue = s.MessageQueue /\ t.mode = s.mode
  /\ \A id \in DOMAIN s.g_msg_table : In(t, id) /\ t.g_msg_table[id] = s.g_msg_table[id]
  /\ \A id \in DOMAIN t.g_msg_table \ DOMAIN s.g_msg_table :
       \E m \in Node : t.g_msg_table[id] = OwnEntry(n, "ping", {}, m, NO_ID)

LEMMA NodeCreateNotes ==
  ASSUME NEW n \in Node, NEW s, NEW sent, Ready(n, s, sent), s.mode # "off",
         NEW m \in Node, NEW t, t = node_create_if_needed(s, n, m)
  PROVE  Notes(n, s, t)
<1>1. s \in NodeRecord  BY DEF Ready
<1>2. CASE m \in DOMAIN s.ping_id
  <2>1. t = s  BY <1>2 DEF node_create_if_needed
  <2>. QED  BY <2>1 DEF Notes, In
<1>3. CASE m \notin DOMAIN s.ping_id
  <2>. DEFINE u == create_data_object(s, n, "ping", {}, m, NO_ID)
              P == With(u.ping_id, m, LastId(n, u))
              e == OwnEntry(n, "ping", {}, m, NO_ID)
  <2>1. t = [u EXCEPT !.ping_id = P]  BY <1>3 DEF node_create_if_needed
  <2>2. /\ "ping" \in Content /\ "ping" \notin Responses
        /\ {} \in SUBSET Pair /\ m \in Node \cup {NO_ID} /\ NO_ID \in Id \cup {NO_ID}
    BY DEF Content, Commands, Responses
  <2>3. ~ In(s, LastId(n, u))  BY <2>2, CreateReady
  <2>4. Created(n, s, u, e)  BY <1>1, <2>2, CreateEffect
  <2>. HIDE DEF u, P, e
  <2>5. /\ u \in NodeRecord
        /\ u.router = s.router /\ u.link_enabled = s.link_enabled
        /\ u.last_rquery = s.last_rquery /\ u.MessageQueue = s.MessageQueue
        /\ u.mode = s.mode
    BY <1>1, <2>4 DEF Created, NodeRecord
  <2>6. /\ t.router = u.router /\ t.link_enabled = u.link_enabled
        /\ t.last_rquery = u.last_rquery /\ t.MessageQueue = u.MessageQueue
        /\ t.mode = u.mode /\ t.g_msg_table = u.g_msg_table
    BY <2>1, <2>5 DEF NodeRecord
  <2>7. \A id \in DOMAIN s.g_msg_table : In(u, id) /\ u.g_msg_table[id] = s.g_msg_table[id]
    BY <2>3, <2>4 DEF Created, In
  <2>8. \A id \in DOMAIN u.g_msg_table \ DOMAIN s.g_msg_table : u.g_msg_table[id] = e
    BY <2>4 DEF Created
  <2>. QED  BY <2>5, <2>6, <2>7, <2>8 DEF Notes, In, e
<1>. QED  BY <1>2, <1>3

LEMMA NodesUpdateNotes ==
  ASSUME NEW n \in Node, NEW s, NEW sent, Ready(n, s, sent), s.mode # "off",
         NEW id \in DOMAIN s.g_msg_table, NEW t, t = nodes_update(s, n, id)
  PROVE  Notes(n, s, t)
<1>. DEFINE e == s.g_msg_table[id]
            u == node_create_if_needed(s, n, e.origin_node)
<1>1. s \in NodeRecord  BY DEF Ready
<1>2. e \in DataEntry  BY <1>1, TableIs DEF NodeRecord
<1>3. e.origin_node \in Node /\ e.src_node \in Node  BY <1>2 DEF DataEntry
<1>4. t = node_create_if_needed(u, n, e.src_node)  BY DEF nodes_update
<1>. HIDE DEF e
<1>5. Ready(n, u, sent) /\ Learns(n, s, u) /\ Notes(n, s, u)
  BY <1>3, NodeCreateReady, NodeCreateNotes
<1>. HIDE DEF u
<1>6. u.mode # "off"  BY <1>5, LearnsMode
<1>7. Notes(n, u, t)  BY <1>3, <1>4, <1>5, <1>6, NodeCreateNotes
<1>8. ASSUME NEW x \in DOMAIN t.g_msg_table \ DOMAIN s.g_msg_table
      PROVE  \E m \in Node : t.g_msg_table[x] = OwnEntry(n, "ping", {}, m, NO_ID)
  <2>1. CASE x \in DOMAIN u.g_msg_table
    BY <1>5, <1>7, <1>8, <2>1 DEF Notes
  <2>2. CASE x \notin DOMAIN u.g_msg_table
    BY <1>7, <1>8, <2>2 DEF Notes
  <2>. QED  BY <2>1, <2>2
<1>. QED  BY <1>5, <1>7, <1>8 DEF Notes, In

----------------------------------------------------------------------------
(* The receive handler.                                                    *)

(* The routers between the pairs of an answer: parsed of                   *)
(* router_parse_rquery is such a function, by induction on the places.     *)
Parsing(g, r, from, pairs, last) ==
  g = [k \in 0 .. last |-> IF k = 0 THEN r ELSE ParsePlace(g[k - 1], from, pairs, k - 1)]

LEMMA ParsingExists ==
  ASSUME NEW r, NEW from, NEW pairs, NEW last \in Nat
  PROVE  \E g : Parsing(g, r, from, pairs, last)
<1>. DEFINE Bad == {k \in Nat : ~ \E g : Parsing(g, r, from, pairs, k)}
<1>. SUFFICES ASSUME Bad # {} PROVE FALSE  OBVIOUS
<1>1. PICK k \in Bad : \A j \in Bad : k <= j
  <2>1. Bad \in SUBSET Nat  OBVIOUS
  <2>. HIDE DEF Bad
  <2>. QED  BY <2>1, LeastExists
<1>2. k # 0
  <2>1. Parsing([j \in 0 .. 0 |-> r], r, from, pairs, 0)  BY DEF Parsing
  <2>. QED  BY <2>1
<1>3. PICK g : Parsing(g, r, from, pairs, k - 1)
  <2>1. k - 1 \in Nat /\ ~ (k <= k - 1)  BY <1>2
  <2>2. k - 1 \notin Bad  BY <1>1, <2>1
  <2>. QED  BY <2>1, <2>2
<1>. DEFINE h == [j \in 0 .. k |-> IF j = k THEN ParsePlace(g[k - 1], from, pairs, k - 1)
                                   ELSE g[j]]
<1>4. Parsing(h, r, from, pairs, k)
  <2>1. \A j \in 0 .. k : j # 0 => j - 1 \in 0 .. k - 1 /\ j - 1 # k  BY <1>2
  <2>2. \A j \in 0 .. k - 1 :
          g[j] = IF j = 0 THEN r ELSE ParsePlace(g[j - 1], from, pairs, j - 1)
    BY <1>3 DEF Parsing
  <2>3. ASSUME NEW j \in 0 .. k
        PROVE  h[j] = IF j = 0 THEN r ELSE ParsePlace(h[j - 1], from, pairs, j - 1)
    <3>1. CASE j = k
      <4>1. h[k - 1] = g[k - 1] /\ h[k] = ParsePlace(g[k - 1], from, pairs, k - 1)
        BY <1>2, <2>1
      <4>. QED  BY <1>2, <3>1, <4>1
    <3>2. CASE j # k
      <4>1. h[j] = g[j] /\ (j # 0 => h[j - 1] = g[j - 1])  BY <2>1, <3>2
      <4>2. j \in 0 .. k - 1  BY <3>2
      <4>. QED  BY <2>2, <4>1, <4>2
    <3>. QED  BY <3>1, <3>2
  <2>. QED  BY <2>3 DEF Parsing
<1>. QED  BY <1>4

LEMMA ParseIsParsing ==
  ASSUME NEW r, NEW from, NEW pairs
  PROVE  \E g : /\ Parsing(g, r, from, pairs, RQUERY_COUNT)
                /\ router_parse_rquery(r, from, pairs) = g[RQUERY_COUNT]
<1>. DEFINE g == CHOOSE g : Parsing(g, r, from, pairs, RQUERY_COUNT)
<1>1. Parsing(g, r, from, pairs, RQUERY_COUNT)
  <2>1. RQUERY_COUNT \in Nat  BY MeshAssumption
  <2>. QED  BY <2>1, ParsingExists
<1>2. router_parse_rquery(r, from, pairs) = g[RQUERY_COUNT]
  BY DEF router_parse_rquery, Parsing
<1>. QED  BY <1>1, <1>2

LEMMA ParsePlaceCases ==
  ASSUME NEW r, NEW from, NEW pairs, NEW k
  PROVE  \/ ParsePlace(r, from, pairs, k) = r
         \/ \E p \in pairs : ParsePlace(r, from, pairs, k) =
              router_incorporate_rquery(r, from, p.destination_node, p.steps)
BY DEF ParsePlace

LEMMA ParseType ==
  ASSUME NEW r \in RouterType, NEW from \in Node, NEW pairs \in SUBSET Pair
  PROVE  router_parse_rquery(r, from, pairs) \in RouterType
<1>1. PICK g : /\ Parsing(g, r, from, pairs, RQUERY_COUNT)
               /\ router_parse_rquery(r, from, pairs) = g[RQUERY_COUNT]
  BY ParseIsParsing
<1>. DEFINE Bad == {k \in 0 .. RQUERY_COUNT : g[k] \notin RouterType}
<1>2. RQUERY_COUNT \in Nat  BY MeshAssumption
<1>3. g[0] = r /\ \A k \in 1 .. RQUERY_COUNT : g[k] = ParsePlace(g[k - 1], from, pairs, k - 1)
  BY <1>1, <1>2 DEF Parsing
<1>4. CASE Bad # {}
  <2>1. PICK k \in Bad : \A j \in Bad : k <= j
    <3>1. Bad \in SUBSET Nat  BY <1>2
    <3>. HIDE DEF Bad
    <3>. QED  BY <1>4, <3>1, LeastExists
  <2>2. k # 0  BY <1>3, <2>1
  <2>3. k - 1 \in 0 .. RQUERY_COUNT /\ ~ (k <= k - 1)  BY <1>2, <2>1, <2>2
  <2>4. g[k - 1] \in RouterType  BY <2>1, <2>3
  <2>5. g[k] = ParsePlace(g[k - 1], from, pairs, k - 1)  BY <1>2, <1>3, <2>1, <2>2
  <2>6. ASSUME NEW p \in pairs
        PROVE  router_incorporate_rquery(g[k - 1], from, p.destination_node, p.steps) \in RouterType
    <3>1. p.destination_node \in Node /\ p.steps \in Nat /\ from \in Node \cup {NO_ID}
      BY DEF Pair
    <3>. QED  BY <2>4, <3>1, IncorporateType
  <2>7. g[k] \in RouterType  BY <2>4, <2>5, <2>6, ParsePlaceCases
  <2>. QED  BY <2>1, <2>7
<1>5. CASE Bad = {}  BY <1>1, <1>2, <1>5
<1>. QED  BY <1>4, <1>5

LEMMA AnswerType ==
  ASSUME NEW r \in RouterType, NEW n, NEW since
  PROVE  router_answer_rquery(r, n, since, RQUERY_COUNT) \in SUBSET Pair
<1>1. RQUERY_COUNT \in Nat  BY MeshAssumption
<1>2. ASSUME NEW p \in router_answer_rquery(r, n, since, RQUERY_COUNT) PROVE p \in Pair
  <2>1. Offers(r, p)  BY <1>1, AnswerPairs
  <2>2. Known(r) \subseteq Node  BY KnownFinite
  <2>. QED  BY <2>1, <2>2 DEF Offers, Pair
<1>. QED  BY <1>2

(* A response is a message of the node's own, queued.                      *)
LEMMA RespondReady ==
  ASSUME NEW n \in Node, NEW s, NEW sent, Ready(n, s, sent), s.mode # "off",
         NEW id \in DOMAIN s.g_msg_table, NEW content \in Responses,
         NEW pairs \in SUBSET Pair, NEW use_router \in BOOLEAN,
         NEW t, t = Respond(s, n, id, content, pairs, use_router)
  PROVE  Ready(n, t, sent) /\ Learns(n, s, t)
<1>. DEFINE e == s.g_msg_table[id]
            u == create_data_object(s, n, content, pairs, e.origin_node, id)
            new == LastId(n, u)
<1>1. s \in NodeRecord  BY DEF Ready
<1>2. e \in DataEntry /\ id \in Id  BY <1>1, TableIs DEF NodeRecord
<1>3. e.origin_node \in Node /\ e.src_node \in Node  BY <1>2 DEF DataEntry
<1>4. t = queue_send(u, new, e.src_node, use_router)  BY DEF Respond
<1>. HIDE DEF e
<1>5. content \in Content /\ content # "gbcast"  BY DEF Content, Responses
<1>6. id # NO_ID  BY <1>2, MeshAssumption DEF Id
<1>7. e.origin_node \in Node \cup {NO_ID} /\ id \in Id \cup {NO_ID}
      /\ (id = NO_ID <=> content \notin Responses)
  BY <1>2, <1>3, <1>6
<1>8. Ready(n, u, sent) /\ Learns(n, s, u)  BY <1>5, <1>7, CreateReady
<1>9. Created(n, s, u, OwnEntry(n, content, pairs, e.origin_node, id))
  BY <1>1, <1>5, <1>7, CreateEffect
<1>. HIDE DEF u
<1>10. new \in DOMAIN u.g_msg_table /\ u.g_msg_table[new].content # "gbcast"
  BY <1>5, <1>9 DEF Created, OwnEntry
<1>11. u.mode # "off"  BY <1>8, LearnsMode
<1>12. e.src_node \in Node \cup {NO_ID}  BY <1>3
<1>. HIDE DEF new
<1>13. Ready(n, t, sent) /\ Learns(n, u, t)
  BY <1>4, <1>8, <1>10, <1>11, <1>12, QueueReady
<1>14. u \in NodeRecord /\ t \in NodeRecord  BY <1>8, <1>13 DEF Ready
<1>. QED  BY <1>1, <1>8, <1>13, <1>14, LearnsTwice

(* A gbcast that is new to the node may be passed on.                      *)
New(s, sent, id) ==
  Steady /\ s.g_msg_table[id].content = "gbcast" =>
    id \notin sent /\ \A k \in DOMAIN s.MessageQueue : s.MessageQueue[k] # id

LEMMA HandleCommandReady ==
  ASSUME NEW n \in Node, NEW s, NEW sent, Ready(n, s, sent), s.mode # "off",
         NEW id \in DOMAIN s.g_msg_table, New(s, sent, id),
         NEW t, t = HandleCommand(s, n, id)
  PROVE  Ready(n, t, sent) /\ Learns(n, s, t)
<1>. DEFINE e == s.g_msg_table[id]
<1>1. s \in NodeRecord  BY DEF Ready
<1>2. e \in DataEntry /\ id \in Id  BY <1>1, TableIs DEF NodeRecord
<1>3. e.origin_node \in Node /\ e.src_node \in Node  BY <1>2 DEF DataEntry
<1>4. /\ {} \in SUBSET Pair /\ TRUE \in BOOLEAN /\ FALSE \in BOOLEAN
      /\ "name" \in Responses /\ "routes" \in Responses
      /\ "y" \in Responses /\ "n" \in Responses
  BY DEF Responses
<1>5. ASSUME NEW u, Ready(n, u, sent), Learns(n, s, u),
             NEW content \in Responses, NEW pairs \in SUBSET Pair, NEW use_router \in BOOLEAN,
             t = Respond(u, n, id, content, pairs, use_router)
      PROVE  Ready(n, t, sent) /\ Learns(n, s, t)
  <2>1. id \in DOMAIN u.g_msg_table  BY <1>5 DEF Learns, In
  <2>2. u.mode # "off"  BY <1>5, LearnsMode
  <2>3. Ready(n, t, sent) /\ Learns(n, u, t)  BY <1>5, <2>1, <2>2, RespondReady
  <2>4. u \in NodeRecord /\ t \in NodeRecord  BY <1>5, <2>3 DEF Ready
  <2>. QED  BY <1>1, <1>5, <2>3, <2>4, LearnsTwice
<1>6. Ready(n, s, sent) /\ Learns(n, s, s)  BY <1>1, LearnsSame
<1>7. CASE e.content = "ping"
  <2>1. t = Respond(s, n, id, "name", {}, TRUE)  BY <1>7 DEF HandleCommand
  <2>. QED  BY <1>4, <1>5, <1>6, <2>1
<1>8. CASE e.content = "gbcast"
  <2>. DEFINE u == queue_send(s, id, BROADCAST_ID, FALSE)
  <2>1. t = Respond(u, n, id, "name", {}, TRUE)  BY <1>8 DEF HandleCommand
  <2>2. BROADCAST_ID \in Node \cup {NO_ID}  BY DEF BROADCAST_ID
  <2>3. Ready(n, u, sent) /\ Learns(n, s, u)  BY <1>4, <2>2, QueueReady DEF New
  <2>. HIDE DEF u
  <2>. QED  BY <1>4, <1>5, <2>1, <2>3
<1>9. CASE e.content = "rquery"
  <2>. DEFINE u == [s EXCEPT !.last_rquery[e.src_node] = s.router.discovery_seq]
              pairs == router_answer_rquery(s.router, e.src_node, s.last_rquery[e.src_node],
                                            RQUERY_COUNT)
  <2>1. t = Respond(u, n, id, "routes", pairs, TRUE)  BY <1>9 DEF HandleCommand
  <2>2. Ready(n, u, sent) /\ Learns(n, s, u)  BY <1>3, QueriedReady
  <2>3. pairs \in SUBSET Pair  BY <1>1, AnswerType DEF NodeRecord
  <2>. HIDE DEF u, pairs
  <2>. QED  BY <1>4, <1>5, <2>1, <2>2, <2>3
<1>10. CASE e.content = "unlink" /\ e.steps # 1
  <2>1. t = Respond(s, n, id, "n", {}, TRUE)  BY <1>10 DEF HandleCommand
  <2>. QED  BY <1>4, <1>5, <1>6, <2>1
<1>11. CASE e.content = "unlink" /\ e.steps = 1
  <2>. DEFINE u == SetNeighborLink(s, e.origin_node, FALSE)
  <2>1. t = Respond(u, n, id, "y", {}, FALSE)  BY <1>11 DEF HandleCommand
  <2>2. Ready(n, u, sent) /\ Learns(n, s, u)  BY <1>3, <1>4, SetNeighborLinkReady
  <2>. HIDE DEF u
  <2>. QED  BY <1>4, <1>5, <2>1, <2>2
<1>12. CASE e.content = "link"
  <2>1. t = SetNeighborLink(s, e.origin_node, TRUE)  BY <1>12 DEF HandleCommand
  <2>. QED  BY <1>3, <1>4, <2>1, SetNeighborLinkReady
<1>13. CASE e.content \notin {"ping", "gbcast", "rquery", "unlink", "link"}
  <2>1. t = s  BY <1>13 DEF HandleCommand
  <2>. QED  BY <1>6, <2>1
<1>. QED  BY <1>7, <1>8, <1>9, <1>10, <1>11, <1>12, <1>13

LEMMA HandleResponseReady ==
  ASSUME NEW n \in Node, NEW s, NEW sent, Ready(n, s, sent), s.mode # "off",
         NEW id \in DOMAIN s.g_msg_table, NEW t, t = HandleResponse(s, n, id)
  PROVE  Ready(n, t, sent) /\ Learns(n, s, t)
<1>. DEFINE e == s.g_msg_table[id]
<1>1. s \in NodeRecord  BY DEF Ready
<1>2. e \in DataEntry /\ s.router \in RouterType  BY <1>1, TableIs DEF NodeRecord
<1>3. e.origin_node \in Node /\ e.src_node \in Node /\ e.pairs \in SUBSET Pair
  BY <1>2 DEF DataEntry, Pair
<1>4. CASE t = Panic(s)  BY <1>4, PanicReady
<1>5. CASE t = [s EXCEPT !.router = router_parse_rquery(@, e.src_node, e.pairs)]
  <2>1. router_parse_rquery(s.router, e.src_node, e.pairs) \in RouterType
    BY <1>2, <1>3, ParseType
  <2>. QED  BY <1>5, <2>1, RouterReady
<1>6. CASE t = SetNeighborLink(s, e.origin_node, FALSE)
  <2>1. FALSE \in BOOLEAN  OBVIOUS
  <2>. QED  BY <1>3, <1>6, <2>1, SetNeighborLinkReady
<1>7. CASE t = s  BY <1>1, <1>7, LearnsSame
<1>. QED  BY <1>4, <1>5, <1>6, <1>7 DEF HandleResponse

LEMMA HandleReady ==
  ASSUME NEW n \in Node, NEW s, NEW sent, Ready(n, s, sent), s.mode # "off",
         NEW id \in DOMAIN s.g_msg_table, New(s, sent, id),
         NEW t, t = handle_maintenance_msg(s, n, id)
  PROVE  Ready(n, t, sent) /\ Learns(n, s, t)
<1>1. s \in NodeRecord  BY DEF Ready
<1>2. t = s \/ t = HandleResponse(s, n, id) \/ t = HandleCommand(s, n, id)
  BY DEF handle_maintenance_msg
<1>3. CASE t = s  BY <1>1, <1>3, LearnsSame
<1>. QED  BY <1>2, <1>3, HandleResponseReady, HandleCommandReady

(* What an id stands for.                                                  *)
Body(e) == <<e.content, e.pairs, e.dst_node, e.origin_node, e.ack_for>>

FrameBody(f) == <<f.content, f.pairs, f.dst, f.origin, f.ack_for>>

(* A frame with a new id becomes an entry.                                 *)
Arrived(f) ==
  [content |-> f.content, pairs |-> f.pairs, src_node |-> f.from,
   dst_node |-> f.dst, origin_node |-> f.origin, target_node |-> NO_ID,
   steps |-> f.steps + 1, ack_for |-> f.ack_for, ack_status |-> FALSE]

Got(s, t, f) ==
  /\ t \in NodeRecord
  /\ t = [s EXCEPT !.g_msg_table = t.g_msg_table]
  /\ DOMAIN t.g_msg_table = DOMAIN s.g_msg_table \cup {f.id}
  /\ \A id \in DOMAIN s.g_msg_table : t.g_msg_table[id] = s.g_msg_table[id]
  /\ f.id \notin DOMAIN s.g_msg_table => t.g_msg_table[f.id] = Arrived(f)

LEMMA ReceivedEffect ==
  ASSUME NEW s \in NodeRecord, NEW f \in Frame, NEW t, t = Received(s, f)
  PROVE  Got(s, t, f) /\ Arrived(f) \in DataEntry
<1>1. f.id \in Id /\ s.g_msg_table \in Table  BY DEF Frame, NodeRecord
<1>2. Arrived(f) \in DataEntry  BY DEF Arrived, DataEntry, Frame, Content, Pair
<1>3. CASE In(s, f.id)
  <2>1. t = s  BY <1>3 DEF Received
  <2>2. s = [s EXCEPT !.g_msg_table = s.g_msg_table]  BY DEF NodeRecord
  <2>. QED  BY <1>2, <1>3, <2>1, <2>2 DEF Got, In
<1>4. CASE ~ In(s, f.id)
  <2>. DEFINE T == With(s.g_msg_table, f.id, Arrived(f))
  <2>1. t = [s EXCEPT !.g_msg_table = T]  BY <1>4 DEF Received, Arrived
  <2>2. T \in Table  BY <1>1, <1>2, WithTable
  <2>3. /\ DOMAIN T = DOMAIN s.g_msg_table \cup {f.id}
        /\ T[f.id] = Arrived(f)
        /\ \A id \in DOMAIN s.g_msg_table : T[id] = s.g_msg_table[id]
    BY <1>4 DEF With, In
  <2>. HIDE DEF T
  <2>4. t \in NodeRecord /\ t.g_msg_table = T  BY <2>1, <2>2 DEF NodeRecord
  <2>. QED  BY <1>2, <2>1, <2>3, <2>4 DEF Got
<1>. QED  BY <1>3, <1>4

LEMMA ReceivedReady ==
  ASSUME NEW n, NEW s, NEW sent, Ready(n, s, sent), s.mode # "off",
         NEW f \in Frame, FrameOk(f), f.id[1] = n => f.id[2] \in 1 .. s.drawn,
         NEW t, t = Received(s, f)
  PROVE  Ready(n, t, sent)
<1>1. s \in NodeRecord /\ s.MessageQueue \in Seq(DOMAIN s.g_msg_table)  BY DEF Ready
<1>2. Got(s, t, f)  BY <1>1, ReceivedEffect
<1>3. /\ t \in NodeRecord
      /\ t = [s EXCEPT !.g_msg_table = t.g_msg_table]
      /\ DOMAIN t.g_msg_table = DOMAIN s.g_msg_table \cup {f.id}
      /\ \A id \in DOMAIN s.g_msg_table : t.g_msg_table[id] = s.g_msg_table[id]
      /\ f.id \notin DOMAIN s.g_msg_table => t.g_msg_table[f.id] = Arrived(f)
  BY <1>2 DEF Got
<1>4. /\ t.drawn = s.drawn /\ t.ping_id = s.ping_id /\ t.mode = s.mode
      /\ t.MessageQueue = s.MessageQueue
  BY <1>1, <1>3 DEF NodeRecord
<1>5. ASSUME NEW id \in DOMAIN t.g_msg_table
      PROVE  EntryOk(n, id, t.g_msg_table[id]) /\ (id[1] = n => id[2] \in 1 .. t.drawn)
  <2>1. CASE id \in DOMAIN s.g_msg_table  BY <1>3, <1>4, <2>1 DEF Ready
  <2>2. CASE id \notin DOMAIN s.g_msg_table
    <3>1. id = f.id /\ t.g_msg_table[id] = Arrived(f)  BY <1>3, <2>2
    <3>2. f.steps + 1 # 0  BY DEF Frame
    <3>3. EntryOk(n, f.id, Arrived(f))  BY <3>2 DEF EntryOk, FrameOk, Arrived
    <3>. QED  BY <1>4, <3>1, <3>3
  <2>. QED  BY <2>1, <2>2
<1>6. ASSUME Steady PROVE OnceEach(t, sent)
  <2>1. OnceEach(s, sent)  BY <1>6 DEF Ready
  <2>2. \A k \in DOMAIN s.MessageQueue : s.MessageQueue[k] \in DOMAIN s.g_msg_table
    BY <1>1
  <2>. QED  BY <1>3, <1>4, <2>1, <2>2 DEF OnceEach
<1>7. t.MessageQueue \in Seq(DOMAIN t.g_msg_table)  BY <1>1, <1>3, <1>4
<1>. QED  BY <1>3, <1>4, <1>5, <1>6, <1>7 DEF Ready, In

LEMMA PassAckReady ==
  ASSUME NEW n, NEW s, NEW sent, Ready(n, s, sent), s.mode # "off",
         NEW f \in Frame, FrameOk(f), In(s, f.id), Body(s.g_msg_table[f.id]) = FrameBody(f),
         NEW t, t = PassAck(s, n, f)
  PROVE  Ready(n, t, sent) /\ Learns(n, s, t)
<1>1. s \in NodeRecord  BY DEF Ready
<1>2. CASE s.mode = "panic" \/ f.ack_for = NO_ID
  <2>1. t = s  BY <1>2 DEF PassAck
  <2>. QED  BY <1>1, <2>1, LearnsSame
<1>3. CASE s.mode # "panic" /\ f.ack_for # NO_ID /\ ~ In(s, f.ack_for)
  <2>1. t = Panic(s)  BY <1>3 DEF PassAck
  <2>. QED  BY <2>1, PanicReady
<1>4. CASE s.mode # "panic" /\ f.ack_for # NO_ID /\ In(s, f.ack_for)
  <2>. DEFINE u == [s EXCEPT !.g_msg_table[f.ack_for].ack_status = TRUE]
              back == u.g_msg_table[f.ack_for].src_node
  <2>1. t = u \/ t = queue_send(u, f.id, back, TRUE)  BY <1>4 DEF PassAck
  <2>2. f.ack_for \in DOMAIN s.g_msg_table /\ TRUE \in BOOLEAN  BY <1>4 DEF In
  <2>3. Ready(n, u, sent) /\ Learns(n, s, u)  BY <2>2, MarkReady
  <2>. HIDE DEF u
  <2>4. u \in NodeRecord /\ u.mode # "off"  BY <2>3, LearnsMode DEF Ready
  <2>5. f.id \in DOMAIN u.g_msg_table /\ f.ack_for \in DOMAIN u.g_msg_table
    BY <2>2, <2>3 DEF Learns, In
  <2>6. back \in Node \cup {NO_ID}
    <3>1. u.g_msg_table[f.ack_for] \in DataEntry  BY <2>4, <2>5, TableIs DEF NodeRecord
    <3>. QED  BY <3>1 DEF DataEntry
  <2>7. u.g_msg_table[f.id].content # "gbcast"
    <3>1. f.content \in Responses  BY <1>4 DEF FrameOk
    <3>2. u.g_msg_table[f.id].content = f.content
      BY <2>3, <2>5 DEF Learns, Stamp, Body, FrameBody, In
    <3>. QED  BY <3>1, <3>2 DEF Responses
  <2>. HIDE DEF back
  <2>8. ASSUME t = queue_send(u, f.id, back, TRUE)
        PROVE  Ready(n, t, sent) /\ Learns(n, u, t)
    BY <2>2, <2>3, <2>4, <2>5, <2>6, <2>7, <2>8, QueueReady
  <2>9. CASE t = u  BY <2>3, <2>9
  <2>10. CASE t = queue_send(u, f.id, back, TRUE)
    <3>1. t \in NodeRecord  BY <2>8, <2>10 DEF Ready
    <3>. QED  BY <1>1, <2>3, <2>4, <2>8, <2>10, <3>1, LearnsTwice
  <2>. QED  BY <2>1, <2>9, <2>10
<1>. QED  BY <1>2, <1>3, <1>4

(* What the receive handler leaves of the message table: what was there,   *)
(* the frame's message, and messages of the node's own.                    *)
Handles(n, s, t, f) ==
  /\ s.drawn <= t.drawn
  /\ \A id \in DOMAIN s.g_msg_table :
       In(t, id) /\ Stamp(t.g_msg_table[id]) = Stamp(s.g_msg_table[id])
  /\ In(t, f.id) /\ Body(t.g_msg_table[f.id]) = FrameBody(f)
  /\ \A id \in DOMAIN t.g_msg_table \ DOMAIN s.g_msg_table :
       \/ id = f.id /\ t.g_msg_table[id].src_node = f.from
       \/ /\ id[1] = n /\ id[2] \in s.drawn + 1 .. t.drawn
          /\ t.g_msg_table[id].src_node = n
  /\ t.mode # "off"

LEMMA HandlerReady ==
  ASSUME NEW n \in Node, NEW s, NEW sent, Ready(n, s, sent), s.mode # "off",
         NEW f \in Frame, FrameOk(f), f.id[1] = n => f.id[2] \in 1 .. s.drawn,
         In(s, f.id) => Body(s.g_msg_table[f.id]) = FrameBody(f),
         NEW t, t = rcv_handler(s, n, f)
  PROVE  Ready(n, t, sent) /\ Handles(n, s, t, f)
<1>. DEFINE again   == In(s, f.id) /\ s.g_msg_table[f.id].content = "gbcast"
            r       == router_update(s.router, f.origin, f.from, f.steps + 1)
            updated == [s EXCEPT !.router = r]
            got     == Received(updated, f)
            stored  == nodes_update(got, n, f.id)
            handled == IF MessageType(f.content) = "MAINTENANCE"
                       THEN handle_maintenance_msg(stored, n, f.id) ELSE stored
<1>1. t = IF again THEN stored ELSE PassAck(handled, n, f)
  BY DEF rcv_handler
<1>2. s \in NodeRecord  BY DEF Ready
<1>3. Ready(n, updated, sent) /\ Learns(n, s, updated)
  <2>1. f.origin \in Node /\ f.from \in Node /\ f.steps + 1 \in Nat  BY DEF Frame
  <2>2. r \in RouterType  BY <1>2, <2>1, RouterUpdateType DEF NodeRecord
  <2>. HIDE DEF r
  <2>. QED  BY <2>2, RouterReady
<1>4. /\ updated.g_msg_table = s.g_msg_table /\ updated.drawn = s.drawn
      /\ updated.MessageQueue = s.MessageQueue /\ updated.mode = s.mode
  BY <1>2 DEF NodeRecord
<1>. HIDE DEF updated
<1>5. Ready(n, got, sent)
  BY <1>3, <1>4, ReceivedReady
<1>6. Got(updated, got, f)  BY <1>3, ReceivedEffect DEF Ready
<1>. HIDE DEF got
<1>7. /\ got \in NodeRecord
      /\ DOMAIN got.g_msg_table = DOMAIN s.g_msg_table \cup {f.id}
      /\ \A id \in DOMAIN s.g_msg_table : got.g_msg_table[id] = s.g_msg_table[id]
      /\ f.id \notin DOMAIN s.g_msg_table => got.g_msg_table[f.id] = Arrived(f)
      /\ got.drawn = s.drawn /\ got.MessageQueue = s.MessageQueue /\ got.mode = s.mode
  <2>1. updated \in NodeRecord  BY <1>3 DEF Ready
  <2>. QED  BY <1>4, <1>6, <2>1 DEF Got, NodeRecord
<1>8. f.id \in DOMAIN got.g_msg_table /\ Body(got.g_msg_table[f.id]) = FrameBody(f)
  <2>1. CASE In(s, f.id)  BY <1>7, <2>1 DEF In
  <2>2. CASE ~ In(s, f.id)  BY <1>7, <2>2 DEF In, Arrived, Body, FrameBody
  <2>. QED  BY <2>1, <2>2
<1>9. Ready(n, stored, sent) /\ Learns(n, got, stored) /\ Notes(n, got, stored)
  BY <1>5, <1>7, <1>8, NodesUpdateReady, NodesUpdateNotes
<1>. HIDE DEF stored
<1>10. /\ In(stored, f.id) /\ stored.g_msg_table[f.id] = got.g_msg_table[f.id]
       /\ stored.MessageQueue = s.MessageQueue /\ stored.mode # "off"
  BY <1>7, <1>8, <1>9 DEF Notes
<1>11. ASSUME ~ again PROVE New(stored, sent, f.id)
  <2>. SUFFICES ASSUME Steady, stored.g_msg_table[f.id].content = "gbcast"
                PROVE  f.id \notin sent /\ \A k \in DOMAIN s.MessageQueue : s.MessageQueue[k] # f.id
    BY <1>10 DEF New
  <2>1. f.id \notin DOMAIN s.g_msg_table
    BY <1>7, <1>10, <1>11 DEF In
  <2>2. sent \subseteq DOMAIN s.g_msg_table  BY DEF Ready, OnceEach
  <2>3. \A k \in DOMAIN s.MessageQueue : s.MessageQueue[k] \in DOMAIN s.g_msg_table
    BY DEF Ready
  <2>. QED  BY <2>1, <2>2, <2>3
<1>12. ASSUME ~ again PROVE Ready(n, handled, sent) /\ Learns(n, stored, handled)
  <2>1. CASE handled = stored
    <3>1. stored \in NodeRecord  BY <1>9 DEF Ready
    <3>. QED  BY <1>9, <2>1, <3>1, LearnsSame
  <2>2. CASE handled = handle_maintenance_msg(stored, n, f.id)
    <3>1. New(stored, sent, f.id)  BY <1>11, <1>12
    <3>2. f.id \in DOMAIN stored.g_msg_table  BY <1>10 DEF In
    <3>. HIDE DEF handled
    <3>. QED  BY <1>9, <1>10, <2>2, <3>1, <3>2, HandleReady
  <2>. QED  BY <2>1, <2>2
<1>13. Ready(n, t, sent) /\ Learns(n, stored, t)
  <2>1. CASE again
    <3>1. t = stored  BY <1>1, <2>1
    <3>2. stored \in NodeRecord  BY <1>9 DEF Ready
    <3>. QED  BY <1>9, <3>1, <3>2, LearnsSame
  <2>2. CASE ~ again
    <3>1. t = PassAck(handled, n, f)  BY <1>1, <2>2
    <3>2. Ready(n, handled, sent) /\ Learns(n, stored, handled)  BY <1>12, <2>2
    <3>. HIDE DEF handled, again
    <3>3. handled.mode # "off"  BY <1>10, <3>2, LearnsMode
    <3>4. In(handled, f.id) /\ Body(handled.g_msg_table[f.id]) = FrameBody(f)
      BY <1>8, <1>10, <3>2 DEF Learns, In, Stamp, Body
    <3>5. Ready(n, t, sent) /\ Learns(n, handled, t)
      BY <3>1, <3>2, <3>3, <3>4, PassAckReady
    <3>6. stored \in NodeRecord /\ handled \in NodeRecord /\ t \in NodeRecord
      BY <1>9, <3>2, <3>5 DEF Ready
    <3>. QED  BY <3>2, <3>5, <3>6, LearnsTwice
  <2>. QED  BY <2>1, <2>2
<1>. HIDE DEF again, handled
<1>14. Learns(n, got, t)
  <2>1. stored \in NodeRecord /\ t \in NodeRecord  BY <1>9, <1>13 DEF Ready
  <2>. QED  BY <1>7, <1>9, <1>13, <2>1, LearnsTwice
<1>15. Handles(n, s, t, f)
  <2>1. ASSUME NEW id \in DOMAIN s.g_msg_table
        PROVE  In(t, id) /\ Stamp(t.g_msg_table[id]) = Stamp(s.g_msg_table[id])
    BY <1>7, <1>14 DEF Learns
  <2>2. In(t, f.id) /\ Body(t.g_msg_table[f.id]) = FrameBody(f)
    BY <1>8, <1>14 DEF Learns, Stamp, Body
  <2>3. t.mode # "off"  BY <1>7, <1>14, LearnsMode
  <2>4. ASSUME NEW id \in DOMAIN t.g_msg_table \ DOMAIN s.g_msg_table
        PROVE  \/ id = f.id /\ t.g_msg_table[id].src_node = f.from
               \/ /\ id[1] = n /\ id[2] \in s.drawn + 1 .. t.drawn
                  /\ t.g_msg_table[id].src_node = n
    <3>1. CASE id \in DOMAIN got.g_msg_table
      <4>1. id = f.id /\ got.g_msg_table[id].src_node = f.from
        BY <1>7, <2>4, <3>1 DEF Arrived
      <4>2. t.g_msg_table[id].src_node = got.g_msg_table[id].src_node
        BY <1>14, <3>1 DEF Learns, Stamp
      <4>. QED  BY <4>1, <4>2
    <3>2. CASE id \notin DOMAIN got.g_msg_table
      BY <1>7, <1>14, <2>4, <3>2 DEF Learns
    <3>. QED  BY <3>1, <3>2
  <2>. QED  BY <1>7, <1>14, <2>1, <2>2, <2>3, <2>4 DEF Handles, Learns
<1>. QED  BY <1>13, <1>15

----------------------------------------------------------------------------
(* The mesh.                                                               *)

(* An entry or a frame says that id stands for b.                          *)
Said(id, b) ==
  \/ \E n \in Node : In(node[n], id) /\ Body(node[n].g_msg_table[id]) = b
  \/ \E n \in Node : \E k \in DOMAIN rx[n] : rx[n][k].id = id /\ FrameBody(rx[n][k]) = b

(* No id stands for two messages, and none was used before it was drawn.   *)
Agreed == \A id \in Id : \A b, c : Said(id, b) /\ Said(id, c) => b = c

Drawn == \A id \in Id : \A b : Said(id, b) => id[2] \in 1 .. node[id[1]].drawn

Types ==
  /\ node \in [Node -> NodeRecord]
  /\ rx \in [Node -> Seq(Frame)]
  /\ todo \subseteq Script
  /\ flooded \in [Node -> SUBSET Id]

Sane ==
  /\ Types
  /\ \A n \in Node : Ready(n, node[n], flooded[n])
  /\ \A n \in Node : \A k \in DOMAIN rx[n] : FrameOk(rx[n][k])
  /\ Agreed
  /\ Drawn

(* A step of node n that makes fresh messages, keeps or drops others, and  *)
(* puts none but known ones on the air.                                    *)
LEMMA AgreedStep ==
  ASSUME Types, Agreed, Drawn, Types',
         NEW n \in Node, NEW s, NEW t, s = node[n], node' = [node EXCEPT ![n] = t],
         s.drawn <= t.drawn,
         \A id \in DOMAIN t.g_msg_table :
           \/ Said(id, Body(t.g_msg_table[id]))
           \/ id[1] = n /\ id[2] \in s.drawn + 1 .. t.drawn,
         \A m \in Node : \A k \in DOMAIN rx'[m] : Said(rx'[m][k].id, FrameBody(rx'[m][k]))
  PROVE  Agreed' /\ Drawn'
<1>1. s \in NodeRecord /\ t \in NodeRecord /\ node'[n] = t
  BY DEF Types
<1>2. s.drawn \in Nat /\ t.drawn \in Nat  BY <1>1 DEF NodeRecord
<1>3. ASSUME NEW id \in Id, NEW b, Said(id, b)'
      PROVE  \/ Said(id, b)
             \/ /\ id[1] = n /\ id[2] \in s.drawn + 1 .. t.drawn
                /\ b = Body(t.g_msg_table[id])
  <2>1. CASE \E m \in Node : In(node'[m], id) /\ Body(node'[m].g_msg_table[id]) = b
    <3>1. PICK m \in Node : In(node'[m], id) /\ Body(node'[m].g_msg_table[id]) = b  BY <2>1
    <3>2. CASE m = n  BY <1>1, <3>1, <3>2 DEF In
    <3>3. CASE m # n
      <4>1. node'[m] = node[m]  BY <3>3 DEF Types
      <4>. QED  BY <3>1, <4>1 DEF Said
    <3>. QED  BY <3>2, <3>3
  <2>2. CASE \E m \in Node : \E k \in DOMAIN rx'[m] :
               rx'[m][k].id = id /\ FrameBody(rx'[m][k]) = b
    BY <2>2
  <2>. QED  BY <1>3, <2>1, <2>2 DEF Said
<1>4. \A id \in Id : id[1] \in Node /\ node[id[1]].drawn \in Nat
                     /\ node[id[1]].drawn <= node'[id[1]].drawn
                     /\ node'[id[1]].drawn \in Nat
  <2>. SUFFICES ASSUME NEW id \in Id
                PROVE  id[1] \in Node /\ node[id[1]].drawn \in Nat
                       /\ node[id[1]].drawn <= node'[id[1]].drawn
                       /\ node'[id[1]].drawn \in Nat
    OBVIOUS
  <2>1. id[1] \in Node  BY DEF Id
  <2>2. node[id[1]] \in NodeRecord  BY <2>1 DEF Types
  <2>3. node[id[1]].drawn \in Nat  BY <2>2 DEF NodeRecord
  <2>4. CASE id[1] = n  BY <1>1, <1>2, <2>1, <2>4
  <2>5. CASE id[1] # n
    <3>1. node'[id[1]] = node[id[1]]  BY <2>1, <2>5 DEF Types
    <3>. QED  BY <2>1, <2>3, <3>1
  <2>. QED  BY <2>4, <2>5
<1>5. Drawn'
  <2>. SUFFICES ASSUME NEW id \in Id, NEW b, Said(id, b)'
                PROVE  id[2] \in 1 .. node'[id[1]].drawn
    BY DEF Drawn
  <2>1. CASE Said(id, b)
    <3>1. id[2] \in 1 .. node[id[1]].drawn  BY <2>1 DEF Drawn
    <3>. QED  BY <1>4, <3>1
  <2>2. CASE id[1] = n /\ id[2] \in s.drawn + 1 .. t.drawn  BY <1>1, <1>2, <2>2
  <2>. QED  BY <1>3, <2>1, <2>2
<1>6. Agreed'
  <2>. SUFFICES ASSUME NEW id \in Id, NEW b, NEW c, Said(id, b)', Said(id, c)' PROVE b = c
    BY DEF Agreed
  <2>1. CASE Said(id, b) /\ Said(id, c)  BY <2>1 DEF Agreed
  <2>2. ASSUME NEW d, Said(id, d) PROVE ~ (id[1] = n /\ id[2] \in s.drawn + 1 .. t.drawn)
    BY <1>2, <2>2 DEF Drawn
  <2>. QED  BY <1>3, <2>1, <2>2
<1>. QED  BY <1>5, <1>6

LEMMA SaneStep ==
  ASSUME Sane, NEW n \in Node, NEW s, NEW t, s = node[n], node' = [node EXCEPT ![n] = t],
         s.drawn <= t.drawn,
         \A id \in DOMAIN t.g_msg_table :
           \/ Said(id, Body(t.g_msg_table[id]))
           \/ id[1] = n /\ id[2] \in s.drawn + 1 .. t.drawn,
         rx' \in [Node -> Seq(Frame)],
         \A m \in Node : \A k \in DOMAIN rx'[m] :
           FrameOk(rx'[m][k]) /\ Said(rx'[m][k].id, FrameBody(rx'[m][k])),
         todo' \subseteq todo,
         NEW sent \in SUBSET Id, flooded' = [flooded EXCEPT ![n] = sent],
         Ready(n, t, sent)
  PROVE  Sane'
<1>1. t \in NodeRecord  BY DEF Ready
<1>2. Types'  BY <1>1 DEF Sane, Types
<1>3. Agreed' /\ Drawn'  BY <1>2, AgreedStep DEF Sane
<1>4. ASSUME NEW m \in Node PROVE Ready(m, node'[m], flooded'[m])
  <2>1. CASE m = n  BY <2>1 DEF Sane, Types
  <2>2. CASE m # n
    <3>1. node'[m] = node[m] /\ flooded'[m] = flooded[m]  BY <2>2 DEF Sane, Types
    <3>. QED  BY <3>1 DEF Sane
  <2>. QED  BY <2>1, <2>2
<1>. QED  BY <1>2, <1>3, <1>4 DEF Sane

(* What is on the air is said.                                             *)
LEMMA AirSaid ==
  ASSUME Sane, NEW m \in Node, NEW k \in DOMAIN rx[m]
  PROVE  /\ rx[m][k] \in Frame /\ FrameOk(rx[m][k])
         /\ Said(rx[m][k].id, FrameBody(rx[m][k]))
<1>1. rx[m] \in Seq(Frame)  BY DEF Sane, Types
<1>2. rx[m][k] \in Frame  BY <1>1
<1>. QED  BY <1>2 DEF Sane, Said

(* A task other than the receive handler makes node n into t.              *)
LEMMA BecomeSane ==
  ASSUME Sane, NEW n \in Node, NEW t, Become(n, t), todo' \subseteq todo, UNCHANGED flooded,
         Ready(n, t, flooded[n]), Learns(n, node[n], t)
  PROVE  Sane'
<1>1. node' = [node EXCEPT ![n] = t] /\ rx' = rx  BY DEF Become
<1>2. ASSUME NEW id \in DOMAIN t.g_msg_table
      PROVE  \/ Said(id, Body(t.g_msg_table[id]))
             \/ id[1] = n /\ id[2] \in node[n].drawn + 1 .. t.drawn
  <2>1. CASE id \in DOMAIN node[n].g_msg_table
    <3>1. Body(t.g_msg_table[id]) = Body(node[n].g_msg_table[id])
      BY <2>1 DEF Learns, Stamp, Body
    <3>. QED  BY <2>1, <3>1 DEF Said, In
  <2>2. CASE id \notin DOMAIN node[n].g_msg_table  BY <1>2, <2>2 DEF Learns
  <2>. QED  BY <2>1, <2>2
<1>3. node[n].drawn <= t.drawn  BY DEF Learns
<1>4. /\ rx' \in [Node -> Seq(Frame)]
      /\ flooded[n] \in SUBSET Id /\ flooded' = [flooded EXCEPT ![n] = flooded[n]]
  BY <1>1 DEF Sane, Types
<1>5. \A m \in Node : \A k \in DOMAIN rx'[m] :
        FrameOk(rx'[m][k]) /\ Said(rx'[m][k].id, FrameBody(rx'[m][k]))
  BY <1>1, AirSaid
<1>. QED  BY <1>1, <1>2, <1>3, <1>4, <1>5, SaneStep

(* A node just booted.                                                     *)
LEMMA OffIsRecord == Off \in NodeRecord /\ DOMAIN Off.g_msg_table = {} /\ Off.drawn = 0
<1>1. 0 \in Seq32  BY RoutingAssumption DEF Seq32
<1>2. create_router(0) \in RouterType  BY <1>1, CreateType
<1>3. << >> \in Table
  <2>1. << >> \in [{} -> DataEntry]  OBVIOUS
  <2>. QED  BY <2>1 DEF Table
<1>4. << >> \in PingTable
  <2>1. << >> \in [{} -> Id \cup {NO_ID}]  OBVIOUS
  <2>. QED  BY <2>1 DEF PingTable
<1>5. << >> \in Seq(Id)  OBVIOUS
<1>6. /\ [m \in Node |-> TRUE] \in [Node -> BOOLEAN]
      /\ [m \in Node |-> 0] \in [Node -> Seq32]
  BY <1>1
<1>7. DOMAIN << >> = {}  OBVIOUS
<1>. QED  BY <1>2, <1>3, <1>4, <1>5, <1>6, <1>7 DEF Off, NodeRecord

LEMMA OffReady ==
  ASSUME NEW n, NEW sent, Steady => sent = {}
  PROVE  Ready(n, Off, sent)
<1>1. Off.MessageQueue = << >> /\ Off.ping_id = << >>  BY DEF Off
<1>2. Off.MessageQueue \in Seq(DOMAIN Off.g_msg_table)  BY <1>1
<1>3. DOMAIN Off.MessageQueue = {} /\ DOMAIN Off.ping_id = {}  BY <1>1
<1>. QED  BY <1>2, <1>3, OffIsRecord DEF Ready, OnceEach

(* The node before it makes its gbcast.                                    *)
Started(n, drawn) ==
  [Off EXCEPT !.mode = "up", !.ping_id = With(@, n, NO_ID), !.drawn = drawn]

StartedFields(n, s, drawn) ==
  /\ s.mode = "up" /\ s.drawn = drawn /\ s.router = create_router(0)
  /\ s.link_enabled = [m \in Node |-> TRUE]
  /\ DOMAIN s.g_msg_table = {} /\ s.MessageQueue = << >>

LEMMA StartedReady ==
  ASSUME NEW n \in Node, NEW drawn \in Nat, NEW sent, Steady => sent = {},
         NEW s, s = Started(n, drawn)
  PROVE  Ready(n, s, sent) /\ StartedFields(n, s, drawn)
<1>. DEFINE P == With(Off.ping_id, n, NO_ID)
            a == [Off EXCEPT !.mode = "up"]
            b == [a EXCEPT !.ping_id = P]
<1>1. s = [b EXCEPT !.drawn = drawn]  BY DEF Off, Started
<1>2. /\ Off.MessageQueue = << >> /\ Off.ping_id = << >> /\ Off.router = create_router(0)
      /\ Off.link_enabled = [m \in Node |-> TRUE]
  BY DEF Off
<1>3. P \in PingTable /\ DOMAIN P = {n}
  <2>1. P \in PingTable
    <3>1. NO_ID \in Id \cup {NO_ID}  OBVIOUS
    <3>. QED  BY <3>1, OffIsRecord, WithPings
  <2>2. DOMAIN P = {n}  BY <1>2 DEF With
  <2>. QED  BY <2>1, <2>2
<1>. HIDE DEF P
<1>4. a \in NodeRecord  BY OffIsRecord DEF NodeRecord
<1>5. /\ a.g_msg_table = Off.g_msg_table /\ a.MessageQueue = << >> /\ a.mode = "up"
      /\ a.router = Off.router /\ a.link_enabled = Off.link_enabled
  BY <1>2, OffIsRecord DEF NodeRecord
<1>. HIDE DEF a
<1>6. b \in NodeRecord  BY <1>3, <1>4 DEF NodeRecord
<1>7. /\ b.g_msg_table = a.g_msg_table /\ b.MessageQueue = a.MessageQueue
      /\ b.mode = a.mode /\ b.ping_id = P
      /\ b.router = a.router /\ b.link_enabled = a.link_enabled
  BY <1>4 DEF NodeRecord
<1>. HIDE DEF b
<1>8. s \in NodeRecord  BY <1>1, <1>6 DEF NodeRecord
<1>9. /\ s.g_msg_table = b.g_msg_table /\ s.MessageQueue = b.MessageQueue
      /\ s.mode = b.mode /\ s.ping_id = b.ping_id /\ s.drawn = drawn
      /\ s.router = b.router /\ s.link_enabled = b.link_enabled
  BY <1>1, <1>6 DEF NodeRecord
<1>10. StartedFields(n, s, drawn) /\ DOMAIN s.ping_id = {n}
  BY <1>2, <1>3, <1>5, <1>7, <1>9, OffIsRecord DEF StartedFields
<1>11. s.MessageQueue \in Seq(DOMAIN s.g_msg_table) /\ DOMAIN s.MessageQueue = {}
  BY <1>10 DEF StartedFields
<1>. QED  BY <1>8, <1>10, <1>11 DEF Ready, OnceEach, StartedFields

(* The only message of a node that woke up is its gbcast.                  *)
Woke(n, t, drawn) ==
  /\ t.mode = "up" /\ t.drawn = drawn + 1
  /\ DOMAIN t.g_msg_table = {<<n, drawn + 1>>}
  /\ t.g_msg_table[<<n, drawn + 1>>].src_node = n

LEMMA BootedReady ==
  ASSUME NEW n \in Node, NEW drawn \in Nat, NEW sent, Steady => sent = {},
         NEW t, t = Booted(n, drawn)
  PROVE  Ready(n, t, sent) /\ Woke(n, t, drawn)
<1>. DEFINE s == Started(n, drawn)
            u == create_data_object(s, n, "gbcast", {}, BROADCAST_ID, NO_ID)
            new == LastId(n, u)
<1>1. t = queue_send(u, new, BROADCAST_ID, FALSE)  BY DEF Booted, Started
<1>. HIDE DEF s
<1>2. Ready(n, s, sent) /\ StartedFields(n, s, drawn)  BY StartedReady DEF s
<1>3. /\ s \in NodeRecord /\ s.mode = "up" /\ s.mode # "off" /\ s.drawn = drawn
      /\ DOMAIN s.g_msg_table = {} /\ s.MessageQueue = << >>
  BY <1>2 DEF Ready, StartedFields
<1>4. /\ "gbcast" \in Content /\ "gbcast" \notin Responses /\ {} \in SUBSET Pair
      /\ BROADCAST_ID \in Node \cup {NO_ID} /\ NO_ID \in Id \cup {NO_ID}
  BY DEF Content, Commands, Responses, BROADCAST_ID
<1>5. Ready(n, u, sent) /\ Learns(n, s, u)  BY <1>2, <1>3, <1>4, CreateReady
<1>6. Created(n, s, u, OwnEntry(n, "gbcast", {}, BROADCAST_ID, NO_ID))
  BY <1>3, <1>4, CreateEffect
<1>. HIDE DEF u
<1>7. /\ u.drawn = drawn + 1 /\ new = <<n, drawn + 1>> /\ u.mode = "up"
      /\ DOMAIN u.g_msg_table = {new} /\ u.MessageQueue = << >> /\ u \in NodeRecord
  BY <1>3, <1>6 DEF Created, NodeRecord
<1>. HIDE DEF new
<1>8. New(u, sent, new)
  <2>1. DOMAIN u.MessageQueue = {}  BY <1>7
  <2>. QED  BY <2>1 DEF New
<1>9. Ready(n, t, sent) /\ Learns(n, u, t)
  <2>1. new \in DOMAIN u.g_msg_table /\ FALSE \in BOOLEAN /\ u.mode # "off"  BY <1>7
  <2>. QED  BY <1>1, <1>4, <1>5, <1>8, <2>1, QueueReady DEF New
<1>10. t.mode = "up" /\ t.drawn = drawn + 1 /\ DOMAIN t.g_msg_table = {new}
  <2>1. new \in DOMAIN u.g_msg_table /\ FALSE \in BOOLEAN  BY <1>7
  <2>2. t = u \/ \E final : Queued(u, t, new, final)
    BY <1>1, <1>4, <1>7, <2>1, QueueEffect
  <2>3. ASSUME NEW final, Queued(u, t, new, final)
        PROVE  t.mode = "up" /\ t.drawn = drawn + 1 /\ DOMAIN t.g_msg_table = {new}
    BY <1>7, <2>3 DEF Queued, NodeRecord
  <2>. QED  BY <1>7, <2>2, <2>3
<1>11. t.g_msg_table[new].src_node = n
  <2>1. u.g_msg_table[new].src_node = n  BY <1>3, <1>5, <1>7 DEF Learns
  <2>2. Stamp(t.g_msg_table[new]) = Stamp(u.g_msg_table[new])  BY <1>7, <1>9 DEF Learns
  <2>. QED  BY <2>1, <2>2 DEF Stamp
<1>. QED  BY <1>7, <1>9, <1>10, <1>11 DEF Woke


LEMMA SaneInit == Init => Sane
<1>. SUFFICES ASSUME Init PROVE Sane  OBVIOUS
<1>1. ASSUME NEW n \in Node
      PROVE  /\ Ready(n, node[n], flooded[n])
             /\ \A id \in DOMAIN node[n].g_msg_table : id[1] = n /\ id[2] \in 1 .. node[n].drawn
  <2>1. CASE n \notin Quiet
    <3>1. node[n] = Off /\ flooded[n] = {}  BY <2>1 DEF Init
    <3>. QED  BY <3>1, OffReady, OffIsRecord
  <2>2. CASE n \in Quiet
    <3>. DEFINE b == Booted(n, 0)
    <3>1. node[n] = [b EXCEPT !.MessageQueue = << >>] /\ flooded[n] = {<<n, 1>>}
      BY <2>2 DEF Init
    <3>. HIDE DEF b
    <3>0. Ready(n, b, {}) /\ Woke(n, b, 0)  BY BootedReady DEF b
    <3>2. Ready(n, b, {}) /\ b.mode = "up" /\ b.drawn = 0 + 1 /\ DOMAIN b.g_msg_table = {<<n, 0 + 1>>}
      BY <3>0 DEF Woke
    <3>3. /\ node[n] \in NodeRecord /\ node[n].MessageQueue = << >> /\ node[n].mode = "up"
          /\ node[n].drawn = 1 /\ node[n].g_msg_table = b.g_msg_table
          /\ node[n].ping_id = b.ping_id
      <4>1. b \in NodeRecord /\ b.drawn = 1 /\ << >> \in Seq(Id)  BY <3>2 DEF Ready
      <4>2. node[n] \in NodeRecord  BY <3>1, <4>1 DEF NodeRecord
      <4>. QED  BY <3>1, <3>2, <4>1, <4>2 DEF NodeRecord
    <3>4. DOMAIN node[n].g_msg_table = {<<n, 1>>}  BY <3>2, <3>3
    <3>5. node[n].MessageQueue \in Seq(DOMAIN node[n].g_msg_table)
          /\ DOMAIN node[n].MessageQueue = {}
      BY <3>3
    <3>6. OnceEach(node[n], flooded[n])  BY <3>1, <3>4, <3>5 DEF OnceEach
    <3>7. Ready(n, node[n], flooded[n])  BY <3>2, <3>3, <3>5, <3>6 DEF Ready, In
    <3>. QED  BY <3>3, <3>4, <3>7
  <2>. QED  BY <2>1, <2>2
<1>2. rx \in [Node -> Seq(Frame)] /\ \A n \in Node : DOMAIN rx[n] = {}
  BY DEF Init
<1>3. Types
  <2>1. ASSUME NEW n \in Node PROVE node[n] \in NodeRecord  BY <1>1 DEF Ready
  <2>2. node \in [Node -> NodeRecord]
    <3>1. DOMAIN node = Node /\ node = [n \in Node |-> node[n]]  BY DEF Init
    <3>. QED  BY <2>1, <3>1
  <2>3. flooded \in [Node -> SUBSET Id]  BY DEF Init, Id
  <2>. QED  BY <1>2, <2>2, <2>3 DEF Types, Init
<1>4. ASSUME NEW id \in Id, NEW b, Said(id, b)
      PROVE  In(node[id[1]], id) /\ b = Body(node[id[1]].g_msg_table[id])
             /\ id[2] \in 1 .. node[id[1]].drawn
  <2>1. PICK n \in Node : In(node[n], id) /\ Body(node[n].g_msg_table[id]) = b
    BY <1>2, <1>4 DEF Said
  <2>. QED  BY <1>1, <2>1 DEF In
<1>5. Agreed  BY <1>4 DEF Agreed
<1>6. Drawn  BY <1>4 DEF Drawn
<1>. QED  BY <1>1, <1>2, <1>3, <1>5, <1>6 DEF Sane

(* What is left of a queue when its head is taken.                         *)
Taken(q, rest, S) ==
  /\ rest \in Seq(S) /\ Head(q) = q[1] /\ 1 \in DOMAIN q /\ q[1] \in S
  /\ \A k \in DOMAIN rest : k + 1 \in DOMAIN q /\ k + 1 # 1 /\ rest[k] = q[k + 1]

LEMMA TailIs ==
  ASSUME NEW S, NEW q \in Seq(S), q # << >>
  PROVE  Taken(q, Tail(q), S)
<1>1. Len(q) \in Nat /\ Len(q) # 0 /\ DOMAIN q = 1 .. Len(q)  OBVIOUS
<1>2. /\ Tail(q) \in Seq(S) /\ Len(Tail(q)) = Len(q) - 1
      /\ DOMAIN Tail(q) = 1 .. Len(q) - 1
      /\ \A k \in 1 .. Len(q) - 1 : Tail(q)[k] = q[k + 1]
  OBVIOUS
<1>3. Head(q) = q[1] /\ q[1] \in S  BY <1>1
<1>. HIDE DEF Taken
<1>. QED  BY <1>1, <1>2, <1>3 DEF Taken

(* A frame for the air is the entry at the head of the queue.              *)
LEMMA TransmitSane ==
  ASSUME Sane, NEW n \in Node, Transmit(n)
  PROVE  Sane'
<1>. DEFINE s  == node[n]
            id == Head(s.MessageQueue)
            e  == s.g_msg_table[id]
            f  == [from |-> n, id |-> id, content |-> e.content, pairs |-> e.pairs,
                   origin |-> e.origin_node, dst |-> e.dst_node, steps |-> e.steps,
                   ack_for |-> e.ack_for]
            t  == [s EXCEPT !.MessageQueue = Tail(s.MessageQueue)]
            sent == IF e.content = "gbcast" THEN flooded[n] \cup {id} ELSE flooded[n]
<1>1. /\ s.mode = "up" /\ s.MessageQueue # << >>
      /\ node' = [node EXCEPT ![n] = t]
      /\ todo' = todo
  BY DEF Transmit, Sends, Up
<1>2. PICK D \in SUBSET Node :
        rx' = [m \in Node |-> IF m \in D THEN Append(rx[m], f) ELSE rx[m]]
  <2>. DEFINE heard == {m \in Reach[n] : Up(m) /\ e.target_node \in {BROADCAST_ID, m}}
  <2>1. \E D \in IF Lossy THEN SUBSET heard ELSE {heard} :
          rx' = [m \in Node |-> IF m \in D THEN Append(rx[m], f) ELSE rx[m]]
    BY DEF Transmit
  <2>2. heard \in SUBSET Node  BY MeshAssumption
  <2>. HIDE DEF heard, f
  <2>. QED  BY <2>1, <2>2
<1>3. flooded' = [flooded EXCEPT ![n] = sent]
  <2>1. flooded \in [Node -> SUBSET Id]  BY DEF Sane, Types
  <2>. QED  BY <2>1 DEF Transmit
<1>4. /\ s \in NodeRecord /\ s.MessageQueue \in Seq(DOMAIN s.g_msg_table)
      /\ Ready(n, s, flooded[n])
  BY DEF Sane, Ready
<1>5. id \in DOMAIN s.g_msg_table  BY <1>1, <1>4
<1>6. e \in DataEntry /\ id \in Id  BY <1>4, <1>5, TableIs DEF NodeRecord
<1>7. EntryOk(n, id, e)  BY <1>5 DEF Sane, Ready
<1>8. f \in Frame
  BY <1>6 DEF Frame, DataEntry, Content, Pair
<1>9. FrameOk(f)  BY <1>7 DEF FrameOk, EntryOk
<1>10. Said(f.id, FrameBody(f))
  <2>1. FrameBody(f) = Body(e) /\ f.id = id  BY DEF FrameBody, Body
  <2>. HIDE DEF f
  <2>. QED  BY <1>5, <2>1 DEF Said, In
<1>. HIDE DEF f
<1>11. rx' \in [Node -> Seq(Frame)]
  <2>1. rx \in [Node -> Seq(Frame)]  BY DEF Sane, Types
  <2>2. \A m \in Node : Append(rx[m], f) \in Seq(Frame)  BY <1>8, <2>1
  <2>. QED  BY <1>2, <2>1, <2>2
<1>12. ASSUME NEW m \in Node, NEW k \in DOMAIN rx'[m]
       PROVE  FrameOk(rx'[m][k]) /\ Said(rx'[m][k].id, FrameBody(rx'[m][k]))
  <2>1. CASE m \notin D
    <3>1. rx'[m] = rx[m]  BY <1>2, <2>1
    <3>. QED  BY <1>12, <3>1, AirSaid
  <2>2. CASE m \in D
    <3>1. rx[m] \in Seq(Frame) /\ rx'[m] = Append(rx[m], f)
      BY <1>2, <2>2 DEF Sane, Types
    <3>2. \/ k \in DOMAIN rx[m] /\ rx'[m][k] = rx[m][k]
          \/ rx'[m][k] = f
      BY <1>8, <1>12, <3>1
    <3>. QED  BY <1>9, <1>10, <3>2, AirSaid
  <2>. QED  BY <2>1, <2>2
<1>13. /\ t \in NodeRecord /\ t.drawn = s.drawn /\ t.mode = s.mode /\ t.ping_id = s.ping_id
       /\ t.g_msg_table = s.g_msg_table /\ t.MessageQueue = Tail(s.MessageQueue)
       /\ s.drawn \in Nat
  <2>1. Tail(s.MessageQueue) \in Seq(Id)  BY <1>1, <1>4 DEF NodeRecord
  <2>. QED  BY <1>4, <2>1 DEF NodeRecord
<1>14. sent \in SUBSET Id  BY <1>6 DEF Sane, Types
<1>. DEFINE q == s.MessageQueue
<1>15. /\ Tail(q) \in Seq(DOMAIN s.g_msg_table)
       /\ \A k \in DOMAIN Tail(q) : k + 1 \in DOMAIN q /\ k + 1 # 1 /\ Tail(q)[k] = q[k + 1]
       /\ 1 \in DOMAIN q /\ id = q[1]
  BY <1>1, <1>4, TailIs DEF Taken
<1>16. ASSUME Steady PROVE OnceEach(t, sent)
  <2>1. OnceEach(s, flooded[n])  BY <1>16 DEF Sane, Ready
  <2>2. sent \subseteq DOMAIN t.g_msg_table  BY <1>5, <1>13, <2>1 DEF OnceEach
  <2>3. ASSUME NEW k \in DOMAIN t.MessageQueue,
               t.g_msg_table[t.MessageQueue[k]].content = "gbcast"
        PROVE  /\ t.MessageQueue[k] \notin sent
               /\ \A j \in DOMAIN t.MessageQueue :
                    t.MessageQueue[j] = t.MessageQueue[k] => j = k
    <3>. HIDE DEF id, s, t, q, sent
    <3>1. /\ k + 1 \in DOMAIN q /\ k + 1 # 1 /\ t.MessageQueue[k] = q[k + 1]
          /\ s.g_msg_table[q[k + 1]].content = "gbcast" /\ q = s.MessageQueue
      BY <1>13, <1>15, <2>3 DEF q
    <3>2. q[k + 1] \notin flooded[n] /\ \A j \in DOMAIN q : q[j] = q[k + 1] => j = k + 1
      BY <2>1, <3>1 DEF OnceEach
    <3>3. q[k + 1] # id  BY <1>15, <3>1, <3>2
    <3>4. ASSUME NEW j \in DOMAIN t.MessageQueue, t.MessageQueue[j] = t.MessageQueue[k]
          PROVE  j = k
      <4>1. j + 1 \in DOMAIN q /\ q[j + 1] = q[k + 1]  BY <1>13, <1>15, <3>1, <3>4 DEF q
      <4>2. j + 1 = k + 1  BY <3>2, <4>1
      <4>3. j \in Nat /\ k \in Nat
        <5>1. t.MessageQueue \in Seq(DOMAIN s.g_msg_table)  BY <1>13, <1>15 DEF q
        <5>. QED  BY <5>1
      <4>. QED  BY <4>2, <4>3
    <3>. QED  BY <3>1, <3>2, <3>3, <3>4 DEF sent
  <2>. QED  BY <2>2, <2>3 DEF OnceEach
<1>17. Ready(n, t, sent)
  <2>1. t.mode # "off"  BY <1>1, <1>13
  <2>. HIDE DEF t, sent
  <2>. QED  BY <1>4, <1>13, <1>15, <1>16, <2>1 DEF Ready, In
<1>18. \A x \in DOMAIN t.g_msg_table : Said(x, Body(t.g_msg_table[x]))
  BY <1>13 DEF Said, In
<1>19. s.drawn <= t.drawn  BY <1>13
<1>. HIDE DEF t, sent
<1>. QED  BY <1>1, <1>3, <1>11, <1>12, <1>14, <1>17, <1>18, <1>19, SaneStep

(* A frame in the queue of the receive handler is one it can handle.       *)
LEMMA HeadArrives ==
  ASSUME Sane, NEW n \in Node, rx[n] # << >>, NEW f, f = Head(rx[n])
  PROVE  /\ f \in Frame /\ FrameOk(f) /\ Said(f.id, FrameBody(f))
         /\ f.id[1] = n => f.id[2] \in 1 .. node[n].drawn
         /\ In(node[n], f.id) => Body(node[n].g_msg_table[f.id]) = FrameBody(f)
<1>1. rx[n] \in Seq(Frame)  BY DEF Sane, Types
<1>2. 1 \in DOMAIN rx[n] /\ f = rx[n][1]  BY <1>1
<1>3. f \in Frame /\ FrameOk(f) /\ Said(f.id, FrameBody(f))  BY <1>2, AirSaid
<1>4. f.id \in Id  BY <1>3 DEF Frame
<1>5. f.id[2] \in 1 .. node[f.id[1]].drawn  BY <1>3, <1>4 DEF Sane, Drawn
<1>6. ASSUME In(node[n], f.id) PROVE Body(node[n].g_msg_table[f.id]) = FrameBody(f)
  <2>1. Said(f.id, Body(node[n].g_msg_table[f.id]))  BY <1>6 DEF Said
  <2>. QED  BY <1>3, <1>4, <2>1 DEF Sane, Agreed
<1>. QED  BY <1>3, <1>5, <1>6

LEMMA ReceiveSane ==
  ASSUME Sane, NEW n \in Node, Receive(n)
  PROVE  Sane'
<1>. DEFINE s == node[n]
            f == Head(rx[n])
            t == rcv_handler(s, n, f)
<1>1. /\ s.mode = "up" /\ rx[n] # << >> /\ rx' = [rx EXCEPT ![n] = Tail(@)]
      /\ node' = [node EXCEPT ![n] = t]
      /\ todo' = todo /\ flooded' = flooded
  BY DEF Receive, Takes, Up
<1>2. /\ f \in Frame /\ FrameOk(f) /\ Said(f.id, FrameBody(f))
      /\ f.id[1] = n => f.id[2] \in 1 .. s.drawn
      /\ In(s, f.id) => Body(s.g_msg_table[f.id]) = FrameBody(f)
  BY <1>1, HeadArrives
<1>3. Ready(n, s, flooded[n]) /\ s.mode # "off"  BY <1>1 DEF Sane
<1>. HIDE DEF f
<1>4. Ready(n, t, flooded[n]) /\ Handles(n, s, t, f)  BY <1>2, <1>3, HandlerReady
<1>. HIDE DEF t
<1>5. ASSUME NEW id \in DOMAIN t.g_msg_table
      PROVE  \/ Said(id, Body(t.g_msg_table[id]))
             \/ id[1] = n /\ id[2] \in s.drawn + 1 .. t.drawn
  <2>1. CASE id \in DOMAIN s.g_msg_table
    <3>1. Body(t.g_msg_table[id]) = Body(s.g_msg_table[id])
      BY <1>4, <2>1 DEF Handles, Stamp, Body
    <3>. QED  BY <2>1, <3>1 DEF Said, In
  <2>2. CASE id = f.id  BY <1>2, <1>4, <2>2 DEF Handles
  <2>3. CASE id \notin DOMAIN s.g_msg_table /\ id # f.id  BY <1>4, <2>3 DEF Handles
  <2>. QED  BY <2>1, <2>2, <2>3
<1>6. rx[n] \in Seq(Frame) /\ rx \in [Node -> Seq(Frame)]  BY DEF Sane, Types
<1>7. Taken(rx[n], Tail(rx[n]), Frame)  BY <1>1, <1>6, TailIs
<1>8. rx' \in [Node -> Seq(Frame)]  BY <1>1, <1>6, <1>7 DEF Taken
<1>9. ASSUME NEW m \in Node, NEW k \in DOMAIN rx'[m]
      PROVE  FrameOk(rx'[m][k]) /\ Said(rx'[m][k].id, FrameBody(rx'[m][k]))
  <2>1. CASE m = n
    <3>1. k + 1 \in DOMAIN rx[n] /\ rx'[m][k] = rx[n][k + 1]
      BY <1>1, <1>6, <1>7, <1>9, <2>1 DEF Taken
    <3>. QED  BY <3>1, AirSaid
  <2>2. CASE m # n
    <3>1. rx'[m] = rx[m]  BY <1>1, <1>6, <2>2
    <3>. QED  BY <1>9, <3>1, AirSaid
  <2>. QED  BY <2>1, <2>2
<1>10. /\ flooded[n] \in SUBSET Id /\ flooded' = [flooded EXCEPT ![n] = flooded[n]]
       /\ todo' \subseteq todo
  BY <1>1 DEF Sane, Types
<1>11. s.drawn <= t.drawn  BY <1>4 DEF Handles
<1>. QED  BY <1>1, <1>4, <1>5, <1>8, <1>9, <1>10, <1>11, SaneStep

(* A message of the node's own, queued.                                    *)
LEMMA OriginateReady ==
  ASSUME NEW n \in Node, NEW s, NEW sent, Ready(n, s, sent), s.mode # "off",
         NEW content \in Content, content \notin Responses \cup {"gbcast"},
         NEW dst \in Node \cup {NO_ID}, NEW target \in Node \cup {NO_ID},
         NEW use_router \in BOOLEAN,
         NEW u, u = create_data_object(s, n, content, {}, dst, NO_ID),
         NEW t, t = queue_send(u, LastId(n, u), target, use_router)
  PROVE  Ready(n, t, sent) /\ Learns(n, s, t)
<1>. DEFINE new == LastId(n, u)
<1>1. s \in NodeRecord  BY DEF Ready
<1>2. /\ {} \in SUBSET Pair /\ NO_ID \in Id \cup {NO_ID}
      /\ (NO_ID = NO_ID <=> content \notin Responses)
  OBVIOUS
<1>3. Ready(n, u, sent) /\ Learns(n, s, u)  BY <1>2, CreateReady
<1>4. Created(n, s, u, OwnEntry(n, content, {}, dst, NO_ID))  BY <1>1, <1>2, CreateEffect
<1>5. new \in DOMAIN u.g_msg_table /\ u.g_msg_table[new].content # "gbcast"
  BY <1>4 DEF Created, OwnEntry
<1>6. u.mode # "off"  BY <1>3, LearnsMode
<1>. HIDE DEF new
<1>7. Ready(n, t, sent) /\ Learns(n, u, t)  BY <1>3, <1>5, <1>6, QueueReady DEF new
<1>8. u \in NodeRecord /\ t \in NodeRecord  BY <1>3, <1>7 DEF Ready
<1>. QED  BY <1>1, <1>3, <1>7, <1>8, LearnsTwice

LEMMA OriginateSane ==
  ASSUME Sane, NEW n \in Node, Up(n), NEW s, Ready(n, s, flooded[n]), Learns(n, node[n], s),
         NEW content \in Content, content \notin Responses \cup {"gbcast"},
         NEW dst \in Node \cup {NO_ID}, NEW target \in Node \cup {NO_ID},
         NEW use_router \in BOOLEAN, Originate(n, s, content, dst, target, use_router),
         todo' \subseteq todo, UNCHANGED flooded
  PROVE  Sane'
<1>. DEFINE u == create_data_object(s, n, content, {}, dst, NO_ID)
            t == queue_send(u, LastId(n, u), target, use_router)
<1>1. node[n].mode # "off"  BY DEF Up
<1>2. s.mode # "off"  BY <1>1, LearnsMode
<1>3. Ready(n, t, flooded[n]) /\ Learns(n, s, t)  BY <1>2, OriginateReady
<1>4. Become(n, t)  BY DEF Originate
<1>. HIDE DEF t
<1>5. node[n] \in NodeRecord /\ s \in NodeRecord /\ t \in NodeRecord
  BY <1>3 DEF Sane, Types, Ready
<1>6. Learns(n, node[n], t)  BY <1>3, <1>5, LearnsTwice
<1>. QED  BY <1>3, <1>4, <1>6, BecomeSane

LEMMA BootSane ==
  ASSUME Sane, NEW n \in Node, Boot(n)
  PROVE  Sane'
<1>. DEFINE t == Booted(n, 0)
<1>1. /\ node[n].mode = "off" /\ node' = [node EXCEPT ![n] = t] /\ rx' = rx
      /\ todo' \subseteq todo /\ flooded' = flooded
  BY DEF Boot, Do
<1>2. node[n] = Off /\ Ready(n, node[n], flooded[n])  BY <1>1 DEF Sane, Ready
<1>3. Steady => flooded[n] = {}
  BY <1>2, OffIsRecord DEF Ready, OnceEach
<1>. HIDE DEF t
<1>4. /\ Ready(n, t, flooded[n]) /\ t.drawn = 0 + 1
      /\ DOMAIN t.g_msg_table = {<<n, 0 + 1>>}
  <2>1. Ready(n, t, flooded[n]) /\ Woke(n, t, 0)  BY <1>3, BootedReady DEF t
  <2>. QED  BY <2>1 DEF Woke
<1>5. node[n].drawn = 0  BY <1>2, OffIsRecord
<1>6. \A id \in DOMAIN t.g_msg_table : id[1] = n /\ id[2] \in node[n].drawn + 1 .. t.drawn
  BY <1>4, <1>5
<1>7. rx' \in [Node -> Seq(Frame)] /\ flooded[n] \in SUBSET Id
      /\ flooded' = [flooded EXCEPT ![n] = flooded[n]]
  BY <1>1 DEF Sane, Types
<1>8. \A m \in Node : \A k \in DOMAIN rx'[m] :
        FrameOk(rx'[m][k]) /\ Said(rx'[m][k].id, FrameBody(rx'[m][k]))
  BY <1>1, AirSaid
<1>9. node[n].drawn <= t.drawn  BY <1>4, <1>5
<1>. QED  BY <1>1, <1>4, <1>6, <1>7, <1>8, <1>9, SaneStep

LEMMA RestartSane ==
  ASSUME Sane, NEW n \in Node, Restart(n)
  PROVE  Sane'
<1>. DEFINE t == Booted(n, node[n].drawn)
<1>1. /\ node' = [node EXCEPT ![n] = t] /\ rx' = [rx EXCEPT ![n] = << >>]
      /\ todo' \subseteq todo /\ flooded' = flooded
      /\ [op |-> "restart", at |-> n, on |-> NO_ID] \in todo
  BY DEF Restart, Do
<1>2. ~ Steady  BY <1>1 DEF Sane, Types, Steady
<1>3. node[n] \in NodeRecord  BY DEF Sane, Types
<1>4. node[n].drawn \in Nat  BY <1>3 DEF NodeRecord
<1>. HIDE DEF t
<1>5. /\ Ready(n, t, flooded[n]) /\ t.drawn = node[n].drawn + 1
      /\ DOMAIN t.g_msg_table = {<<n, node[n].drawn + 1>>}
  <2>1. Ready(n, t, flooded[n]) /\ Woke(n, t, node[n].drawn)
    BY <1>2, <1>4, BootedReady DEF t
  <2>. QED  BY <2>1 DEF Woke
<1>6. \A id \in DOMAIN t.g_msg_table : id[1] = n /\ id[2] \in node[n].drawn + 1 .. t.drawn
  BY <1>4, <1>5
<1>7. flooded[n] \in SUBSET Id /\ flooded' = [flooded EXCEPT ![n] = flooded[n]]
  BY <1>1 DEF Sane, Types
<1>8. << >> \in Seq(Frame) /\ DOMAIN << >> = {}  OBVIOUS
<1>9. rx' \in [Node -> Seq(Frame)]  BY <1>1, <1>8 DEF Sane, Types
<1>10. ASSUME NEW m \in Node, NEW k \in DOMAIN rx'[m]
       PROVE  FrameOk(rx'[m][k]) /\ Said(rx'[m][k].id, FrameBody(rx'[m][k]))
  <2>1. m # n  BY <1>1, <1>8, <1>10 DEF Sane, Types
  <2>2. rx'[m] = rx[m]  BY <1>1, <2>1 DEF Sane, Types
  <2>. QED  BY <1>10, <2>2, AirSaid
<1>11. node[n].drawn <= t.drawn  BY <1>4, <1>5
<1>. QED  BY <1>1, <1>5, <1>6, <1>7, <1>9, <1>10, <1>11, SaneStep

LEMMA PingSane ==
  ASSUME Sane, NEW n \in Node, NEW m \in Node, Ping(n, m)
  PROVE  Sane'
<1>. DEFINE s  == node[n]
            id == s.ping_id[m]
            u  == [s EXCEPT !.g_msg_table[id].ack_status = FALSE]
            t  == queue_send(u, id, m, TRUE)
<1>1. /\ s.mode = "up" /\ m \in DOMAIN s.ping_id /\ m # n
      /\ Become(n, t) /\ todo' \subseteq todo /\ flooded' = flooded
  BY DEF Ping, Up, Do
<1>2. Ready(n, s, flooded[n]) /\ s \in NodeRecord /\ s.mode # "off"
  BY <1>1 DEF Sane, Ready
<1>3. id \in DOMAIN s.g_msg_table /\ IsPing(s.g_msg_table[id])
  BY <1>1, <1>2 DEF Ready, In
<1>. HIDE DEF id
<1>4. FALSE \in BOOLEAN /\ TRUE \in BOOLEAN /\ m \in Node \cup {NO_ID}  OBVIOUS
<1>5. Ready(n, u, flooded[n]) /\ Learns(n, s, u)  BY <1>2, <1>3, <1>4, MarkReady
<1>. HIDE DEF u
<1>6. id \in DOMAIN u.g_msg_table /\ u.g_msg_table[id].content # "gbcast"
  BY <1>3, <1>5 DEF Learns, In, Stamp, IsPing
<1>7. u.mode # "off"  BY <1>2, <1>5, LearnsMode
<1>8. Ready(n, t, flooded[n]) /\ Learns(n, u, t)  BY <1>4, <1>5, <1>6, <1>7, QueueReady
<1>. HIDE DEF t
<1>9. Learns(n, s, t)
  <2>1. u \in NodeRecord /\ t \in NodeRecord  BY <1>5, <1>8 DEF Ready
  <2>. QED  BY <1>2, <1>5, <1>8, <2>1, LearnsTwice
<1>. QED  BY <1>1, <1>8, <1>9, BecomeSane

LEMMA ContentsAre ==
  /\ \A c \in {"rquery", "unlink", "link", "chat"} :
       c \in Content /\ c \notin Responses \cup {"gbcast"}
  /\ BROADCAST_ID \in Node \cup {NO_ID}
BY DEF Content, Commands, Responses, BROADCAST_ID

LEMMA SaneNext == Sane /\ [Next]_vars => Sane'
<1>. SUFFICES ASSUME Sane, [Next]_vars PROVE Sane'  OBVIOUS
<1>1. ASSUME NEW n \in Node PROVE node[n] \in NodeRecord /\ Ready(n, node[n], flooded[n])
                                  /\ Learns(n, node[n], node[n])
  <2>1. node[n] \in NodeRecord  BY DEF Sane, Types
  <2>. QED  BY <2>1, LearnsSame DEF Sane
<1>2. ASSUME NEW n \in Node, Transmit(n) PROVE Sane'  BY <1>2, TransmitSane
<1>3. ASSUME NEW n \in Node, Receive(n) PROVE Sane'  BY <1>3, ReceiveSane
<1>4. ASSUME NEW n \in Node, Boot(n) PROVE Sane'  BY <1>4, BootSane
<1>5. ASSUME NEW n \in Node, Restart(n) PROVE Sane'  BY <1>5, RestartSane
<1>6. ASSUME NEW n \in Node, rquery_task(n) PROVE Sane'
  <2>1. /\ Up(n) /\ Originate(n, node[n], "rquery", BROADCAST_ID, BROADCAST_ID, FALSE)
        /\ todo' \subseteq todo /\ UNCHANGED flooded
    BY <1>6 DEF rquery_task, Do
  <2>. QED  BY <1>1, <2>1, ContentsAre, OriginateSane
<1>7. ASSUME NEW n \in Node, NEW m \in Node, Ping(n, m) PROVE Sane'  BY <1>7, PingSane
<1>8. ASSUME NEW n \in Node, NEW m \in Node, SysUnlink(n, m) PROVE Sane'
  <2>1. /\ Up(n) /\ Originate(n, node[n], "unlink", m, m, FALSE)
        /\ todo' \subseteq todo /\ UNCHANGED flooded
    BY <1>8 DEF SysUnlink, Do
  <2>. QED  BY <1>1, <2>1, ContentsAre, OriginateSane
<1>9. ASSUME NEW n \in Node, NEW m \in Node, SysLink(n, m) PROVE Sane'
  <2>. DEFINE s == SetNeighborLink(node[n], m, TRUE)
  <2>1. /\ Up(n) /\ Originate(n, s, "link", m, m, FALSE)
        /\ todo' \subseteq todo /\ UNCHANGED flooded
    BY <1>9 DEF SysLink, Do
  <2>2. node[n].mode # "off"  BY <2>1 DEF Up
  <2>3. Ready(n, s, flooded[n]) /\ Learns(n, node[n], s)
    BY <1>1, <2>2, SetNeighborLinkReady
  <2>. HIDE DEF s
  <2>. QED  BY <2>1, <2>3, ContentsAre, OriginateSane
<1>10. ASSUME NEW n \in Node, NEW m \in Node \cup {NO_ID}, Post(n, m) PROVE Sane'
  <2>1. /\ Up(n) /\ Originate(n, node[n], "chat", m, m, TRUE)
        /\ todo' \subseteq todo /\ UNCHANGED flooded
    BY <1>10 DEF Post, Do
  <2>. QED  BY <1>1, <2>1, ContentsAre, OriginateSane
<1>11. ASSUME UNCHANGED vars PROVE Sane'
  BY <1>11 DEF vars, Sane, Types, Agreed, Drawn, Said
<1>. QED
  BY <1>2, <1>3, <1>4, <1>5, <1>6, <1>7, <1>8, <1>9, <1>10, <1>11 DEF Next

LEMMA SpecSane == Spec => []Sane
<1>1. Init => Sane  BY SaneInit
<1>2. Sane /\ [Next]_vars => Sane'  BY SaneNext
<1>. QED  BY <1>1, <1>2, PTL DEF Spec

----------------------------------------------------------------------------
(* Theorems.                                                               *)

LEMMA RecordType ==
  ASSUME NEW n, NEW s, NEW sent, Ready(n, s, sent)
  PROVE  NodeType(n, s)
<1>1. s \in NodeRecord  BY DEF Ready
<1>2. /\ DOMAIN s.g_msg_table \subseteq Id
      /\ \A id \in DOMAIN s.g_msg_table : s.g_msg_table[id] \in DataEntry
  <2>1. s.g_msg_table \in Table  BY <1>1 DEF NodeRecord
  <2>. QED  BY <2>1, TableIs
<1>3. DOMAIN s.ping_id \subseteq Node /\ s.ping_id \in [DOMAIN s.ping_id -> Id \cup {NO_ID}]
  <2>1. s.ping_id \in PingTable  BY <1>1 DEF NodeRecord
  <2>2. PICK D \in SUBSET Node : s.ping_id \in [D -> Id \cup {NO_ID}]  BY <2>1 DEF PingTable
  <2>. QED  BY <2>2
<1>. QED  BY <1>1, <1>2, <1>3 DEF NodeType, NodeRecord, Ready

(* What every node keeps has its type, whatever is sent, lost, cut or      *)
(* restarted: no handler leaves a route, an entry or a queued id that the  *)
(* next one cannot read (lora_uart.c, maintenance.c, routing.c).           *)
THEOREM TypesAlwaysOK == Spec => []TypeOK
<1>1. Sane => TypeOK
  BY RecordType DEF Sane, Types, TypeOK
<1>. QED  BY <1>1, SpecSane, PTL

(* While no node restarts, a node transmits a gbcast at most once: the id  *)
(* it has seen is in its message table, and the copy that comes back from  *)
(* a neighbour is dropped (lora_uart.c:311-315).                           *)
THEOREM FloodsOnce == Steady => (Spec => []FloodOnce)
<1>. SUFFICES ASSUME Steady PROVE Spec => []FloodOnce  OBVIOUS
<1>1. Sane => FloodOnce
  BY DEF Sane, Ready, OnceEach, FloodOnce, Entries
<1>. QED  BY <1>1, SpecSane, PTL
=============================================================================
