-------------------------------- MODULE Mesh --------------------------------
(***************************************************************************)
(* The mesh: nodes that run the receive handler (main/src/lora_uart.c),    *)
(* the maintenance handlers (main/src/maintenance.c), the message and node *)
(* tables (main/src/data_table.c, node_table.c) and the router (Routing),  *)
(* and exchange frames over the radio.                                     *)
(*                                                                         *)
(* A node is a record.  A task's step is an operator from node records to  *)
(* node records; the actions below say which task steps, at which node.    *)
(* rx[n] is q_rcv, the frames the UART reader has put before the receive   *)
(* handler.  Message ids are drawn fresh: rand_msg_id is taken not to      *)
(* repeat across nodes.                                                    *)
(***************************************************************************)
EXTENDS Routing

CONSTANTS
  Reach,         (* the nodes a node's radio reaches: never itself         *)
  RQUERY_COUNT,  (* pairs in an answer (5 in the code)                     *)
  QUEUE_LENGTH,  (* ids MessageQueue holds (16 in the code)                *)
  Lossy,         (* whether the radio may lose frames                      *)
  Quiet,         (* nodes that booted before anyone could hear them        *)
  Script         (* bound: what users, timers and power do, once each      *)

Operation == [op : {"boot", "restart", "rquery", "ping", "unlink", "link", "post"},
              at : Node, on : Node \cup {NO_ID}]

ASSUME MeshAssumption ==
  /\ IsFiniteSet(Node) /\ NO_ID \notin Node \X Nat
  /\ Reach \in [Node -> SUBSET Node]
  /\ \A n \in Node : n \notin Reach[n]
  /\ RQUERY_COUNT \in Nat \ {0}
  /\ QUEUE_LENGTH \in Nat \ {0}
  /\ Lossy \in BOOLEAN
  /\ Quiet \subseteq Node
  /\ Script \subseteq Operation

VARIABLES
  node,      (* what each node keeps in memory                             *)
  rx,        (* q_rcv of each node                                         *)
  todo,      (* operations of Script still to come                         *)
  flooded    (* history: the gbcast ids each node has transmitted          *)

vars == <<node, rx, todo, flooded>>

----------------------------------------------------------------------------
(* Data.                                                                   *)

BROADCAST_ID == NO_ID

Commands  == {"gbcast", "ping", "rquery", "unlink", "link"}
Responses == {"name", "routes", "y", "n"}

MessageType(content) == IF content = "chat" THEN "NORMAL" ELSE "MAINTENANCE"

Id == Node \X Nat

DataEntry ==
  [content : Commands \cup Responses \cup {"chat"},
   pairs : SUBSET [destination_node : Node, steps : Nat, at : Nat],
   src_node : Node, dst_node : Node \cup {NO_ID}, origin_node : Node,
   target_node : Node \cup {NO_ID}, steps : Nat,
   ack_for : Id \cup {NO_ID}, ack_status : BOOLEAN]

(* ping_id is the node table: for each address in it, the ping message     *)
(* made with the entry (none for the node itself).  drawn counts the ids   *)
(* this node has made.                                                     *)
Off ==
  [mode |-> "off", router |-> create_router(0), ping_id |-> << >>,
   link_enabled |-> [m \in Node |-> TRUE], last_rquery |-> [m \in Node |-> 0],
   g_msg_table |-> << >>, MessageQueue |-> << >>, drawn |-> 0]

In(s, id) == id \in DOMAIN s.g_msg_table

With(f, x, v) == [y \in DOMAIN f \cup {x} |-> IF y = x THEN v ELSE f[y]]

LastId(n, s) == <<n, s.drawn>>

----------------------------------------------------------------------------
(* Message table, send queue, node table.                                  *)

(* create_data_object of a message that starts here.                       *)
create_data_object(s, n, content, pairs, dst, ack_for) ==
  [s EXCEPT
    !.drawn = @ + 1,
    !.g_msg_table = With(@, <<n, s.drawn + 1>>,
       [content |-> content, pairs |-> pairs, src_node |-> n, dst_node |-> dst,
        origin_node |-> n, target_node |-> NO_ID, steps |-> 0,
        ack_for |-> ack_for, ack_status |-> FALSE])]

(* queue_send: an id without a route is dropped; so is one MessageQueue has *)
(* no room for, after its entry has been marked.                           *)
queue_send(s, id, target, use_router) ==
  LET final == IF use_router THEN router_query_intermediate(s.router, target) ELSE target
  IN  IF use_router /\ final = NO_ID THEN s
      ELSE [s EXCEPT
             !.g_msg_table[id].target_node = final,
             !.MessageQueue = IF Len(@) < QUEUE_LENGTH THEN Append(@, id) ELSE @]

(* node_create_if_needed, and create_node_object with its ping message.    *)
node_create_if_needed(s, n, m) ==
  IF m \in DOMAIN s.ping_id THEN s
  ELSE LET t == create_data_object(s, n, "ping", {}, m, NO_ID)
       IN  [t EXCEPT !.ping_id = With(@, m, LastId(n, t))]

(* nodes_update: the origin and the sender the table holds for this id.    *)
nodes_update(s, n, id) ==
  LET e == s.g_msg_table[id]
  IN  node_create_if_needed(node_create_if_needed(s, n, e.origin_node), n, e.src_node)

----------------------------------------------------------------------------
(* maintenance.c                                                           *)

Panic(s) == [s EXCEPT !.mode = "panic"]

Respond_toAll(s, n, id, content, pairs, use_router) ==     (* mutant: broadcast *)
  LET t == create_data_object(s, n, content, pairs, s.g_msg_table[id].origin_node, id)
  IN  queue_send(t, LastId(n, t), BROADCAST_ID, FALSE)

Respond_toOrigin(s, n, id, content, pairs, use_router) ==  (* mutant: not the way it came *)
  LET t == create_data_object(s, n, content, pairs, s.g_msg_table[id].origin_node, id)
  IN  queue_send(t, LastId(n, t), s.g_msg_table[id].origin_node, TRUE)

(* The response goes to the origin, by way of the node it came from.       *)
Respond(s, n, id, content, pairs, use_router) ==
  LET e == s.g_msg_table[id]
      t == create_data_object(s, n, content, pairs, e.origin_node, id)
  IN  queue_send(t, LastId(n, t), e.src_node, use_router)

SetNeighborLink_tableOnly(s, m, up) ==                     (* mutant: router not told *)
  [s EXCEPT !.link_enabled[m] = up]

SetNeighborLink(s, m, up) ==
  [s EXCEPT
    !.router = IF up THEN router_link_node(@, m) ELSE router_unlink_node(@, m),
    !.link_enabled[m] = up]

(* router_parse_rquery: the pair at each place of the answer, in order.    *)
ParsePlace(r, from, pairs, k) ==
  LET p == CHOOSE p \in pairs : p.at = k
  IN  IF \E q \in pairs : q.at = k
      THEN router_incorporate_rquery(r, from, p.destination_node, p.steps) ELSE r

router_parse_rquery(r, from, pairs) ==
  LET parsed[k \in 0 .. RQUERY_COUNT] ==
        IF k = 0 THEN r ELSE ParsePlace(parsed[k - 1], from, pairs, k - 1)
  IN  parsed[RQUERY_COUNT]

HandleCommand_noRelay(s, n, id) ==                         (* mutant: gbcast not passed on *)
  CASE s.g_msg_table[id].content = "gbcast" -> Respond(s, n, id, "name", {}, TRUE)
    [] OTHER -> s

(* A command for this node; a text that is none is ignored.                *)
HandleCommand(s, n, id) ==
  LET e == s.g_msg_table[id] IN
  CASE e.content = "ping"   -> Respond(s, n, id, "name", {}, TRUE)
    [] e.content = "gbcast" ->
         Respond(queue_send(s, id, BROADCAST_ID, FALSE), n, id, "name", {}, TRUE)
    [] e.content = "rquery" ->
         Respond([s EXCEPT !.last_rquery[e.src_node] = s.router.discovery_seq], n, id, "routes",
                 router_answer_rquery(s.router, e.src_node, s.last_rquery[e.src_node], RQUERY_COUNT),
                 TRUE)
    [] e.content = "unlink" ->
         IF e.steps # 1 THEN Respond(s, n, id, "n", {}, TRUE)
         ELSE Respond(SetNeighborLink(s, e.origin_node, FALSE), n, id, "y", {}, FALSE)
    [] e.content = "link"   -> SetNeighborLink(s, e.origin_node, TRUE)
    [] OTHER -> s

HandleResponse_ignoreY(s, n, id) ==                        (* mutant: "y" not acted on *)
  LET e == s.g_msg_table[id]
  IN  IF ~ In(s, e.ack_for) THEN Panic(s)
      ELSE IF s.g_msg_table[e.ack_for].content = "rquery"
      THEN [s EXCEPT !.router = router_parse_rquery(@, e.src_node, e.pairs)]
      ELSE s

(* A response for this node: what it answers must be in the message table, *)
(* or the handler dereferences NULL.  A name is taken to be none of the    *)
(* five commands: the handler would take the answer of a board with such a *)
(* name for the command, and answer it in turn.                            *)
HandleResponse(s, n, id) ==
  LET e == s.g_msg_table[id]
      asked == s.g_msg_table[e.ack_for].content
  IN  IF ~ In(s, e.ack_for) THEN Panic(s)
      ELSE IF asked = "rquery"
      THEN [s EXCEPT !.router = router_parse_rquery(@, e.src_node, e.pairs)]
      ELSE IF asked = "unlink" /\ e.content = "y"
      THEN SetNeighborLink(s, e.origin_node, FALSE)
      ELSE s

handle_maintenance_msg(s, n, id) ==
  LET e == s.g_msg_table[id]
  IN  IF e.dst_node \notin {BROADCAST_ID, n} THEN s
      ELSE IF e.ack_for # NO_ID THEN HandleResponse(s, n, id)
      ELSE HandleCommand(s, n, id)

----------------------------------------------------------------------------
(* rcv_handler_task: one frame f at node n.                                *)

Received_sameSteps(s, f) ==                                (* mutant: a hop not counted *)
  IF In(s, f.id) THEN s
  ELSE [s EXCEPT !.g_msg_table = With(@, f.id,
          [content |-> f.content, pairs |-> f.pairs, src_node |-> f.from,
           dst_node |-> f.dst, origin_node |-> f.origin, target_node |-> NO_ID,
           steps |-> f.steps, ack_for |-> f.ack_for, ack_status |-> FALSE])]

Received(s, f) ==
  IF In(s, f.id) THEN s
  ELSE [s EXCEPT !.g_msg_table = With(@, f.id,
          [content |-> f.content, pairs |-> f.pairs, src_node |-> f.from,
           dst_node |-> f.dst, origin_node |-> f.origin, target_node |-> NO_ID,
           steps |-> f.steps + 1, ack_for |-> f.ack_for, ack_status |-> FALSE])]

(* An ack is marked, and passed on to where the acked message came from.   *)
PassAck(s, n, f) ==
  IF s.mode = "panic" \/ f.ack_for = NO_ID THEN s
  ELSE IF ~ In(s, f.ack_for) THEN Panic(s)
  ELSE LET t == [s EXCEPT !.g_msg_table[f.ack_for].ack_status = TRUE]
       IN  IF f.dst = n THEN t
           ELSE queue_send(t, f.id, t.g_msg_table[f.ack_for].src_node, TRUE)

rcv_handler_again(s, n, f) ==                              (* mutant: a gbcast handled twice *)
  LET updated == [s EXCEPT !.router = router_update(@, f.origin, f.from, f.steps + 1)]
      stored  == nodes_update(Received(updated, f), n, f.id)
  IN  PassAck(IF MessageType(f.content) = "MAINTENANCE"
              THEN handle_maintenance_msg(stored, n, f.id) ELSE stored, n, f)

rcv_handler(s, n, f) ==
  LET again   == In(s, f.id) /\ s.g_msg_table[f.id].content = "gbcast"
      updated == [s EXCEPT !.router = router_update(@, f.origin, f.from, f.steps + 1)]
      stored  == nodes_update(Received(updated, f), n, f.id)
      handled == IF MessageType(f.content) = "MAINTENANCE"
                 THEN handle_maintenance_msg(stored, n, f.id) ELSE stored
  IN  IF again THEN stored ELSE PassAck(handled, n, f)

----------------------------------------------------------------------------
(* Actions.                                                                *)

Up(n) == node[n].mode = "up"

(* app_main: the node in its own table, an empty router, a gbcast to send. *)
Booted(n, drawn) ==
  LET s == [Off EXCEPT !.mode = "up", !.ping_id = With(@, n, NO_ID), !.drawn = drawn]
      t == create_data_object(s, n, "gbcast", {}, BROADCAST_ID, NO_ID)
  IN  queue_send(t, LastId(n, t), BROADCAST_ID, FALSE)

Init ==
  /\ node = [n \in Node |->
       IF n \in Quiet THEN [Booted(n, 0) EXCEPT !.MessageQueue = << >>] ELSE Off]
  /\ rx = [n \in Node |-> << >>]
  /\ todo = Script
  /\ flooded = [n \in Node |-> IF n \in Quiet THEN {<<n, 1>>} ELSE {}]

Do(op, n, m) ==
  /\ [op |-> op, at |-> n, on |-> m] \in todo
  /\ todo' = todo \ {[op |-> op, at |-> n, on |-> m]}
  /\ UNCHANGED flooded

Boot(n) ==
  /\ node[n].mode = "off"
  /\ Do("boot", n, NO_ID)
  /\ node' = [node EXCEPT ![n] = Booted(n, 0)]
  /\ UNCHANGED rx

(* Power or a panic restarts the node: its memory is gone.                 *)
Restart(n) ==
  /\ node[n].mode # "off"
  /\ Do("restart", n, NO_ID)
  /\ node' = [node EXCEPT ![n] = Booted(n, node[n].drawn)]
  /\ rx' = [rx EXCEPT ![n] = << >>]

(* A task other than the receive handler makes node n into s.              *)
Become(n, s) == node' = [node EXCEPT ![n] = s] /\ UNCHANGED rx

(* A new message m of this node, queued for a target.                      *)
Originate(n, s, content, dst, target, use_router) ==
  LET t == create_data_object(s, n, content, {}, dst, NO_ID)
  IN  Become(n, queue_send(t, LastId(n, t), target, use_router))

rquery_task(n) ==
  /\ Up(n)
  /\ Do("rquery", n, NO_ID)
  /\ Originate(n, node[n], "rquery", BROADCAST_ID, BROADCAST_ID, FALSE)

(* ping_suspect_node sends the one ping message kept for m.                *)
Ping(n, m) ==
  /\ Up(n)
  /\ m \in DOMAIN node[n].ping_id \ {n}
  /\ Do("ping", n, m)
  /\ Become(n, queue_send([node[n] EXCEPT !.g_msg_table[node[n].ping_id[m]].ack_status = FALSE],
                          node[n].ping_id[m], m, TRUE))

(* resolve_system_command: SYS+UNLINK=m and SYS+LINK=m.                    *)
SysUnlink(n, m) ==
  /\ Up(n)
  /\ m \in DOMAIN node[n].ping_id \ {n}
  /\ Do("unlink", n, m)
  /\ Originate(n, node[n], "unlink", m, m, FALSE)

SysLink(n, m) ==
  /\ Up(n)
  /\ m \in DOMAIN node[n].ping_id \ {n}
  /\ Do("link", n, m)
  /\ Originate(n, SetNeighborLink(node[n], m, TRUE), "link", m, m, FALSE)

(* send_post_handler: a chat message, always through the router.           *)
Post(n, target) ==
  /\ Up(n)
  /\ Do("post", n, target)
  /\ Originate(n, node[n], "chat", target, target, TRUE)

(* message_sending_task takes an id from its queue.                        *)
Sends(n) ==
  /\ Up(n)
  /\ node[n].MessageQueue # << >>
  /\ node' = [node EXCEPT ![n].MessageQueue = Tail(@)]

(* What it sends reaches the nodes in range it is for, or some of them.    *)
Transmit(n) ==
  /\ Sends(n)
  /\ LET id == Head(node[n].MessageQueue)
         e  == node[n].g_msg_table[id]
         f  == [from |-> n, id |-> id, content |-> e.content, pairs |-> e.pairs,
                origin |-> e.origin_node, dst |-> e.dst_node, steps |-> e.steps,
                ack_for |-> e.ack_for]
         heard == {m \in Reach[n] : Up(m) /\ e.target_node \in {BROADCAST_ID, m}}
     IN  /\ \E D \in IF Lossy THEN SUBSET heard ELSE {heard} :
              rx' = [m \in Node |-> IF m \in D THEN Append(rx[m], f) ELSE rx[m]]
         /\ flooded' = IF e.content = "gbcast"
                       THEN [flooded EXCEPT ![n] = @ \cup {id}] ELSE flooded
  /\ UNCHANGED todo

(* rcv_handler_task takes a frame from q_rcv, and handles it.              *)
Takes(n) ==
  /\ Up(n)
  /\ rx[n] # << >>
  /\ rx' = [rx EXCEPT ![n] = Tail(@)]

Receive(n) ==
  /\ Takes(n)
  /\ node' = [node EXCEPT ![n] = rcv_handler(node[n], n, Head(rx[n]))]
  /\ UNCHANGED <<todo, flooded>>

Next ==
  \E n \in Node :
    \/ Transmit(n)
    \/ Receive(n)
    \/ Boot(n)
    \/ Restart(n)
    \/ rquery_task(n)
    \/ \E m \in Node : Ping(n, m) \/ SysUnlink(n, m) \/ SysLink(n, m)
    \/ \E m \in Node \cup {NO_ID} : Post(n, m)

Spec == Init /\ [][Next]_vars

(* The sending task and the receive handler of every node keep running:    *)
(* weak fairness of Transmit(n) and of Receive(n), stated of the conjunct   *)
(* that takes from the queue.  It is enabled exactly when the whole action *)
(* is, and no other action satisfies it, except a Restart that leaves      *)
(* nothing to take.                                                        *)
Fairness ==
  \A n \in Node :
    /\ WF_node(Sends(n))
    /\ WF_rx(Takes(n))

FairSpec == Spec /\ Fairness

----------------------------------------------------------------------------
(* Properties.                                                             *)

NodeType(n, s) ==
  /\ s.mode \in {"off", "up", "panic"}
  /\ s.router \in RouterType
  /\ s.ping_id \in [DOMAIN s.ping_id -> Id \cup {NO_ID}]
  /\ DOMAIN s.ping_id \subseteq Node
  /\ s.link_enabled \in [Node -> BOOLEAN]
  /\ s.last_rquery \in [Node -> Seq32]
  /\ DOMAIN s.g_msg_table \subseteq Id
  /\ \A id \in DOMAIN s.g_msg_table : s.g_msg_table[id] \in DataEntry
  /\ s.MessageQueue \in Seq(DOMAIN s.g_msg_table)
  /\ s.drawn \in Nat

TypeOK ==
  /\ \A n \in Node : NodeType(n, node[n])
  /\ todo \subseteq Script
  /\ flooded \in [Node -> SUBSET Id]

Router(n) == node[n].router
Entries(n) == node[n].g_msg_table
Heard(n, m) == SlotsVia(Router(n).best_routing_info[m], m) # {}
Routes(n, d) == Up(n) /\ d \in Known(Router(n)) /\ Routed(Router(n), d)
NextHop(n, d) == router_query_intermediate(Router(n), d)

(* No node dereferences NULL: whatever response reaches a node answers a   *)
(* message that node has in its table, "mark it as acked because it is"    *)
(* (lora_uart.c:335-338, maintenance.c:60-62, 85-87, 103-105, 132-134).    *)
(* Of meshes where no node restarts and no link is cut: a node that        *)
(* restarted has forgotten what it sent, and an ack that goes around a cut *)
(* link comes by nodes that never saw what it acks.  Both then panic.      *)
NoPanic == \A n \in Node : node[n].mode # "panic"

(* A node transmits a gbcast at most once, though it hears it again from   *)
(* every neighbour that passes it on (lora_uart.c:311-315).                *)
FloodOnce ==
  \A n \in Node :
    LET q == node[n].MessageQueue
    IN  \A k \in DOMAIN q :
          Entries(n)[q[k]].content = "gbcast" =>
            /\ q[k] \notin flooded[n]
            /\ \A j \in DOMAIN q : q[j] = q[k] => j = k

(* An ack retraces the path of what it acks: it is queued for the node     *)
(* that message came from, "the goal is to send it along the path it came" *)
(* (lora_uart.c:340-345, maintenance.c:58, 168).                           *)
AcksRetrace ==
  \A n \in Node : \A k \in DOMAIN node[n].MessageQueue :
    LET e == Entries(n)[node[n].MessageQueue[k]]
    IN  e.ack_for \in DOMAIN Entries(n) => e.target_node = Entries(n)[e.ack_for].src_node

(* The next hop of a route is the destination or a node that has a route   *)
(* to it: while no link is cut and no node restarts, nobody offers a way   *)
(* it does not have (routing.c:258-285, 342-354).                          *)
NextHopKnows ==
  \A n, d \in Node :
    Routes(n, d) /\ d # n => NextHop(n, d) = d \/ Routes(NextHop(n, d), d)

(* Following next hops towards a destination never comes back: whatever    *)
(* order frames and answers came in, no two estimates chase each other.    *)
(* In a mesh without cycles, that is: a refresh takes the newest number of *)
(* steps, even if it is larger, and in a ring of five two floods of one    *)
(* origin that go opposite ways round do close a loop                      *)
(* (routing.c:106-112, 158-175, 344).                                      *)
LoopFree ==
  \A d \in Node : \A S \in SUBSET (Node \ {d}) :
    S # {} => \E n \in S : ~ (Routes(n, d) /\ NextHop(n, d) \in S)

(* The nodes within k hops of d, for k up to the number of nodes.          *)
Within ==
  [d \in Node |->
     LET ball[k \in 0 .. Cardinality(Node)] ==
           IF k = 0 THEN {d}
           ELSE ball[k - 1] \cup UNION {Reach[m] : m \in ball[k - 1]}
     IN  ball]

(* Whether n may be k hops from d: a number of steps past the mesh's size  *)
(* says nothing.                                                           *)
Near(n, d, k) == k >= Cardinality(Node) \/ n \in Within[d][k]

(* A route never promises fewer steps than the shortest path has, whatever *)
(* is lost, cut or restarted: every hop of a frame or of an advertised     *)
(* route adds one step (lora_uart.c:298-300, routing.c:344, 352-353).      *)
NoUnderestimate ==
  \A n, d \in Node : Routes(n, d) => Near(n, d, BestRoute(Router(n), d).steps)

(* Router and node table tell the same about a direct link, through cuts,  *)
(* relinks and the answers heard in between: "tell node the same"          *)
(* (maintenance.c:122-125, 139-142, 154-157, 205-206).                     *)
LinkMirror ==
  \A n, m \in Node : \A i \in SlotsVia(Router(n).best_routing_info[m], m) :
    Router(n).best_routing_info[m][i].link_active = node[n].link_enabled[m]

Settled == \A n \in Node : rx[n] = << >> /\ node[n].MessageQueue = << >>

(* Once every frame has arrived, both ends agree whether their link is     *)
(* cut: "other node unlinked so we can unlink" (maintenance.c:135-143).    *)
CutAgreed ==
  Settled => \A n, m \in Node :
    Up(n) /\ Up(m) => (node[n].link_enabled[m] <=> node[m].link_enabled[n])

(* A newcomer's gbcast makes it and the nodes already up, which connect it *)
(* to each other, known to one another when no frame is lost               *)
(* (main.c:55-56, maintenance.c:69-80).                                    *)
NewcomerLearns ==
  \A n \in Node \ Quiet : Up(n) ~> \A m \in Quiet : Routes(n, m) /\ Routes(m, n)

Chats(n) == {id \in DOMAIN Entries(n) : Entries(n)[id].content = "chat"}

InTransit(n) == {id \in Chats(n) : id[1] # n /\ Entries(n)[id].dst_node \notin {n, NO_ID}}

(* A chat message that reached a node on its way gets to its destination:  *)
(* such a message is "passing through" (data_table.h:10).                  *)
RelayPasses ==
  \A n \in Node :
    InTransit(n) # {} ~> \A id \in InTransit(n) : In(node[Entries(n)[id].dst_node], id)
=============================================================================
