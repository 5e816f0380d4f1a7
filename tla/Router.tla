------------------------------- MODULE Router -------------------------------
(***************************************************************************)
(* The router of one node (main/src/routing.c) as its callers drive it: the *)
(* receive handler (main/src/lora_uart.c) and the maintenance handlers     *)
(* (main/src/maintenance.c), which also keep link_enabled and last_rquery  *)
(* of the node table in step with it.                                      *)
(*                                                                         *)
(* Frames come from the neighbours: a frame is one step old exactly when   *)
(* its sender is its origin.  An answer to an rquery is parsed pair by     *)
(* pair; other tasks may use the router between two pairs, since no lock   *)
(* protects g_router.                                                      *)
(***************************************************************************)
EXTENDS Routing

CONSTANTS
  Self,            (* g_my_address                                         *)
  Neighbor,        (* the nodes within radio range                         *)
  RQUERY_COUNT,    (* pairs in an answer (5 in the code)                   *)
  MaxSteps,        (* bound: steps of a frame or of an advertised route    *)
  MaxAnswer,       (* bound: pairs of an answer received                   *)
  Garbage,         (* values malloc may leave in discovery_seq             *)
  MaxSeq,          (* bound: no update once discovery_seq has reached it   *)
  Origin,          (* bound: the far nodes frames and answers speak of     *)
  Asker,           (* bound: the neighbours that send us an rquery         *)
  Droppable        (* nodes handed to router_bad_intermediate: none by the
                      program, which never calls it                        *)

ASSUME RouterAssumption ==
  /\ Self \in Node
  /\ Neighbor \subseteq Node \ {Self}
  /\ RQUERY_COUNT \in Nat \ {0}
  /\ MaxSteps \in Nat \ {0, 1}
  /\ MaxAnswer \in Nat
  /\ Garbage \subseteq Seq32
  /\ MaxSeq \in Nat
  /\ Origin \subseteq Node
  /\ Asker \subseteq Neighbor
  /\ Droppable \subseteq Node

VARIABLES
  router,         (* g_router                                              *)
  link_enabled,   (* NodeEntry.link_enabled of every node                  *)
  last_rquery,    (* NodeEntry.last_rquery of every node                   *)
  parsing,        (* pairs router_parse_rquery has still to incorporate    *)
  parse_from,     (* the neighbour that sent them                          *)
  unseen          (* history: destinations updated since each asker asked  *)

vars == <<router, link_enabled, last_rquery, parsing, parse_from, unseen>>

Pair == [destination_node : Node, steps : Nat, at : Nat]

TypeOK ==
  /\ router \in RouterType
  /\ link_enabled \in [Node -> BOOLEAN]
  /\ last_rquery \in [Node -> Seq32]
  /\ parsing \in SUBSET Pair
  /\ parse_from \in Node \cup {NO_ID}
  /\ unseen \in [Asker -> SUBSET Node]

Init ==
  /\ \E g \in Garbage : router = create_router(g)
  /\ link_enabled = [n \in Node |-> TRUE]
  /\ last_rquery = [n \in Node |-> 0]
  /\ parsing = {}
  /\ parse_from = NO_ID
  /\ unseen = [n \in Asker |-> {}]

Updated(D) == unseen' = [n \in Asker |-> unseen[n] \cup D]

(* rcv_handler_task hands every frame to router_update.                    *)
Hear(origin, from, steps) ==
  /\ parsing = {}
  /\ router.discovery_seq < MaxSeq
  /\ router' = router_update(router, origin, from, steps)
  /\ Updated({origin, from})
  /\ UNCHANGED <<link_enabled, last_rquery, parsing, parse_from>>

HearFrame ==
  \/ \E from \in Neighbor : Hear(from, from, 1)
  \/ \E from \in Neighbor, origin \in Origin, steps \in 2 .. MaxSteps :
       origin # from /\ Hear(origin, from, steps)

(* A neighbour some frame of which has been through router_update.         *)
Heard(node) == SlotsVia(router.best_routing_info[node], node) # {}

(* handle_maintenance_msg: the answer to our rquery is in, and its frame   *)
(* has just been through router_update.  Its sender left us out of it.     *)
ReceiveAnswer(from, pairs) ==
  /\ parsing = {}
  /\ Heard(from)
  /\ parsing' = pairs
  /\ parse_from' = from
  /\ UNCHANGED <<router, link_enabled, last_rquery, unseen>>

(* One turn of the loop of router_parse_rquery.                            *)
IncorporatePair ==
  /\ router.discovery_seq < MaxSeq
  /\ \E p \in parsing :
       /\ \A q \in parsing : p.at <= q.at
       /\ router' = router_incorporate_rquery(router, parse_from, p.destination_node, p.steps)
       /\ parsing' = parsing \ {p}
       /\ Updated({p.destination_node})
  /\ UNCHANGED <<link_enabled, last_rquery, parse_from>>

(* handle_maintenance_msg, "rquery": answer a neighbour.                   *)
AnswerRquery(requester) ==
  /\ parsing = {}
  /\ Heard(requester)
  /\ last_rquery' = [last_rquery EXCEPT ![requester] = router.discovery_seq]
  /\ unseen' = [unseen EXCEPT ![requester] = {}]
  /\ UNCHANGED <<router, link_enabled, parsing, parse_from>>

(* The receive handler cuts the link with a neighbour it just heard, one   *)
(* step away, on "unlink" or on the "y" that answers ours.                 *)
Unlink(node) ==
  /\ parsing = {}
  /\ Heard(node)
  /\ router' = router_unlink_node(router, node)
  /\ link_enabled' = [link_enabled EXCEPT ![node] = FALSE]
  /\ UNCHANGED <<last_rquery, parsing, parse_from, unseen>>

(* "link" from the neighbour, or SYS+LINK from the web server's task, which *)
(* may come between two pairs of an answer.                                *)
Link(node) ==
  /\ Heard(node)
  /\ router' = router_link_node(router, node)
  /\ link_enabled' = [link_enabled EXCEPT ![node] = TRUE]
  /\ UNCHANGED <<last_rquery, parsing, parse_from, unseen>>

BadIntermediate(node) ==
  /\ router' = router_bad_intermediate(router, node)
  /\ UNCHANGED <<link_enabled, last_rquery, parsing, parse_from, unseen>>

(* Answers of up to MaxAnswer pairs, one per destination.                  *)
Answers(Dest) ==
  {P \in SUBSET [destination_node : Dest, steps : 1 .. (MaxSteps - 1), at : 0 .. (MaxAnswer - 1)] :
     /\ \A p, q \in P : (p.at = q.at \/ p.destination_node = q.destination_node) => p = q
     /\ {p.at : p \in P} = 0 .. (Cardinality(P) - 1)}

Next ==
  \/ HearFrame
  \/ \E from \in Neighbor :
       \E pairs \in Answers(Origin \ {Self}) : ReceiveAnswer(from, pairs)
  \/ IncorporatePair
  \/ \E node \in Neighbor : Unlink(node) \/ Link(node)
  \/ \E node \in Asker : AnswerRquery(node)
  \/ \E node \in Droppable : BadIntermediate(node)

Spec == Init /\ [][Next]_vars

----------------------------------------------------------------------------
(* Properties.                                                             *)

(* A destination never has two slots for one intermediate, so that the     *)
(* first match update_approximation_entry and remove_approximation_entry   *)
(* stop at is the only one (routing.c:102-114, 141-154).                   *)
Unique ==
  \A d \in Node : \A i, j \in Slot :
    LET slots == router.best_routing_info[d]
    IN  /\ slots[i].in_use
        /\ slots[j].in_use
        /\ slots[i].intermediate_node = slots[j].intermediate_node
        => i = j

(* Only a neighbour reached directly is one step away: whatever is learnt  *)
(* through frames and answers, the slot "n through n" says 1 step and      *)
(* every other used slot says 2 or more (routing.c:106-112, 344, 352).     *)
OneStepIsDirect ==
  \A d \in Node : \A i \in Slot :
    LET slot == router.best_routing_info[d][i]
    IN  slot.in_use => IF slot.intermediate_node = d THEN slot.steps = 1 ELSE slot.steps >= 2

(* Learning never evicts the direct slot of a neighbour, however many      *)
(* other ways to it are heard: eviction takes a farthest slot              *)
(* (routing.c:116-130).                                                    *)
DirectSlotKept ==
  [][\A n \in Node :
       Heard(n) => \/ SlotsVia(router'.best_routing_info[n], n) # {}
                   \/ n \in Droppable]_vars

(* The router and the node table tell the same story about a direct link:  *)
(* "tell router ... tell node the same" (maintenance.c:122-125, 139-142,   *)
(* 154-157), also after the slot has been refreshed or others evicted.     *)
DirectMirror ==
  \A n \in Node : \A i \in SlotsVia(router.best_routing_info[n], n) :
    router.best_routing_info[n][i].link_active = link_enabled[n]

(* What was learnt never makes a routed destination unroutable: only a cut *)
(* of a link (or a dropped intermediate) does (routing.c:99-136).          *)
LearningKeepsRoutes ==
  [][(HearFrame \/ IncorporatePair) =>
       \A d \in Node : Routed(router, d) => Routed(router', d)]_vars

(* A way out through a link that is cut is never the one chosen: once the  *)
(* link with n is unlinked in the node table, no message is sent to n as   *)
(* intermediate, since "we should cut the link" (maintenance.c:121-125).   *)
CutLinkNotUsed ==
  \A d \in Node :
    LET via == router_query_intermediate(router, d)
    IN  via # NO_ID => link_enabled[via]

(* What an answer tells a requester: everything routed that was updated    *)
(* since its previous rquery, as far as the answer has room, and nothing   *)
(* older while that has not all been told ("NEW info for this requester",  *)
(* routing.c:258-267).  What had no room is not new any more the next      *)
(* time, for unseen as for last_rquery (routing.c:286): nothing is said of *)
(* it.  Of the time before discovery_seq wraps.                            *)
FreshOffered ==
  \A n \in Asker :
    LET fresh == Offered(router, n, last_rquery[n], RQUERY_COUNT).fresh
    IN  \A d \in unseen[n] \ {n} :
          Routed(router, d) => d \in fresh \/ Cardinality(fresh) = RQUERY_COUNT

(* An answer has room for everything it should say when there are no more  *)
(* than RQUERY_COUNT other destinations: it then holds every routed one,   *)
(* fresh or not (routing.c:253-285).                                       *)
AnswerComplete ==
  \A n \in Neighbor :
    Cardinality(Known(router) \ {n}) <= RQUERY_COUNT =>
      {p.destination_node : p \in router_answer_rquery(router, n, last_rquery[n], RQUERY_COUNT)}
        = {d \in Known(router) \ {n} : Routed(router, d)}
=============================================================================
