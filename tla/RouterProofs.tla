---------------------------- MODULE RouterProofs ----------------------------
(***************************************************************************)
(* Theorems about Router, for any mesh, any number of slots and any bounds. *)
(* What an operation on the router does is in RoutingProofs; here every    *)
(* step of the node is seen to be such an operation.                       *)
(*                                                                         *)
(* The last part shows that the slots of Router implement the sets of ways *)
(* of RouteStore.  A slot in use stands for one way.  With one slot per    *)
(* intermediate two slots never stand for the same way, so that a free     *)
(* slot means room in the set, and overwriting a slot takes just its way   *)
(* out of the set.                                                         *)
(***************************************************************************)
EXTENDS RouterRefinement, RoutingProofs, FiniteSetTheorems

----------------------------------------------------------------------------
(* Types.                                                                  *)

LEMMA TypeInit == Init => TypeOK
<1>. SUFFICES ASSUME Init PROVE TypeOK  OBVIOUS
<1>1. router \in RouterType  BY CreateType, RouterAssumption DEF Init
<1>2. 0 \in Seq32  BY RoutingAssumption DEF Seq32
<1>. QED  BY <1>1, <1>2 DEF Init, TypeOK

LEMMA TypeStep == TypeOK /\ [Next]_vars => TypeOK'
<1>. SUFFICES ASSUME TypeOK, [Next]_vars PROVE TypeOK'  OBVIOUS
<1>. USE DEF TypeOK
<1>1. ASSUME NEW from \in Neighbor, NEW origin \in Node, NEW steps \in Nat,
             Hear(origin, from, steps)
      PROVE  TypeOK'
  <2>1. from \in Node  BY RouterAssumption
  <2>2. router' \in RouterType  BY <1>1, <2>1, RouterUpdateType DEF Hear
  <2>3. unseen' \in [Asker -> SUBSET Node]  BY <1>1, <2>1 DEF Hear, Updated
  <2>. QED  BY <1>1, <2>2, <2>3 DEF Hear
<1>2. CASE HearFrame
  <2>1. ASSUME NEW from \in Neighbor, Hear(from, from, 1) PROVE TypeOK'
    <3>1. from \in Node /\ 1 \in Nat  BY RouterAssumption
    <3>. QED  BY <1>1, <2>1, <3>1
  <2>2. ASSUME NEW from \in Neighbor, NEW origin \in Origin, NEW steps \in 2 .. MaxSteps,
               Hear(origin, from, steps)
        PROVE  TypeOK'
    <3>1. origin \in Node /\ steps \in Nat  BY RouterAssumption
    <3>. QED  BY <1>1, <2>2, <3>1
  <2>. QED  BY <1>2, <2>1, <2>2 DEF HearFrame
<1>3. ASSUME NEW from \in Neighbor, NEW pairs \in Answers(Origin \ {Self}),
             ReceiveAnswer(from, pairs)
      PROVE  TypeOK'
  <2>1. pairs \subseteq [destination_node : Origin \ {Self}, steps : 1 .. (MaxSteps - 1),
                         at : 0 .. (MaxAnswer - 1)]
    BY DEF Answers
  <2>2. pairs \subseteq Pair  BY <2>1, RouterAssumption DEF Pair
  <2>3. from \in Node  BY RouterAssumption
  <2>. QED  BY <1>3, <2>2, <2>3 DEF ReceiveAnswer
<1>4. CASE IncorporatePair
  <2>1. PICK p \in parsing :
          /\ router' = router_incorporate_rquery(router, parse_from, p.destination_node, p.steps)
          /\ parsing' = parsing \ {p}
          /\ Updated({p.destination_node})
    BY <1>4 DEF IncorporatePair
  <2>2. p.destination_node \in Node /\ p.steps \in Nat  BY DEF Pair
  <2>3. router' \in RouterType  BY <2>1, <2>2, IncorporateType
  <2>4. unseen' \in [Asker -> SUBSET Node]  BY <2>1, <2>2 DEF Updated
  <2>. QED  BY <1>4, <2>1, <2>3, <2>4 DEF IncorporatePair
<1>5. ASSUME NEW node \in Asker, AnswerRquery(node) PROVE TypeOK'
  <2>1. router.discovery_seq \in Seq32  BY DEF RouterType
  <2>. QED  BY <1>5, <2>1 DEF AnswerRquery
<1>6. ASSUME NEW node \in Neighbor, Unlink(node) PROVE TypeOK'
  <2>1. router' \in RouterType
    BY <1>6, RouterAssumption, SetLinkType DEF Unlink, router_unlink_node
  <2>. QED  BY <1>6, <2>1 DEF Unlink
<1>7. ASSUME NEW node \in Neighbor, Link(node) PROVE TypeOK'
  <2>1. router' \in RouterType
    BY <1>7, RouterAssumption, SetLinkType DEF Link, router_link_node
  <2>. QED  BY <1>7, <2>1 DEF Link
<1>8. ASSUME NEW node \in Droppable, BadIntermediate(node) PROVE TypeOK'
  <2>1. router' \in RouterType
    BY <1>8, RouterAssumption, BadIntermediateType DEF BadIntermediate
  <2>. QED  BY <1>8, <2>1 DEF BadIntermediate
<1>9. CASE UNCHANGED vars
  BY <1>9 DEF vars
<1>. QED  BY <1>2, <1>3, <1>4, <1>5, <1>6, <1>7, <1>8, <1>9 DEF Next

(* Every variable keeps its type: in particular a slot, a step count and   *)
(* discovery_seq stay in range whatever frames, answers and link changes   *)
(* come, in any order (all of routing.c but the answer to an rquery).      *)
THEOREM TypeCorrect == Spec => []TypeOK
  BY TypeInit, TypeStep, PTL DEF Spec

----------------------------------------------------------------------------
(* One slot per intermediate.                                              *)

(* So do the initial states and every step.                                *)
LEMMA UniqueInit == Init => Unique
<1>. SUFFICES ASSUME Init PROVE Unique  OBVIOUS
<1>1. PICK g \in Garbage : router = create_router(g)  BY DEF Init
<1>2. \A d \in Node : \A i \in Slot : ~ router.best_routing_info[d][i].in_use
  BY <1>1 DEF create_router, FreeSlot
<1>. QED  BY <1>2 DEF Unique

LEMMA UniqueStep == TypeOK /\ Unique /\ [Next]_vars => Unique'
<1>1. Unique <=> AllOneEach(router)
  BY DEF Unique, AllOneEach, OneEach
<1>2. Unique' <=> AllOneEach(router')
  BY DEF Unique, AllOneEach, OneEach
<1>. SUFFICES ASSUME TypeOK, AllOneEach(router), [Next]_vars PROVE AllOneEach(router')
  BY <1>1, <1>2
<1>3. router \in RouterType  BY DEF TypeOK
<1>4. CASE HearFrame
  <2>1. PICK from \in Neighbor, origin \in Node, steps \in Nat : Hear(origin, from, steps)
    BY <1>4, RouterAssumption DEF HearFrame
  <2>2. from \in Node  BY RouterAssumption
  <2>. QED  BY <1>3, <2>1, <2>2, RouterUpdateOneEach DEF Hear
<1>5. CASE IncorporatePair
  <2>1. PICK p \in parsing :
          router' = router_incorporate_rquery(router, parse_from, p.destination_node, p.steps)
    BY <1>5 DEF IncorporatePair
  <2>2. p.destination_node \in Node /\ p.steps \in Nat  BY DEF TypeOK, Pair
  <2>3. parse_from \in Node \cup {NO_ID}  BY DEF TypeOK
  <2>. QED  BY <1>3, <2>1, <2>2, <2>3, IncorporateOneEach
<1>6. ASSUME NEW node \in Neighbor, Unlink(node) \/ Link(node) PROVE AllOneEach(router')
  BY <1>3, <1>6, RouterAssumption, SetLinkOneEach
  DEF Unlink, Link, router_unlink_node, router_link_node
<1>7. ASSUME NEW node \in Droppable, BadIntermediate(node) PROVE AllOneEach(router')
  BY <1>3, <1>7, RouterAssumption, BadIntermediateOneEach DEF BadIntermediate
<1>8. ASSUME router' = router PROVE AllOneEach(router')
  BY <1>8
<1>. QED  BY <1>4, <1>5, <1>6, <1>7, <1>8 DEF Next, ReceiveAnswer, AnswerRquery, vars

(* No destination ever has two slots for one intermediate, so the first    *)
(* match that the searches of routing.c stop at is the only one.           *)
THEOREM UniqueAlways == Spec => []Unique
  BY TypeInit, TypeStep, UniqueInit, UniqueStep, PTL DEF Spec

LEMMA LearningStep ==
  TypeOK /\ (HearFrame \/ IncorporatePair) =>
    \A e \in Node : Routed(router, e) => Routed(router', e)
<1>. SUFFICES ASSUME TypeOK, HearFrame \/ IncorporatePair, NEW e \in Node, Routed(router, e)
              PROVE  Routed(router', e)
  OBVIOUS
<1>1. router \in RouterType  BY DEF TypeOK
<1>2. CASE HearFrame
  <2>1. PICK from \in Node, origin \in Node, steps \in Nat : Hear(origin, from, steps)
    BY <1>2, RouterAssumption DEF HearFrame
  <2>. DEFINE known == get_destination_approximator(get_destination_approximator(router, from), origin)
              direct == update_approximation_entry(known, from, from, 1)
  <2>2. known \in RouterType /\ Routed(known, e)
    BY <1>1, DestinationType, DestinationRouted
  <2>. HIDE DEF known
  <2>3. direct \in RouterType /\ Routed(direct, e)
    BY <2>2, UpdateType, UpdateRouted
  <2>. HIDE DEF direct
  <2>4. Routed(update_approximation_entry(direct, origin, from, steps), e)
    BY <2>3, UpdateRouted
  <2>. QED  BY <2>1, <2>4 DEF Hear, router_update, known, direct
<1>3. CASE IncorporatePair
  <2>1. PICK p \in parsing :
          router' = router_incorporate_rquery(router, parse_from, p.destination_node, p.steps)
    BY <1>3 DEF IncorporatePair
  <2>2. p.destination_node \in Node /\ p.steps + 1 \in Nat  BY DEF TypeOK, Pair
  <2>3. parse_from \in Node \cup {NO_ID}  BY DEF TypeOK
  <2>. DEFINE known == get_destination_approximator(router, p.destination_node)
  <2>4. known \in RouterType /\ Routed(known, e)
    BY <1>1, <2>2, DestinationType, DestinationRouted
  <2>. HIDE DEF known
  <2>5. Routed(update_approximation_entry(known, p.destination_node, parse_from, p.steps + 1), e)
    BY <2>2, <2>3, <2>4, UpdateRouted
  <2>. QED  BY <2>1, <2>5 DEF router_incorporate_rquery, known
<1>. QED  BY <1>2, <1>3

(* Learning never makes a routed destination unroutable, whichever slot is *)
(* evicted (update_approximation_entry, routing.c:99-136).                 *)
THEOREM RoutesAreKept == Spec => LearningKeepsRoutes
<1>1. TypeOK /\ [Next]_vars =>
        [(HearFrame \/ IncorporatePair) =>
           \A d \in Node : Routed(router, d) => Routed(router', d)]_vars
  BY LearningStep
<1>. QED  BY <1>1, TypeCorrect, PTL DEF Spec, LearningKeepsRoutes

----------------------------------------------------------------------------
(* The direct slot of a neighbour.  An approximator must have a slot besides *)
(* the direct one for an eviction to spare it, and the program drops no     *)
(* intermediate: it never calls router_bad_intermediate.                    *)

SlotToSpare == MAX_ROUTING_ENTRIES >= 2 /\ Droppable = {}

(* The inductive invariant.  Pairs being parsed come from a neighbour that *)
(* was heard: without that, its own pair could fill its direct slot with   *)
(* more than one step.                                                     *)
DirectInv ==
  /\ TypeOK
  /\ Sound(router, link_enabled)
  /\ parsing # {} => parse_from \in Node /\ HeardBy(router, parse_from)
  /\ \A p \in parsing : p.steps >= 1

LEMMA DirectInit == Init => DirectInv
<1>. SUFFICES ASSUME Init PROVE DirectInv  OBVIOUS
<1>1. TypeOK  BY TypeInit
<1>2. PICK g \in Garbage : router = create_router(g)  BY DEF Init
<1>3. \A d \in Node : \A i \in Slot : ~ router.best_routing_info[d][i].in_use
  BY <1>2 DEF create_router, FreeSlot
<1>4. AllOneEach(router)  BY <1>3 DEF AllOneEach, OneEach
<1>5. \A d \in Node : StepsTell(router.best_routing_info[d], d)  BY <1>3 DEF StepsTell
<1>6. Mirrors(router, link_enabled)  BY <1>3 DEF Init, Mirrors, SlotsVia
<1>. QED  BY <1>1, <1>4, <1>5, <1>6 DEF Init, DirectInv, Sound

(* One step keeps the invariant and forgets no neighbour.                  *)
LEMMA DirectStep ==
  ASSUME SlotToSpare, DirectInv, [Next]_vars
  PROVE  /\ DirectInv'
         /\ \A n \in Node : HeardBy(router, n) => HeardBy(router', n)
<1>. DEFINE Goal == /\ Sound(router', link_enabled')
                    /\ \A n \in Node : HeardBy(router, n) => HeardBy(router', n)
<1>0. MAX_ROUTING_ENTRIES >= 2  BY RouterAssumption DEF SlotToSpare
<1>1. TypeOK'  BY TypeStep DEF DirectInv
<1>2. /\ router \in RouterType
      /\ link_enabled \in [Node -> BOOLEAN]
      /\ parsing \subseteq Pair
      /\ Sound(router, link_enabled)
  BY DEF DirectInv, TypeOK
<1>3. \A n \in Node : Heard(n) <=> HeardBy(router, n)  BY DEF Heard, HeardBy
<1>4. CASE HearFrame
  <2>1. PICK from \in Node, origin \in Node, steps \in Nat :
          Hear(origin, from, steps) /\ IF origin = from THEN steps = 1 ELSE steps >= 2
    <3>1. ASSUME NEW from \in Neighbor, Hear(from, from, 1)
          PROVE  \E f \in Node, o \in Node, s \in Nat :
                   Hear(o, f, s) /\ IF o = f THEN s = 1 ELSE s >= 2
      BY <3>1, RouterAssumption
    <3>2. ASSUME NEW from \in Neighbor, NEW origin \in Origin, NEW steps \in 2 .. MaxSteps,
                 origin # from, Hear(origin, from, steps)
          PROVE  \E f \in Node, o \in Node, s \in Nat :
                   Hear(o, f, s) /\ IF o = f THEN s = 1 ELSE s >= 2
      <4>1. from \in Node /\ origin \in Node /\ steps \in Nat /\ steps >= 2
        BY RouterAssumption
      <4>. QED  BY <3>2, <4>1
    <3>. QED  BY <1>4, <3>1, <3>2 DEF HearFrame
  <2>2. Goal
    <3>1. origin # from => steps >= 2  BY <2>1
    <3>2. router' = router_update(router, origin, from, steps) /\ link_enabled' = link_enabled
      BY <2>1 DEF Hear
    <3>. QED  BY <1>0, <1>2, <3>1, <3>2, HearSound
  <2>3. parsing' = {}  BY <2>1 DEF Hear
  <2>. QED  BY <1>1, <2>2, <2>3 DEF DirectInv
<1>5. ASSUME NEW from \in Neighbor, NEW pairs \in Answers(Origin \ {Self}),
             ReceiveAnswer(from, pairs)
      PROVE  DirectInv' /\ Goal
  <2>1. Goal  BY <1>2, <1>5 DEF ReceiveAnswer
  <2>2. from \in Node /\ HeardBy(router, from)
    BY <1>3, <1>5, RouterAssumption DEF ReceiveAnswer
  <2>3. \A p \in pairs : p.steps >= 1  BY RouterAssumption DEF Answers
  <2>. QED  BY <1>1, <1>5, <2>1, <2>2, <2>3 DEF ReceiveAnswer, DirectInv
<1>6. CASE IncorporatePair
  <2>1. PICK p \in parsing :
          /\ router' = router_incorporate_rquery(router, parse_from, p.destination_node, p.steps)
          /\ parsing' = parsing \ {p}
    BY <1>6 DEF IncorporatePair
  <2>2. p.destination_node \in Node /\ p.steps \in Nat /\ p.steps >= 1
    BY <1>2 DEF Pair, DirectInv
  <2>3. parse_from \in Node /\ HeardBy(router, parse_from)  BY DEF DirectInv
  <2>4. link_enabled' = link_enabled /\ parse_from' = parse_from  BY <1>6 DEF IncorporatePair
  <2>5. Goal  BY <1>0, <1>2, <2>1, <2>2, <2>3, <2>4, IncorporateSound
  <2>6. \A q \in parsing' : q.steps >= 1  BY <2>1 DEF DirectInv
  <2>. QED  BY <1>1, <2>3, <2>4, <2>5, <2>6 DEF DirectInv
<1>7. ASSUME NEW node \in Neighbor, Unlink(node) \/ Link(node)
      PROVE  DirectInv' /\ Goal
  <2>1. node \in Node /\ HeardBy(router, node)
    BY <1>3, <1>7, RouterAssumption DEF Unlink, Link
  <2>2. PICK active \in BOOLEAN :
          /\ router' = SetLink(router, node, active)
          /\ link_enabled' = [link_enabled EXCEPT ![node] = active]
    BY <1>7 DEF Unlink, Link, router_unlink_node, router_link_node
  <2>3. Goal  BY <1>2, <2>1, <2>2, SetLinkSound
  <2>4. parsing' = parsing /\ parse_from' = parse_from  BY <1>7 DEF Unlink, Link
  <2>. QED  BY <1>1, <2>3, <2>4 DEF DirectInv
<1>8. ASSUME NEW node \in Asker, AnswerRquery(node)
      PROVE  DirectInv' /\ Goal
  <2>1. /\ router' = router /\ link_enabled' = link_enabled
        /\ parsing' = parsing /\ parse_from' = parse_from
    BY <1>8 DEF AnswerRquery
  <2>. QED  BY <1>1, <1>2, <2>1 DEF DirectInv
<1>9. CASE UNCHANGED vars
  BY <1>1, <1>2, <1>9 DEF vars, DirectInv
<1>. QED  BY <1>4, <1>5, <1>6, <1>7, <1>8, <1>9 DEF Next, SlotToSpare

(* The strengthening of the three theorems below is inductive, when there  *)
(* is a slot to spare and no intermediate is dropped.                      *)
THEOREM DirectInvariant == SlotToSpare => (Spec => []DirectInv)
<1>. SUFFICES ASSUME SlotToSpare PROVE Spec => []DirectInv  OBVIOUS
<1>1. DirectInv /\ [Next]_vars => DirectInv'
  BY DirectStep
<1>. QED  BY <1>1, DirectInit, PTL DEF Spec

(* Only a direct slot is one step away, and it always is: what frames and  *)
(* answers teach never makes a far node look like a neighbour              *)
(* (routing.c:106-112, 344, 352).                                          *)
THEOREM OneStepAlwaysDirect == SlotToSpare => (Spec => []OneStepIsDirect)
<1>1. DirectInv => OneStepIsDirect
  BY DEF DirectInv, Sound, StepsTell, OneStepIsDirect
<1>. QED  BY <1>1, DirectInvariant, PTL

(* The flag of a direct slot is the node table's, after any sequence of    *)
(* frames, answers, unlinks and links (maintenance.c:122-125, 139-157).    *)
THEOREM MirrorAlways == SlotToSpare => (Spec => []DirectMirror)
<1>1. DirectInv => DirectMirror
  BY DEF DirectInv, Sound, Mirrors, DirectMirror
<1>. QED  BY <1>1, DirectInvariant, PTL

(* A neighbour once heard keeps its direct slot, however many other ways   *)
(* to it are learnt (the eviction of routing.c:116-130).                   *)
THEOREM DirectNeverEvicted == SlotToSpare => (Spec => DirectSlotKept)
<1>. SUFFICES ASSUME SlotToSpare PROVE Spec => DirectSlotKept  OBVIOUS
<1>1. DirectInv /\ [Next]_vars =>
        [\A n \in Node : Heard(n) => \/ SlotsVia(router'.best_routing_info[n], n) # {}
                                     \/ n \in Droppable]_vars
  BY DirectStep DEF Heard, HeardBy
<1>. QED  BY <1>1, DirectInvariant, PTL DEF Spec, DirectSlotKept

----------------------------------------------------------------------------
(* Answers.                                                                *)

(* An answer with room for every other destination the node knows holds    *)
(* every one of them that is routed, fresh or not (routing.c:253-285).     *)
THEOREM AnswersComplete == Spec => []AnswerComplete
<1>1. TypeOK => AnswerComplete
  <2>. SUFFICES ASSUME TypeOK, NEW n \in Neighbor, Cardinality(Known(router) \ {n}) <= RQUERY_COUNT
                PROVE  {p.destination_node :
                          p \in router_answer_rquery(router, n, last_rquery[n], RQUERY_COUNT)}
                         = {d \in Known(router) \ {n} : Routed(router, d)}
    BY DEF AnswerComplete
  <2>1. router \in RouterType /\ RQUERY_COUNT \in Nat  BY RouterAssumption DEF TypeOK
  <2>. QED  BY <2>1, AnswerHasAll
<1>. QED  BY <1>1, TypeCorrect, PTL

(* discovery_seq, which dates the updates, does not come round: 2^32 of    *)
(* them would.  A frame makes two, so the last may reach MaxSeq + 1.       *)
NoWrap == MaxSeq + 1 < SeqWrap

(* What was updated since the last answer is dated after it.               *)
FreshInv ==
  /\ TypeOK
  /\ \A n \in Asker : last_rquery[n] <= router.discovery_seq
  /\ \A n \in Asker : \A d \in unseen[n] :
       d \in Known(router) /\ router.last_updated_seq[d] > last_rquery[n]

(* An update that is dated after those before it.                          *)
LEMMA UpdateDates ==
  ASSUME NEW r \in RouterType, r.discovery_seq + 1 < SeqWrap,
         NEW d \in Node, NEW via \in Node \cup {NO_ID}, NEW steps \in Nat
  PROVE  LET new == update_approximation_entry(r, d, via, steps)
         IN  /\ new \in RouterType /\ Known(new) = Known(r)
             /\ new.discovery_seq = r.discovery_seq + 1
             /\ new.last_updated_seq[d] = new.discovery_seq
             /\ \A e \in Node : e # d => new.last_updated_seq[e] = r.last_updated_seq[e]
<1>. DEFINE new == update_approximation_entry(r, d, via, steps)
<1>1. new \in RouterType  BY UpdateType
<1>2. Known(new) = Known(r)  BY DEF update_approximation_entry, Known
<1>3. r.discovery_seq \in Nat  BY DEF RouterType, Seq32
<1>4. (r.discovery_seq + 1) % SeqWrap = r.discovery_seq + 1  BY <1>3, RoutingAssumption
<1>5. /\ new.discovery_seq = (r.discovery_seq + 1) % SeqWrap
      /\ new.last_updated_seq = [r.last_updated_seq EXCEPT ![d] = (r.discovery_seq + 1) % SeqWrap]
  BY DEF update_approximation_entry
<1>6. r.last_updated_seq \in [Node -> Seq32]  BY DEF RouterType
<1>. HIDE DEF new
<1>. QED  BY <1>1, <1>2, <1>4, <1>5, <1>6 DEF new

LEMMA DestinationDates ==
  ASSUME NEW r \in RouterType, NEW d \in Node
  PROVE  LET new == get_destination_approximator(r, d)
         IN  /\ new \in RouterType /\ Known(new) = Known(r) \cup {d}
             /\ new.discovery_seq = r.discovery_seq
             /\ new.last_updated_seq = r.last_updated_seq
<1>1. /\ get_destination_approximator(r, d).discovery_seq = r.discovery_seq
      /\ get_destination_approximator(r, d).last_updated_seq = r.last_updated_seq
  BY DEF get_destination_approximator, RouterType
<1>. QED  BY <1>1, DestinationType, DestinationKnown

(* Dates that only grow, for the updated D and for no one else.            *)
Dated(r, new, D) ==
  /\ new \in RouterType /\ Known(new) = Known(r) \cup D
  /\ new.discovery_seq >= r.discovery_seq
  /\ \A e \in Node : IF e \in D THEN new.last_updated_seq[e] > r.discovery_seq
                    ELSE new.last_updated_seq[e] = r.last_updated_seq[e]

LEMMA HearDates ==
  ASSUME NEW r \in RouterType, r.discovery_seq + 2 < SeqWrap,
         NEW origin \in Node, NEW from \in Node, NEW steps \in Nat
  PROVE  Dated(r, router_update(r, origin, from, steps), {origin, from})
<1>. DEFINE first  == get_destination_approximator(r, from)
            known  == get_destination_approximator(first, origin)
            direct == update_approximation_entry(known, from, from, 1)
            new    == update_approximation_entry(direct, origin, from, steps)
<1>0. r.discovery_seq \in Nat /\ SeqWrap \in Nat /\ 1 \in Nat /\ from \in Node \cup {NO_ID}
  BY RoutingAssumption DEF RouterType, Seq32
<1>1. /\ first \in RouterType /\ Known(first) = Known(r) \cup {from}
      /\ first.discovery_seq = r.discovery_seq /\ first.last_updated_seq = r.last_updated_seq
  BY DestinationDates
<1>. HIDE DEF first
<1>2. /\ known \in RouterType /\ Known(known) = Known(r) \cup {from, origin}
      /\ known.discovery_seq = r.discovery_seq /\ known.last_updated_seq = r.last_updated_seq
  BY <1>1, DestinationDates
<1>. HIDE DEF known
<1>3. known.discovery_seq + 1 < SeqWrap  BY <1>0, <1>2
<1>4. /\ direct \in RouterType /\ Known(direct) = Known(known)
      /\ direct.discovery_seq = r.discovery_seq + 1
      /\ direct.last_updated_seq[from] = r.discovery_seq + 1
      /\ \A e \in Node : e # from => direct.last_updated_seq[e] = r.last_updated_seq[e]
  BY <1>0, <1>2, <1>3, UpdateDates
<1>. HIDE DEF direct
<1>5. direct.discovery_seq + 1 < SeqWrap  BY <1>0, <1>4
<1>6. /\ new \in RouterType /\ Known(new) = Known(direct)
      /\ new.discovery_seq = direct.discovery_seq + 1
      /\ new.last_updated_seq[origin] = new.discovery_seq
      /\ \A e \in Node : e # origin => new.last_updated_seq[e] = direct.last_updated_seq[e]
  BY <1>0, <1>4, <1>5, UpdateDates
<1>7. new = router_update(r, origin, from, steps)  BY DEF router_update, first, known, direct
<1>. HIDE DEF new
<1>. QED  BY <1>0, <1>2, <1>4, <1>6, <1>7 DEF Dated

LEMMA IncorporateDates ==
  ASSUME NEW r \in RouterType, r.discovery_seq + 1 < SeqWrap,
         NEW from \in Node \cup {NO_ID}, NEW dest \in Node, NEW steps \in Nat
  PROVE  Dated(r, router_incorporate_rquery(r, from, dest, steps), {dest})
<1>. DEFINE known == get_destination_approximator(r, dest)
            new   == update_approximation_entry(known, dest, from, steps + 1)
<1>0. r.discovery_seq \in Nat /\ SeqWrap \in Nat /\ steps + 1 \in Nat
  BY RoutingAssumption DEF RouterType, Seq32
<1>1. /\ known \in RouterType /\ Known(known) = Known(r) \cup {dest}
      /\ known.discovery_seq = r.discovery_seq /\ known.last_updated_seq = r.last_updated_seq
  BY DestinationDates
<1>. HIDE DEF known
<1>2. /\ new \in RouterType /\ Known(new) = Known(known)
      /\ new.discovery_seq = known.discovery_seq + 1
      /\ new.last_updated_seq[dest] = new.discovery_seq
      /\ \A e \in Node : e # dest => new.last_updated_seq[e] = known.last_updated_seq[e]
  BY <1>0, <1>1, UpdateDates
<1>3. new = router_incorporate_rquery(r, from, dest, steps)  BY DEF router_incorporate_rquery, known
<1>. HIDE DEF new
<1>. QED  BY <1>0, <1>1, <1>2, <1>3 DEF Dated

LEMMA FreshLearn ==
  ASSUME FreshInv, NEW D \in SUBSET Node, Dated(router, router', D), Updated(D),
         last_rquery' = last_rquery, TypeOK'
  PROVE  FreshInv'
<1>1. router.discovery_seq \in Nat /\ router'.discovery_seq \in Nat
      /\ \A n \in Node : last_rquery[n] \in Nat
  BY RoutingAssumption DEF FreshInv, TypeOK, RouterType, Seq32
<1>2. \A d \in Node : router.last_updated_seq[d] \in Nat /\ router'.last_updated_seq[d] \in Nat
  BY RoutingAssumption DEF FreshInv, TypeOK, RouterType, Seq32
<1>3. Asker \subseteq Node  BY RouterAssumption
<1>4. \A n \in Asker : last_rquery'[n] <= router'.discovery_seq
  BY <1>1, <1>3 DEF FreshInv, Dated
<1>5. ASSUME NEW n \in Asker, NEW d \in unseen'[n]
      PROVE  d \in Known(router') /\ router'.last_updated_seq[d] > last_rquery'[n]
  <2>1. unseen'[n] = unseen[n] \cup D  BY DEF Updated
  <2>2. CASE d \in D
    BY <1>1, <1>2, <1>3, <2>2 DEF FreshInv, Dated
  <2>3. CASE d \notin D
    <3>1. d \in Known(router) /\ router.last_updated_seq[d] > last_rquery[n]
      BY <2>1, <2>3 DEF FreshInv
    <3>2. d \in Node  BY <3>1, KnownFinite DEF FreshInv, TypeOK
    <3>. QED  BY <2>3, <3>1, <3>2 DEF Dated
  <2>. QED  BY <2>2, <2>3
<1>. QED  BY <1>4, <1>5 DEF FreshInv

LEMMA FreshStep == NoWrap /\ FreshInv /\ [Next]_vars => FreshInv'
<1>. SUFFICES ASSUME NoWrap, FreshInv, [Next]_vars PROVE FreshInv'  OBVIOUS
<1>1. TypeOK'  BY TypeStep DEF FreshInv
<1>2. router \in RouterType /\ parsing \subseteq Pair  BY DEF FreshInv, TypeOK
<1>3. router.discovery_seq \in Nat /\ MaxSeq \in Nat /\ SeqWrap \in Nat
  BY <1>2, RouterAssumption, RoutingAssumption DEF RouterType, Seq32
<1>4. ASSUME NEW from \in Node, NEW origin \in Node, NEW steps \in Nat, Hear(origin, from, steps)
      PROVE  FreshInv'
  <2>1. router.discovery_seq + 2 < SeqWrap  BY <1>3, <1>4 DEF Hear, NoWrap
  <2>2. Dated(router, router', {origin, from})  BY <1>2, <1>4, <2>1, HearDates DEF Hear
  <2>. QED  BY <1>1, <1>4, <2>2, FreshLearn DEF Hear
<1>5. CASE HearFrame
  <2>1. ASSUME NEW from \in Neighbor, Hear(from, from, 1) PROVE FreshInv'
    <3>1. from \in Node /\ 1 \in Nat  BY RouterAssumption
    <3>. QED  BY <1>4, <2>1, <3>1
  <2>2. ASSUME NEW from \in Neighbor, NEW origin \in Origin, NEW steps \in 2 .. MaxSteps,
               Hear(origin, from, steps)
        PROVE  FreshInv'
    <3>1. from \in Node /\ origin \in Node /\ steps \in Nat  BY RouterAssumption
    <3>. QED  BY <1>4, <2>2, <3>1
  <2>. QED  BY <1>5, <2>1, <2>2 DEF HearFrame
<1>6. CASE IncorporatePair
  <2>1. PICK p \in parsing :
          /\ router' = router_incorporate_rquery(router, parse_from, p.destination_node, p.steps)
          /\ Updated({p.destination_node})
    BY <1>6 DEF IncorporatePair
  <2>2. p.destination_node \in Node /\ p.steps \in Nat  BY <1>2 DEF Pair
  <2>3. router.discovery_seq + 1 < SeqWrap /\ last_rquery' = last_rquery
    BY <1>3, <1>6 DEF IncorporatePair, NoWrap
  <2>4. Dated(router, router', {p.destination_node})
    <3>1. parse_from \in Node \cup {NO_ID}  BY DEF FreshInv, TypeOK
    <3>. QED  BY <1>2, <2>1, <2>2, <2>3, <3>1, IncorporateDates
  <2>. QED  BY <1>1, <2>1, <2>2, <2>3, <2>4, FreshLearn
<1>7. ASSUME NEW node \in Asker, AnswerRquery(node) PROVE FreshInv'
  <2>1. /\ router' = router /\ last_rquery' = [last_rquery EXCEPT ![node] = router.discovery_seq]
        /\ unseen' = [unseen EXCEPT ![node] = {}]
    BY <1>7 DEF AnswerRquery
  <2>2. last_rquery \in [Node -> Seq32] /\ unseen \in [Asker -> SUBSET Node] /\ Asker \subseteq Node
    BY RouterAssumption DEF FreshInv, TypeOK
  <2>. QED  BY <1>1, <1>3, <2>1, <2>2 DEF FreshInv
<1>8. ASSUME \/ \E node \in Neighbor : Unlink(node) \/ Link(node)
             \/ \E node \in Droppable : BadIntermediate(node)
             \/ \E from \in Neighbor :
                  \E pairs \in Answers(Origin \ {Self}) : ReceiveAnswer(from, pairs)
             \/ UNCHANGED vars
      PROVE  FreshInv'
  <2>1. last_rquery' = last_rquery /\ unseen' = unseen
    BY <1>8 DEF Unlink, Link, BadIntermediate, ReceiveAnswer, vars
  <2>2. \/ router' = router
        \/ \E node, active : router' = SetLink(router, node, active)
        \/ \E node : router' = router_bad_intermediate(router, node)
    BY <1>8 DEF Unlink, Link, BadIntermediate, ReceiveAnswer, vars, router_unlink_node, router_link_node
  <2>3. /\ router'.discovery_seq = router.discovery_seq
        /\ router'.last_updated_seq = router.last_updated_seq
        /\ router'.destination_list = router.destination_list
    BY <1>2, <2>2 DEF SetLink, router_bad_intermediate, RouterType
  <2>4. Known(router') = Known(router)  BY <2>3 DEF Known
  <2>. QED  BY <1>1, <2>1, <2>3, <2>4 DEF FreshInv
<1>. QED  BY <1>5, <1>6, <1>7, <1>8 DEF Next

(* A requester is told everything routed that was updated since it last    *)
(* asked, as far as an answer has room ("NEW info for this requester",     *)
(* routing.c:258-267).                                                     *)
THEOREM FreshAlwaysOffered == NoWrap => (Spec => []FreshOffered)
<1>. SUFFICES ASSUME NoWrap PROVE Spec => []FreshOffered  OBVIOUS
<1>1. Init => FreshInv
  <2>. SUFFICES ASSUME Init PROVE FreshInv  OBVIOUS
  <2>1. TypeOK  BY TypeInit
  <2>2. router.discovery_seq \in Nat  BY <2>1, RoutingAssumption DEF TypeOK, RouterType, Seq32
  <2>3. Asker \subseteq Node  BY RouterAssumption
  <2>4. \A n \in Asker : last_rquery[n] = 0 /\ unseen[n] = {}  BY <2>3 DEF Init
  <2>. QED  BY <2>1, <2>2, <2>4 DEF FreshInv
<1>2. FreshInv => FreshOffered
  <2>. SUFFICES ASSUME FreshInv, NEW n \in Asker, NEW d \in unseen[n] \ {n}, Routed(router, d)
                PROVE  LET fresh == Offered(router, n, last_rquery[n], RQUERY_COUNT).fresh
                       IN  d \in fresh \/ Cardinality(fresh) = RQUERY_COUNT
    BY DEF FreshOffered
  <2>1. router \in RouterType /\ RQUERY_COUNT \in Nat  BY RouterAssumption DEF FreshInv, TypeOK
  <2>2. d \in Known(router) \ {n} /\ router.last_updated_seq[d] > last_rquery[n]  BY DEF FreshInv
  <2>. QED  BY <2>1, <2>2, FreshFirst
<1>. QED  BY <1>1, <1>2, FreshStep, PTL DEF Spec

----------------------------------------------------------------------------
(* The slots implement the store.                                          *)

(* The way a slot stands for.                                              *)
WayOf(slot) ==
  [via |-> slot.intermediate_node, steps |-> slot.steps, active |-> slot.link_active]

LEMMA WaysOfUsed ==
  ASSUME NEW slots
  PROVE  Ways(slots) = {WayOf(slots[i]) : i \in UsedSlots(slots)}
<1>1. Slot \ FreeSlots(slots) = UsedSlots(slots)
  BY DEF FreeSlots, UsedSlots
<1>. QED  BY <1>1 DEF Ways, WayOf

(* The ways through an intermediate are those of its slots.                *)
LEMMA WaysVia ==
  ASSUME NEW slots \in DestinationApproximator, NEW via
  PROVE  {x \in Ways(slots) : x.via = via} = {WayOf(slots[i]) : i \in SlotsVia(slots, via)}
  BY WaysOfUsed DEF UsedSlots, SlotsVia, WayOf

(* Different slots in use stand for different ways.                        *)
LEMMA WayOfOneSlot ==
  ASSUME NEW slots, OneEach(slots),
         NEW i \in UsedSlots(slots), NEW j \in UsedSlots(slots),
         WayOf(slots[i]) = WayOf(slots[j])
  PROVE  i = j
<1>1. WayOf(slots[i]).via = WayOf(slots[j]).via
  OBVIOUS
<1>2. slots[i].intermediate_node = slots[j].intermediate_node
  BY <1>1 DEF WayOf
<1>. QED  BY <1>2 DEF OneEach, UsedSlots

(* RouteStore counts with the same Cardinality.                            *)
LEMMA SameCount ==
  ASSUME NEW S
  PROVE  Store!Cardinality(S) = Cardinality(S)
  BY DEF Store!Cardinality, Cardinality

(* A free slot is room for a way, and the only such room.                  *)
LEMMA Room ==
  ASSUME NEW slots \in DestinationApproximator, OneEach(slots)
  PROVE  Cardinality(Ways(slots)) < MAX_ROUTING_ENTRIES <=> FreeSlots(slots) # {}
<1>. DEFINE U == UsedSlots(slots)
            f == [i \in U |-> WayOf(slots[i])]
<1>1. IsFiniteSet(Slot) /\ Cardinality(Slot) = MAX_ROUTING_ENTRIES
  BY RoutingAssumption, FS_Interval DEF Slot
<1>2. U \in SUBSET Slot  BY DEF UsedSlots
<1>3. IsFiniteSet(U)  BY <1>1, <1>2, FS_Subset
<1>4. f \in Bijection(U, Ways(slots))
  <2>1. f \in [U -> Ways(slots)] /\ \A w \in Ways(slots) : \E i \in U : f[i] = w
    BY WaysOfUsed
  <2>2. \A i, j \in U : f[i] = f[j] => i = j
    BY WayOfOneSlot
  <2>. HIDE DEF f, U
  <2>. QED  BY <2>1, <2>2 DEF Bijection, Injection, Surjection, IsInjective
<1>5. Cardinality(Ways(slots)) = Cardinality(U)
  <2>. HIDE DEF f, U
  <2>1. ExistsBijection(U, Ways(slots))  BY <1>4 DEF ExistsBijection
  <2>. QED  BY <1>3, <2>1, FS_Bijection
<1>6. CASE FreeSlots(slots) = {}
  <2>1. U = Slot  BY <1>6 DEF FreeSlots, UsedSlots
  <2>. QED  BY <1>1, <1>5, <1>6, <2>1, RoutingAssumption
<1>7. CASE FreeSlots(slots) # {}
  <2>1. U # Slot  BY <1>7 DEF FreeSlots, UsedSlots
  <2>. HIDE DEF U
  <2>2. Cardinality(U) <= Cardinality(Slot) /\ Cardinality(U) # Cardinality(Slot)
    BY <1>1, <1>2, <2>1, FS_Subset
  <2>3. Cardinality(U) \in Nat  BY <1>3, FS_CardinalityType
  <2>. QED  BY <1>1, <1>5, <1>7, <2>2, <2>3, RoutingAssumption
<1>. QED  BY <1>6, <1>7

----------------------------------------------------------------------------
(* One update, on the slots and on the set.                                *)

(* Refreshing the slot of an intermediate refreshes its way and no other.  *)
LEMMA RefreshesWay ==
  ASSUME NEW slots \in DestinationApproximator, OneEach(slots),
         NEW d \in Node, NEW via \in Node, NEW steps \in Nat, NEW new,
         Refreshes(slots, new, d, via, steps)
  PROVE  Ways(new) \in Store!Learnt(Ways(slots), d, via, steps)
<1>. DEFINE told == IF via = d THEN 1 ELSE steps
            R    == Ways(slots)
            same == {x \in R : x.via = via}
<1>1. PICK k \in SlotsVia(slots, via) : new = [slots EXCEPT ![k].steps = told]
  BY DEF Refreshes
<1>2. k \in Slot /\ slots[k].in_use /\ slots[k].intermediate_node = via
  BY DEF SlotsVia
<1>3. \A i \in SlotsVia(slots, via) : i = k
  BY <1>2 DEF SlotsVia, OneEach
<1>4. same = {WayOf(slots[k])}
  BY <1>3, WaysVia
<1>5. /\ \A i \in Slot : i # k => new[i] = slots[i]
      /\ new[k] = [slots[k] EXCEPT !.steps = told]
      /\ slots[k] \in IntermediateStepInfo
  BY <1>1, <1>2 DEF DestinationApproximator
<1>6. WayOf(new[k]) = [WayOf(slots[k]) EXCEPT !.steps = told]
  BY <1>5 DEF WayOf, IntermediateStepInfo
<1>7. UsedSlots(new) = UsedSlots(slots) /\ k \in UsedSlots(slots)
  BY <1>2, <1>5 DEF UsedSlots, IntermediateStepInfo
<1>8. R \ same = {WayOf(slots[i]) : i \in UsedSlots(slots) \ {k}}
  BY <1>4, <1>7, WaysOfUsed, WayOfOneSlot
<1>9. Ways(new) = {WayOf(slots[i]) : i \in UsedSlots(slots) \ {k}} \cup {WayOf(new[k])}
  BY <1>5, <1>7, WaysOfUsed DEF UsedSlots
<1>10. {[x EXCEPT !.steps = told] : x \in same} = {WayOf(new[k])}
  BY <1>4, <1>6
<1>11. same # {}  BY <1>4
<1>12. Ways(new) = (R \ same) \cup {[x EXCEPT !.steps = told] : x \in same}
  BY <1>8, <1>9, <1>10
<1>. QED  BY <1>11, <1>12 DEF Store!Learnt

(* Filling a slot adds its way, in the place of a farthest one when the    *)
(* set is full.                                                            *)
LEMMA FillsWay ==
  ASSUME NEW slots \in DestinationApproximator, OneEach(slots),
         NEW d \in Node, NEW via \in Node, NEW steps \in Nat, NEW new,
         Fills(slots, new, via, steps)
  PROVE  Ways(new) \in Store!Learnt(Ways(slots), d, via, steps)
<1>. DEFINE R    == Ways(slots)
            same == {x \in R : x.via = via}
            way  == [via |-> via, steps |-> steps, active |-> TRUE]
<1>1. PICK k \in Slot :
        /\ new = [slots EXCEPT ![k] = UsedSlot(via, steps)]
        /\ k \in FreeSlots(slots) \/ (FreeSlots(slots) = {} /\ k \in FarthestSlots(slots))
  BY DEF Fills
<1>2. same = {}  BY WaysVia DEF Fills
<1>3. /\ \A i \in Slot : i # k => new[i] = slots[i]
      /\ new[k] = UsedSlot(via, steps)
  BY <1>1 DEF DestinationApproximator
<1>4. WayOf(new[k]) = way /\ new[k].in_use
  BY <1>3 DEF WayOf, UsedSlot
<1>5. UsedSlots(new) = UsedSlots(slots) \cup {k}
  BY <1>3, <1>4 DEF UsedSlots
<1>6. Ways(new) = {WayOf(slots[i]) : i \in UsedSlots(slots) \ {k}} \cup {way}
  BY <1>3, <1>4, <1>5, WaysOfUsed DEF UsedSlots
<1>7. CASE k \in FreeSlots(slots)
  <2>1. UsedSlots(slots) \ {k} = UsedSlots(slots)
    BY <1>7 DEF FreeSlots, UsedSlots
  <2>2. Ways(new) = R \cup {way}
    BY <1>6, <2>1, WaysOfUsed
  <2>3. Cardinality(R) < MAX_ROUTING_ENTRIES
    BY <1>7, Room
  <2>. QED  BY <1>2, <2>2, <2>3, SameCount DEF Store!Learnt
<1>8. CASE FreeSlots(slots) = {} /\ k \in FarthestSlots(slots)
  <2>1. UsedSlots(slots) = Slot
    BY <1>8 DEF FreeSlots, UsedSlots
  <2>2. R \ {WayOf(slots[k])} = {WayOf(slots[i]) : i \in UsedSlots(slots) \ {k}}
    BY <2>1, WaysOfUsed, WayOfOneSlot
  <2>3. WayOf(slots[k]) \in Store!Farthest(R)
    <3>1. R = {WayOf(slots[i]) : i \in Slot}
      BY <2>1, WaysOfUsed
    <3>2. \A i \in Slot : slots[i].steps <= slots[k].steps
      BY <1>8 DEF FarthestSlots
    <3>3. \A i \in Slot : WayOf(slots[i]).steps = slots[i].steps
      BY DEF WayOf
    <3>. QED  BY <3>1, <3>2, <3>3 DEF Store!Farthest
  <2>4. ~ (Cardinality(R) < MAX_ROUTING_ENTRIES)
    BY <1>8, Room
  <2>5. Ways(new) = (R \ {WayOf(slots[k])}) \cup {way}
    BY <1>6, <2>2
  <2>. QED  BY <1>2, <2>3, <2>4, <2>5, SameCount DEF Store!Learnt
<1>. QED  BY <1>1, <1>7, <1>8

LEMMA UpdateLearns ==
  ASSUME NEW r \in RouterType, AllOneEach(r),
         NEW d \in Node, NEW via \in Node, NEW steps \in Nat
  PROVE  LET new == update_approximation_entry(r, d, via, steps)
         IN  /\ Ways(new.best_routing_info[d])
                  \in Store!Learnt(Ways(r.best_routing_info[d]), d, via, steps)
             /\ \A e \in Node \ {d} : new.best_routing_info[e] = r.best_routing_info[e]
<1>. DEFINE slots == r.best_routing_info[d]
            upd   == UpdatedSlots(slots, d, via, steps)
<1>1. slots \in DestinationApproximator /\ OneEach(slots)
  BY DEF RouterType, AllOneEach
<1>2. Ways(upd) \in Store!Learnt(Ways(slots), d, via, steps)
  <2>. HIDE DEF slots
  <2>1. Refreshes(slots, upd, d, via, steps) \/ Fills(slots, upd, via, steps)
    BY <1>1, UpdateCases
  <2>. HIDE DEF upd
  <2>. QED  BY <1>1, <2>1, RefreshesWay, FillsWay
<1>. QED  BY <1>2, UpdateEffect

----------------------------------------------------------------------------
(* The operations on the router.                                           *)

StoreOf(r) == [d \in Node |-> Ways(r.best_routing_info[d])]

(* Between the two updates of router_update the approximator of the sender *)
(* is the only one that has changed.                                       *)
LEMMA RouterUpdateHears ==
  ASSUME NEW r \in RouterType, AllOneEach(r),
         NEW origin \in Node, NEW from \in Node, NEW steps \in Nat
  PROVE  LET new == router_update(r, origin, from, steps)
         IN  /\ IF origin = from
                THEN \E R \in Store!Learnt(StoreOf(r)[from], from, from, 1) :
                       StoreOf(new)[from] \in Store!Learnt(R, from, from, steps)
                ELSE /\ StoreOf(new)[from] \in Store!Learnt(StoreOf(r)[from], from, from, 1)
                     /\ StoreOf(new)[origin]
                          \in Store!Learnt(StoreOf(r)[origin], origin, from, steps)
             /\ \A d \in Node \ {from, origin} : StoreOf(new)[d] = StoreOf(r)[d]
<1>. DEFINE first  == get_destination_approximator(r, from)
            known  == get_destination_approximator(first, origin)
            direct == update_approximation_entry(known, from, from, 1)
            new    == update_approximation_entry(direct, origin, from, steps)
<1>1. first \in RouterType /\ first.best_routing_info = r.best_routing_info
  BY DestinationType, DestinationEffect
<1>. HIDE DEF first
<1>2. known \in RouterType /\ known.best_routing_info = r.best_routing_info
  BY <1>1, DestinationType, DestinationEffect
<1>3. AllOneEach(known)  BY <1>2 DEF AllOneEach
<1>. HIDE DEF known
<1>4. /\ direct \in RouterType
      /\ AllOneEach(direct)
      /\ Ways(direct.best_routing_info[from])
           \in Store!Learnt(Ways(r.best_routing_info[from]), from, from, 1)
      /\ \A e \in Node \ {from} : direct.best_routing_info[e] = r.best_routing_info[e]
  <2>1. from \in Node \cup {NO_ID} /\ 1 \in Nat  OBVIOUS
  <2>2. direct \in RouterType /\ AllOneEach(direct)
    BY <1>2, <1>3, <2>1, UpdateType, UpdateOneEach
  <2>3. /\ Ways(direct.best_routing_info[from])
             \in Store!Learnt(Ways(known.best_routing_info[from]), from, from, 1)
        /\ \A e \in Node \ {from} : direct.best_routing_info[e] = known.best_routing_info[e]
    BY <1>2, <1>3, <2>1, UpdateLearns
  <2>. HIDE DEF direct
  <2>. QED  BY <1>2, <2>2, <2>3
<1>. HIDE DEF direct
<1>5. /\ Ways(new.best_routing_info[origin])
           \in Store!Learnt(Ways(direct.best_routing_info[origin]), origin, from, steps)
      /\ \A e \in Node \ {origin} : new.best_routing_info[e] = direct.best_routing_info[e]
  BY <1>4, UpdateLearns
<1>6. router_update(r, origin, from, steps) = new
  BY DEF router_update, first, known, direct
<1>. HIDE DEF new
<1>7. \A e \in Node : /\ StoreOf(new)[e] = Ways(new.best_routing_info[e])
                     /\ StoreOf(r)[e] = Ways(r.best_routing_info[e])
  BY DEF StoreOf
<1>8. CASE origin = from
  BY <1>4, <1>5, <1>6, <1>7, <1>8
<1>9. CASE origin # from
  <2>1. /\ direct.best_routing_info[origin] = r.best_routing_info[origin]
        /\ new.best_routing_info[from] = direct.best_routing_info[from]
    BY <1>4, <1>5, <1>9
  <2>. QED  BY <1>4, <1>5, <1>6, <1>7, <1>9, <2>1
<1>. QED  BY <1>8, <1>9

LEMMA IncorporateLearns ==
  ASSUME NEW r \in RouterType, AllOneEach(r),
         NEW from \in Node, NEW dest \in Node, NEW steps \in Nat
  PROVE  LET new == router_incorporate_rquery(r, from, dest, steps)
         IN  /\ StoreOf(new)[dest] \in Store!Learnt(StoreOf(r)[dest], dest, from, steps + 1)
             /\ \A d \in Node \ {dest} : StoreOf(new)[d] = StoreOf(r)[d]
<1>. DEFINE known == get_destination_approximator(r, dest)
<1>1. known \in RouterType /\ known.best_routing_info = r.best_routing_info
  BY DestinationType, DestinationEffect
<1>2. AllOneEach(known)  BY <1>1 DEF AllOneEach
<1>. HIDE DEF known
<1>. QED  BY <1>1, <1>2, UpdateLearns DEF router_incorporate_rquery, StoreOf, known

(* Cutting or restoring a link changes the flag of the ways through it.    *)
LEMMA SetLinkWays ==
  ASSUME NEW r \in RouterType, NEW node \in Node, NEW up \in BOOLEAN, NEW d \in Node
  PROVE  StoreOf(SetLink(r, node, up))[d] =
           {IF x.via = node THEN [x EXCEPT !.active = up] ELSE x : x \in StoreOf(r)[d]}
<1>. DEFINE old == r.best_routing_info[d]
            new == SetLink(r, node, up).best_routing_info[d]
<1>1. old \in DestinationApproximator  BY DEF RouterType
<1>2. \A i \in Slot : new[i] = IF i \in SlotsVia(old, node)
                               THEN [old[i] EXCEPT !.link_active = up] ELSE old[i]
  BY DEF SetLink, RouterType
<1>. HIDE DEF old, new
<1>3. UsedSlots(new) = UsedSlots(old)
  BY <1>1, <1>2 DEF UsedSlots, DestinationApproximator, IntermediateStepInfo
<1>4. ASSUME NEW i \in UsedSlots(old)
      PROVE  WayOf(new[i]) = IF WayOf(old[i]).via = node
                             THEN [WayOf(old[i]) EXCEPT !.active = up] ELSE WayOf(old[i])
  <2>1. i \in Slot /\ old[i] \in IntermediateStepInfo /\ old[i].in_use
    BY <1>1 DEF UsedSlots, DestinationApproximator
  <2>2. i \in SlotsVia(old, node) <=> WayOf(old[i]).via = node
    BY <2>1 DEF SlotsVia, WayOf
  <2>. QED  BY <1>2, <2>1, <2>2 DEF WayOf, IntermediateStepInfo
<1>. DEFINE Switched(x) == IF x.via = node THEN [x EXCEPT !.active = up] ELSE x
<1>5. \A i \in UsedSlots(old) : WayOf(new[i]) = Switched(WayOf(old[i]))
  BY <1>4
<1>. HIDE DEF Switched
<1>6. Ways(new) = {Switched(x) : x \in Ways(old)}
  BY <1>3, <1>5, WaysOfUsed
<1>. QED  BY <1>6 DEF StoreOf, old, new, Switched

(* Dropping an intermediate frees the one slot that has it.                *)
LEMMA BadIntermediateDrops ==
  ASSUME NEW r \in RouterType, AllOneEach(r), NEW via \in Node, NEW d \in Node
  PROVE  StoreOf(router_bad_intermediate(r, via))[d] =
           {x \in StoreOf(r)[d] : x.via # via}
<1>. DEFINE old == r.best_routing_info[d]
            new == router_bad_intermediate(r, via).best_routing_info[d]
            hit == SlotsVia(old, via)
<1>1. old \in DestinationApproximator /\ OneEach(old)  BY DEF RouterType, AllOneEach
<1>2. new = IF hit = {} THEN old ELSE [old EXCEPT ![Lowest(hit)] = FreeSlot]
  BY DEF router_bad_intermediate
<1>. HIDE DEF old, new
<1>3. UsedSlots(new) = UsedSlots(old) \ hit
  <2>1. CASE hit = {}
    BY <1>2, <2>1
  <2>2. CASE hit # {}
    <3>1. hit \in SUBSET Slot  BY DEF SlotsVia
    <3>2. Lowest(hit) \in hit  BY <2>2, <3>1, LowestIn
    <3>3. hit = {Lowest(hit)}  BY <1>1, <3>2 DEF SlotsVia, OneEach
    <3>. DEFINE k == Lowest(hit)
    <3>. HIDE DEF k
    <3>4. k \in Slot /\ hit = {k} /\ new = [old EXCEPT ![k] = FreeSlot]
      BY <1>2, <2>2, <3>1, <3>2, <3>3 DEF k
    <3>. HIDE DEF hit
    <3>. QED  BY <1>1, <3>4 DEF UsedSlots, FreeSlot, DestinationApproximator
  <2>. QED  BY <2>1, <2>2
<1>4. \A i \in UsedSlots(new) : new[i] = old[i]
  BY <1>1, <1>2 DEF UsedSlots, FreeSlot, DestinationApproximator
<1>5. \A i \in UsedSlots(old) : i \in hit <=> WayOf(old[i]).via = via
  BY DEF UsedSlots, SlotsVia, WayOf
<1>6. Ways(new) = {x \in Ways(old) : x.via # via}
  <2>. HIDE DEF hit
  <2>. QED  BY <1>3, <1>4, <1>5, WaysOfUsed
<1>. QED  BY <1>6 DEF StoreOf, old, new

----------------------------------------------------------------------------
(* The refinement.                                                         *)

(* What a step must know: one slot per intermediate, and of the pairs      *)
(* being parsed their sender and that one step more is still within the    *)
(* bound.                                                                  *)
StoreInv ==
  /\ TypeOK
  /\ Unique
  /\ parsing # {} => parse_from \in Node
  /\ \A p \in parsing : p.steps \in 1 .. (MaxSteps - 1)

LEMMA StoreInvInit == Init => StoreInv
  BY TypeInit, UniqueInit DEF Init, StoreInv

LEMMA StoreInvStep == StoreInv /\ [Next]_vars => StoreInv'
<1>. SUFFICES ASSUME StoreInv, [Next]_vars PROVE StoreInv'  OBVIOUS
<1>1. TypeOK' /\ Unique'  BY TypeStep, UniqueStep DEF StoreInv
<1>2. ASSUME NEW from \in Neighbor, NEW pairs \in Answers(Origin \ {Self}),
             ReceiveAnswer(from, pairs)
      PROVE  StoreInv'
  <2>1. \A p \in pairs : p.steps \in 1 .. (MaxSteps - 1)  BY DEF Answers
  <2>. QED  BY <1>1, <1>2, <2>1, RouterAssumption DEF ReceiveAnswer, StoreInv
<1>3. ASSUME parsing' \subseteq parsing, parse_from' = parse_from
      PROVE  StoreInv'
  BY <1>1, <1>3 DEF StoreInv
<1>4. CASE HearFrame
  BY <1>3, <1>4 DEF HearFrame, Hear
<1>5. CASE IncorporatePair
  BY <1>3, <1>5 DEF IncorporatePair
<1>6. ASSUME NEW node, Unlink(node) \/ Link(node) \/ AnswerRquery(node) \/ BadIntermediate(node)
      PROVE  StoreInv'
  BY <1>3, <1>6 DEF Unlink, Link, AnswerRquery, BadIntermediate
<1>7. CASE UNCHANGED vars
  BY <1>3, <1>7 DEF vars
<1>. QED  BY <1>2, <1>4, <1>5, <1>6, <1>7 DEF Next

LEMMA StoreInit == Init => Store!Init
<1>. SUFFICES ASSUME Init PROVE Store!Init  OBVIOUS
<1>1. PICK g \in Garbage : router = create_router(g)  BY DEF Init
<1>2. ASSUME NEW d \in Node PROVE Ways(router.best_routing_info[d]) = {}
  <2>1. UsedSlots(router.best_routing_info[d]) = {}
    BY <1>1 DEF create_router, FreeSlot, UsedSlots
  <2>. QED  BY <2>1, WaysOfUsed
<1>. QED  BY <1>2 DEF Store!Init

(* Every step of the router is a step of the store, or changes no way.     *)
LEMMA StoreStep ==
  StoreInv /\ [Next]_vars => [Store!Next]_(StoreOf(router))
<1>. SUFFICES ASSUME StoreInv, [Next]_vars
              PROVE  Store!Next \/ UNCHANGED StoreOf(router)
  OBVIOUS
<1>1. /\ router \in RouterType
      /\ AllOneEach(router)
      /\ parsing \subseteq Pair
      /\ MaxSteps \in Nat \ {0, 1}
  BY RouterAssumption DEF StoreInv, TypeOK, Unique, AllOneEach, OneEach
<1>2. \A d \in Node : /\ StoreOf(router)[d] = Ways(router.best_routing_info[d])
                      /\ StoreOf(router')[d] = Ways(router'.best_routing_info[d])
  BY DEF StoreOf
<1>3. CASE HearFrame
  <2>1. PICK from \in Node, origin \in Node, steps \in 1 .. MaxSteps : Hear(origin, from, steps)
    <3>1. 1 \in 1 .. MaxSteps /\ 2 .. MaxSteps \subseteq 1 .. MaxSteps  BY <1>1
    <3>. QED  BY <1>3, <3>1, RouterAssumption DEF HearFrame
  <2>2. router' = router_update(router, origin, from, steps)  BY <2>1 DEF Hear
  <2>3. steps \in Nat  BY <1>1
  <2>4. /\ IF origin = from
           THEN \E R \in Store!Learnt(StoreOf(router)[from], from, from, 1) :
                  StoreOf(router')[from] \in Store!Learnt(R, from, from, steps)
           ELSE /\ StoreOf(router')[from]
                     \in Store!Learnt(StoreOf(router)[from], from, from, 1)
                /\ StoreOf(router')[origin]
                     \in Store!Learnt(StoreOf(router)[origin], origin, from, steps)
        /\ \A d \in Node \ {from, origin} : StoreOf(router')[d] = StoreOf(router)[d]
    BY <1>1, <2>2, <2>3, RouterUpdateHears
  <2>5. Store!Hear(origin, from, steps)
    BY <1>2, <2>4 DEF Store!Hear, Store!OnlyChanged
  <2>. QED  BY <2>5 DEF Store!Next
<1>4. CASE IncorporatePair
  <2>1. PICK p \in parsing :
          router' = router_incorporate_rquery(router, parse_from, p.destination_node, p.steps)
    BY <1>4 DEF IncorporatePair
  <2>2. /\ parse_from \in Node
        /\ p.destination_node \in Node
        /\ p.steps \in Nat
        /\ p.steps + 1 \in 1 .. MaxSteps
    BY <1>1 DEF StoreInv, Pair
  <2>. DEFINE dest == p.destination_node
              steps == p.steps + 1
  <2>3. /\ StoreOf(router')[dest]
             \in Store!Learnt(StoreOf(router)[dest], dest, parse_from, steps)
        /\ \A d \in Node \ {dest} : StoreOf(router')[d] = StoreOf(router)[d]
    BY <1>1, <2>1, <2>2, IncorporateLearns
  <2>4. dest \in Node /\ steps \in 1 .. MaxSteps  BY <2>2
  <2>. HIDE DEF dest, steps
  <2>5. Store!Learn(dest, parse_from, steps)
    BY <1>2, <2>3, <2>4 DEF Store!Learn, Store!OnlyChanged
  <2>. QED  BY <2>2, <2>4, <2>5 DEF Store!Next
<1>5. ASSUME NEW node \in Neighbor, Unlink(node) \/ Link(node)
      PROVE  Store!Next
  <2>1. PICK up \in BOOLEAN : router' = SetLink(router, node, up)
    BY <1>5 DEF Unlink, Link, router_unlink_node, router_link_node
  <2>2. node \in Node  BY RouterAssumption
  <2>3. Store!SetLink(node, up)
    BY <1>1, <1>2, <2>1, <2>2, SetLinkWays DEF Store!SetLink
  <2>. QED  BY <2>2, <2>3 DEF Store!Next
<1>6. ASSUME NEW node \in Droppable, BadIntermediate(node)
      PROVE  Store!Next
  <2>1. node \in Node  BY RouterAssumption
  <2>2. Store!Drop(node)
    BY <1>1, <1>2, <1>6, <2>1, BadIntermediateDrops DEF BadIntermediate, Store!Drop
  <2>. QED  BY <2>2 DEF Store!Next
<1>7. ASSUME router' = router PROVE UNCHANGED StoreOf(router)
  BY <1>7 DEF StoreOf
<1>. QED  BY <1>3, <1>4, <1>5, <1>6, <1>7 DEF Next, ReceiveAnswer, AnswerRquery, vars

(* Whatever is heard, answered, cut, relinked or dropped, in any order,    *)
(* the arrays with their first-match, first-free and first-farthest        *)
(* searches behave as sets of ways, one per intermediate                   *)
(* (routing.c:93-197, 342-370).                                            *)
THEOREM SlotsImplementStore == Spec => ImplementsStore
<1>1. [Store!Next]_(StoreOf(router)) <=>
        [Store!Next]_([d \in Node |-> Ways(router.best_routing_info[d])])
  BY DEF StoreOf
<1>2. StoreInv /\ [Next]_vars =>
        [Store!Next]_([d \in Node |-> Ways(router.best_routing_info[d])])
  BY <1>1, StoreStep
<1>. QED  BY <1>2, StoreInvInit, StoreInvStep, StoreInit, PTL
          DEF Spec, ImplementsStore, Store!Spec

----------------------------------------------------------------------------
(* The way chosen.                                                         *)

ListedInv == Listed(router)

LEMMA ListedInit == Init => ListedInv
<1>. SUFFICES ASSUME NEW g \in Garbage, router = create_router(g) PROVE Listed(router)
  BY DEF Init, ListedInv
<1>1. \A d \in Node : UsedSlots(router.best_routing_info[d]) = {}
  BY DEF create_router, FreeSlot, UsedSlots
<1>. QED  BY <1>1 DEF Listed

LEMMA ListedStep == TypeOK /\ ListedInv /\ [Next]_vars => ListedInv'
<1>. SUFFICES ASSUME TypeOK, Listed(router), [Next]_vars PROVE Listed(router')
  BY DEF ListedInv
<1>1. router \in RouterType  BY DEF TypeOK
<1>2. CASE HearFrame
  <2>1. PICK from \in Neighbor, origin \in Node, steps \in Nat : Hear(origin, from, steps)
    BY <1>2, RouterAssumption DEF HearFrame
  <2>2. from \in Node  BY RouterAssumption
  <2>. QED  BY <1>1, <2>1, <2>2, RouterUpdateListed DEF Hear
<1>3. CASE IncorporatePair
  <2>1. PICK p \in parsing :
          router' = router_incorporate_rquery(router, parse_from, p.destination_node, p.steps)
    BY <1>3 DEF IncorporatePair
  <2>2. p.destination_node \in Node  BY DEF TypeOK, Pair
  <2>. QED  BY <1>1, <2>1, <2>2, IncorporateListed
<1>4. ASSUME NEW node \in Neighbor, Unlink(node) \/ Link(node) PROVE Listed(router')
  BY <1>1, <1>4, SetLinkListed DEF Unlink, Link, router_unlink_node, router_link_node
<1>5. ASSUME NEW node \in Droppable, BadIntermediate(node) PROVE Listed(router')
  BY <1>1, <1>5, RouterAssumption, BadIntermediateListed DEF BadIntermediate
<1>6. ASSUME router' = router PROVE Listed(router')
  BY <1>6
<1>. QED  BY <1>2, <1>3, <1>4, <1>5, <1>6 DEF Next, ReceiveAnswer, AnswerRquery, vars

(* For a listed destination the search ends at a nearest way that is up.   *)
LEMMA ChosenNearest == TypeOK /\ ListedInv => ChosenIsNearest
<1>. SUFFICES ASSUME TypeOK, Listed(router), NEW d \in Node
              PROVE  LET near == Store!Nearest(Ways(router.best_routing_info[d]))
                         via  == router_query_intermediate(router, d)
                     IN  IF near = {} THEN via = NO_ID ELSE \E w \in near : w.via = via
  BY DEF ChosenIsNearest, ListedInv
<1>. DEFINE slots == router.best_routing_info[d]
            near  == Store!Nearest(Ways(slots))
            best  == Lowest(BestSlots(slots))
<1>1. slots \in DestinationApproximator  BY DEF TypeOK, RouterType
<1>2. ActiveSlots(slots) = {i \in UsedSlots(slots) : slots[i].link_active}
  BY DEF ActiveSlots, UsedSlots
<1>3. CASE ActiveSlots(slots) = {}
  <2>1. router_query_intermediate(router, d) = NO_ID
    BY <1>3 DEF router_query_intermediate, Routed
  <2>2. near = {}
    BY <1>2, <1>3, WaysOfUsed DEF Store!Nearest, WayOf
  <2>. QED  BY <2>1, <2>2
<1>4. CASE ActiveSlots(slots) # {}
  <2>1. best \in BestSlots(slots)
    <3>1. BestSlots(slots) # {}  BY <1>1, <1>4, BestExists
    <3>2. BestSlots(slots) \in SUBSET Slot  BY DEF BestSlots, ActiveSlots
    <3>. QED  BY <3>1, <3>2, LowestIn
  <2>2. d \in Known(router)  BY <1>2, <1>4 DEF Listed
  <2>3. router_query_intermediate(router, d) = slots[best].intermediate_node
    BY <1>4, <2>2 DEF router_query_intermediate, Routed, BestRoute, choose_approximation_route
  <2>. HIDE DEF best, slots
  <2>4. /\ best \in ActiveSlots(slots)
        /\ \A j \in ActiveSlots(slots) : slots[best].steps <= slots[j].steps
    BY <2>1 DEF BestSlots
  <2>5. WayOf(slots[best]) \in near
    <3>1. WayOf(slots[best]) \in Ways(slots) /\ WayOf(slots[best]).active
      BY <1>2, <2>4, WaysOfUsed DEF WayOf
    <3>2. ASSUME NEW y \in Ways(slots), y.active
          PROVE  WayOf(slots[best]).steps <= y.steps
      <4>1. PICK j \in UsedSlots(slots) : y = WayOf(slots[j])  BY WaysOfUsed
      <4>2. j \in ActiveSlots(slots)  BY <1>2, <3>2, <4>1 DEF WayOf
      <4>. QED  BY <2>4, <4>1, <4>2 DEF WayOf
    <3>. QED  BY <3>1, <3>2 DEF Store!Nearest
  <2>6. WayOf(slots[best]).via = slots[best].intermediate_node  BY DEF WayOf
  <2>. QED  BY <2>3, <2>5, <2>6 DEF slots
<1>. QED  BY <1>3, <1>4

(* A message never leaves by a way that is down, or by one longer than     *)
(* another that is up, and is never dropped while some way is up           *)
(* (routing.c:158-175, 327-340).                                           *)
THEOREM NearestIsChosen == Spec => []ChosenIsNearest
  BY TypeInit, TypeStep, ListedInit, ListedStep, ChosenNearest, PTL DEF Spec
=============================================================================
