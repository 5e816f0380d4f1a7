----------------------------- MODULE NodeStatus -----------------------------
(***************************************************************************)
(* What one board thinks of the others: the entries of the node table, the *)
(* task that looks at them every 15 s, the tasks that ping a silent node,  *)
(* and the receive handler that hears it (src/node_table.c, and the lines  *)
(* of src/lora_uart.c that mark an ack).                                   *)
(*                                                                         *)
(* Time is age[n], how long ago n was last heard: 0 for less than half of  *)
(* REQUEST_STATUS_TIME, 1 for less than all of it, 2 for more.  Half of it *)
(* is 60 s, the status task looks at n every 15 s, a run of pings lasts    *)
(* 22.5 s, and the handler goes from one line to the next in less than a   *)
(* second: n does not grow older twice without the status task reading its *)
(* age in between, nor twice in a run of pings.                            *)
(*                                                                         *)
(* The status task takes four steps for a node: it reads last_connection,  *)
(* then the status, writes UNKNOWN, and looks at the handle; the others    *)
(* may do what they like in between.  The two writes nodes_update makes to *)
(* an entry are one step: the other tasks write the status without looking *)
(* at the age, and the one that reads the age, if it sees the new one and  *)
(* the old status, writes the same ALIVE.  The count of misses and the     *)
(* averages of an entry are written and never read.                        *)
(***************************************************************************)
EXTENDS Naturals

CONSTANTS
  Node,      \* addresses of boards
  Self,      \* the board that keeps the table
  Task,      \* handles of FreeRTOS tasks
  NULL,      \* no handle, no node
  PINGS,     \* pings in a run: 4
  MaxAir     \* bound: replies to pings that may still come from one node

ASSUME NodeStatusAssumption ==
  /\ Self \in Node
  /\ NULL \notin Node \cup Task
  /\ PINGS \in Nat \ {0}
  /\ MaxAir \in Nat

VARIABLES
  g_node_table,   \* the nodes that have an entry
  status,         \* of an entry: ALIVE, DEAD or UNKNOWN
  ping_task,      \* of an entry: the handle of its ping task
  age,            \* of an entry: the time since last_connection
  ack_status,     \* of the ping message of an entry
  to_visit,       \* node_status_task: the rest of its walk
  visited,        \* node_status_task: the node it is at
  stale,          \* node_status_task: the age it read was Old
  line,           \* node_status_task: the line it is at
  pinged,         \* of a task: the node it pings
  pc,             \* of a task: the line it is at
  tries,          \* of a task: pings without an answer
  air,            \* replies to pings still to come from a node
  marking,        \* rcv_handler_task: the node whose ping it is about to mark
  seen,           \* history: n's age was read since it grew older or was heard
  aged            \* history: n has grown older since its run of pings began

nodeVars == <<g_node_table, status, ping_task, ack_status>>
timeVars == <<age, seen, aged>>
walkVars == <<to_visit, visited, stale, line>>
taskVars == <<pinged, pc, tries>>
vars == <<nodeVars, timeVars, walkVars, taskVars, air, marking>>

Old == 2
Statuses == {"ALIVE", "DEAD", "UNKNOWN"}
Lines == {"free", "start", "send", "wait", "alive", "dead", "clear"}

TypeOK ==
  /\ g_node_table \subseteq Node /\ Self \in g_node_table
  /\ status \in [Node -> Statuses]
  /\ ping_task \in [Node -> Task \cup {NULL}]
  /\ age \in [Node -> 0 .. Old]
  /\ ack_status \in [Node -> BOOLEAN]
  /\ to_visit \subseteq g_node_table
  /\ visited \in g_node_table \cup {NULL}
  /\ stale \in BOOLEAN
  /\ line \in {"walk", "judge", "suspect", "reach"}
  /\ visited = NULL <=> line = "walk"
  /\ pinged \in [Task -> Node \cup {NULL}]
  /\ pc \in [Task -> Lines]
  /\ tries \in [Task -> 0 .. PINGS]
  /\ air \in [Node -> 0 .. MaxAir]
  /\ marking \in g_node_table \cup {NULL}
  /\ seen \in [Node -> BOOLEAN]
  /\ aged \in [Node -> BOOLEAN]

Init ==
  /\ g_node_table = {Self}
  /\ status = [n \in Node |-> "UNKNOWN"]
  /\ ping_task = [n \in Node |-> NULL]
  /\ age = [n \in Node |-> 0]
  /\ ack_status = [n \in Node |-> FALSE]
  /\ to_visit = {}
  /\ visited = NULL
  /\ stale = FALSE
  /\ line = "walk"
  /\ pinged = [t \in Task |-> NULL]
  /\ pc = [t \in Task |-> "free"]
  /\ tries = [t \in Task |-> 0]
  /\ air = [n \in Node |-> 0]
  /\ marking = NULL
  /\ seen = [n \in Node |-> FALSE]
  /\ aged = [n \in Node |-> FALSE]

----------------------------------------------------------------------------
(* The receive handler.  nodes_update makes the entries that are missing.  *)

nodes_update(heard) ==
  /\ g_node_table' = g_node_table \cup heard
  /\ status' = [n \in Node |-> IF n \in heard THEN "ALIVE" ELSE status[n]]
  /\ age' = [n \in Node |-> IF n \in heard THEN 0 ELSE age[n]]
  /\ seen' = [n \in Node |-> n \notin heard /\ seen[n]]
  /\ UNCHANGED <<ping_task, ack_status, aged>>

(* A frame that origin made and src passed on.                             *)
Hear(origin, src) ==
  /\ marking = NULL
  /\ nodes_update({origin, src})
  /\ UNCHANGED <<walkVars, taskVars, air, marking>>

(* One that answers a ping: the entry first, the acked ping after.         *)
HearReply(origin, src) ==
  /\ marking = NULL
  /\ air[origin] > 0
  /\ nodes_update({origin, src})
  /\ air' = [air EXCEPT ![origin] = @ - 1]
  /\ marking' = origin
  /\ UNCHANGED <<walkVars, taskVars>>

MarkAck ==
  /\ marking # NULL
  /\ ack_status' = [ack_status EXCEPT ![marking] = TRUE]
  /\ marking' = NULL
  /\ UNCHANGED <<g_node_table, status, ping_task, timeVars, walkVars, taskVars, air>>

----------------------------------------------------------------------------
(* node_status_task.                                                       *)

BeginWalk ==
  /\ line = "walk" /\ to_visit = {}
  /\ to_visit' = g_node_table
  /\ UNCHANGED <<nodeVars, timeVars, visited, stale, line, taskVars, air, marking>>

ReadAge(n) ==
  /\ line = "walk"
  /\ n \in to_visit
  /\ to_visit' = to_visit \ {n}
  /\ visited' = n
  /\ stale' = (age[n] = Old)
  /\ line' = "judge"
  /\ seen' = [seen EXCEPT ![n] = TRUE]
  /\ UNCHANGED <<nodeVars, age, aged, taskVars, air, marking>>

Leave == visited' = NULL /\ stale' = FALSE /\ line' = "walk"

Judged_keepsDead(n) ==                       (* mutant: only the suspected *)
  IF ~ stale /\ status[n] = "UNKNOWN" THEN "ALIVE" ELSE status[n]

Judged(n) == IF stale THEN status[n] ELSE "ALIVE"

Judge ==
  /\ line = "judge"
  /\ status' = [status EXCEPT ![visited] = Judged(visited)]
  /\ IF stale /\ status[visited] = "ALIVE"
     THEN line' = "suspect" /\ UNCHANGED <<visited, stale>>
     ELSE Leave
  /\ UNCHANGED <<g_node_table, ping_task, ack_status, timeVars, to_visit, taskVars, air, marking>>

attempt_to_reach_node ==
  /\ line = "suspect"
  /\ status' = [status EXCEPT ![visited] = "UNKNOWN"]
  /\ line' = "reach"
  /\ UNCHANGED <<g_node_table, ping_task, ack_status, timeVars, to_visit, visited, stale,
                 taskVars, air, marking>>

StartsTask_always(n) == TRUE                 (* mutant: a second ping task *)

StartsTask(n) == ping_task[n] = NULL

ReachOut ==
  /\ line = "reach"
  /\ IF StartsTask(visited)
     THEN \E t \in Task :
            /\ pc[t] = "free"
            /\ ping_task' = [ping_task EXCEPT ![visited] = t]
            /\ pinged' = [pinged EXCEPT ![t] = visited]
            /\ pc' = [pc EXCEPT ![t] = "start"]
     ELSE UNCHANGED <<ping_task, pinged, pc>>
  /\ Leave
  /\ UNCHANGED <<g_node_table, status, ack_status, timeVars, to_visit, tries, air, marking>>

----------------------------------------------------------------------------
(* ping_suspect_node.                                                      *)

At(t, l) == pc[t] = l
GoTo(t, l) == pc' = [pc EXCEPT ![t] = l]

Forgotten_never(n) == ack_status[n]          (* mutant: an old ack counts *)

Forgotten(n) == FALSE

PingStart(t) ==
  /\ At(t, "start") /\ pinged[t] # Self
  /\ ack_status' = [ack_status EXCEPT ![pinged[t]] = Forgotten(pinged[t])]
  /\ GoTo(t, "send")
  /\ UNCHANGED <<g_node_table, status, ping_task, timeVars, walkVars, pinged, tries, air, marking>>

(* The board has no ping message for itself: the task ends there and then, *)
(* and its handle stays in the entry.                                      *)
PingSelf(t) ==
  /\ At(t, "start") /\ pinged[t] = Self
  /\ GoTo(t, "free")
  /\ pinged' = [pinged EXCEPT ![t] = NULL]
  /\ UNCHANGED <<nodeVars, timeVars, walkVars, tries, air, marking>>

(* The ping is lost on the way, or there will be a reply.                  *)
PingSend(t) ==
  /\ At(t, "send")
  /\ GoTo(t, "wait")
  /\ \/ UNCHANGED air
     \/ /\ air[pinged[t]] < MaxAir
        /\ air' = [air EXCEPT ![pinged[t]] = @ + 1]
  /\ UNCHANGED <<nodeVars, timeVars, walkVars, pinged, tries, marking>>

MoreTries(t) == tries[t] + 1 < PINGS

PingLook(t) ==
  /\ At(t, "wait")
  /\ IF ack_status[pinged[t]]
     THEN GoTo(t, "alive") /\ tries' = [tries EXCEPT ![t] = 0]
     ELSE /\ tries' = [tries EXCEPT ![t] = @ + 1]
          /\ GoTo(t, IF MoreTries(t) THEN "send" ELSE "dead")
  /\ UNCHANGED <<nodeVars, timeVars, walkVars, pinged, air, marking>>

Verdict_onlyGood(t, n) ==                    (* mutant: silence changes nothing *)
  IF At(t, "alive") THEN "ALIVE" ELSE status[n]

Verdict(t, n) == IF At(t, "alive") THEN "ALIVE" ELSE "DEAD"

PingVerdict(t) ==
  /\ At(t, "alive") \/ At(t, "dead")
  /\ status' = [status EXCEPT ![pinged[t]] = Verdict(t, pinged[t])]
  /\ GoTo(t, "clear")
  /\ UNCHANGED <<g_node_table, ping_task, ack_status, timeVars, walkVars,
                 pinged, tries, air, marking>>

Cleared_not(t) == ping_task                  (* mutant: the handle stays *)

Cleared(t) == [ping_task EXCEPT ![pinged[t]] = NULL]

PingClear(t) ==
  /\ At(t, "clear")
  /\ ping_task' = Cleared(t)
  /\ pinged' = [pinged EXCEPT ![t] = NULL]
  /\ GoTo(t, "free")
  /\ tries' = [tries EXCEPT ![t] = 0]
  /\ aged' = [aged EXCEPT ![pinged[t]] = FALSE]
  /\ UNCHANGED <<g_node_table, status, ack_status, age, seen, walkVars, air, marking>>

ping_suspect_node(t) ==
  \/ PingStart(t) \/ PingSelf(t) \/ PingSend(t) \/ PingLook(t)
  \/ PingVerdict(t) \/ PingClear(t)

----------------------------------------------------------------------------
(* Time.                                                                   *)
GrowOlder(n) ==
  /\ n \in g_node_table
  /\ age[n] < Old
  /\ seen[n] /\ marking # n
  /\ ping_task[n] = NULL \/ n = Self \/ ~ aged[n]
  /\ age' = [age EXCEPT ![n] = @ + 1]
  /\ seen' = [seen EXCEPT ![n] = FALSE]
  /\ aged' = [aged EXCEPT ![n] = ping_task[n] # NULL /\ n # Self]
  /\ UNCHANGED <<nodeVars, walkVars, taskVars, air, marking>>

node_status_task ==
  BeginWalk \/ (\E n \in Node : ReadAge(n)) \/ Judge \/ attempt_to_reach_node \/ ReachOut

Next ==
  \/ \E o, s \in Node : Hear(o, s) \/ HearReply(o, s)
  \/ MarkAck
  \/ node_status_task
  \/ \E t \in Task : ping_suspect_node(t)
  \/ \E n \in Node : GrowOlder(n)

Spec == Init /\ [][Next]_vars

(* The tasks are endless loops, or run to their end.  No node ever has to  *)
(* be heard.                                                               *)
Fairness ==
  /\ WF_vars(MarkAck)
  /\ WF_vars(node_status_task)
  /\ \A t \in Task : WF_vars(ping_suspect_node(t))

FairSpec == Spec /\ Fairness

----------------------------------------------------------------------------
(* Properties.                                                             *)

Others == Node \ {Self}
Pinging(t) == pc[t] # "free"

(* A node is pinged by one task at a time: two would share one ping        *)
(* message and one verdict.                                                *)
OnePingTask ==
  \A t, u \in Task : Pinging(t) /\ Pinging(u) /\ pinged[t] = pinged[u] => t = u

(* The handle of an entry is that of a task at work on this entry; a stale *)
(* one would keep the node from ever being pinged again, as happens to the *)
(* board's own entry.                                                      *)
HandleIsLive ==
  \A n \in Others : ping_task[n] # NULL => Pinging(ping_task[n]) /\ pinged[ping_task[n]] = n

(* A node that is UNKNOWN and has been silent too long to be taken back by *)
(* the next walk still awaits the verdict of a run of pings, or the status *)
(* task is about to start one or to take it back.  It does happen that the *)
(* task suspects a node whose run is not over, one heard between the two   *)
(* lines that read its age and its status: UNKNOWN is then written over    *)
(* the verdict and no run is started, but the node is young.               *)
Undecided(n) == ping_task[n] # NULL /\ pc[ping_task[n]] \notin {"free", "clear"}

NotForgotten ==
  \A n \in Others \cap g_node_table :
    status[n] = "UNKNOWN" /\ age[n] = Old =>
      Undecided(n) \/ (visited = n /\ (line = "reach" \/ (line = "judge" /\ ~ stale)))

(* Every suspicion is settled.                                             *)
SuspicionEnds == \A n \in Others :
  (n \in g_node_table /\ status[n] = "UNKNOWN") ~> status[n] # "UNKNOWN"

(* A run of pings may declare a node dead that was heard in the meantime;  *)
(* the status task takes that back before the node may count as silent.    *)
HeardComesBack == \A n \in Node :
  (status[n] = "DEAD" /\ age[n] < Old) ~> (status[n] = "ALIVE" \/ age[n] = Old)

(* A node that is heard no more ends up dead, and stays so, since time     *)
(* passes.                                                                 *)
TimePasses == \A n \in Node : WF_vars(GrowOlder(n))

Silent(n) == <>[][~ \E o \in Node : Hear(n, o) \/ Hear(o, n) \/ HearReply(n, o) \/ HearReply(o, n)]_vars

SilentIsDead == TimePasses => \A n \in Others :
  <>(n \in g_node_table) /\ Silent(n) => <>[](status[n] = "DEAD")
=============================================================================
