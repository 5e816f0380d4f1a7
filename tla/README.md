# A formal model of ESP32_LoraMesh

ESP32_LoraMesh is firmware for a mesh of ESP32 boards with RYLR998 LoRa radios. A
board floods a greeting when it boots, answers the greetings and queries of its
neighbours, learns from every frame how far the other boards are and through which
neighbour, pings boards it has not heard for a while, and carries chat messages typed
in a web page it serves.

This directory holds TLA+ modules translated from the C source, TLC configurations
that model-check them on small instances, and theorems checked by TLAPS for every
size. Source paths below are relative to `src/main/`.

## 1. The system

### Components, their state and operations

| component | source | state | operations |
|---|---|---|---|
| Router | `src/routing.c` | `g_router`: list of destinations, for each an array of `MAX_ROUTING_ENTRIES` slots (intermediate, steps, `in_use`, `link_active`), `count`, `last_updated_seq`; `discovery_seq` | `router_update`, `router_parse_rquery` / `router_incorporate_rquery`, `router_answer_rquery`, `router_query_intermediate`, `router_unlink_node`, `router_link_node`, `router_bad_intermediate` |
| Receive handler and send queue | `src/lora_uart.c` | `q_rcv`, `q_resp`, `MessageQueue` (ids), `transfer_status` of entries, the reader's `line` | `rcv_handler_task`, `queue_send`, `message_sending_task` with `uart_send_and_block` and `format_message_command`, `uart_reader_task`, `parse_rcv_line` |
| Maintenance | `src/maintenance.c` | none of its own | `handle_maintenance_msg` (`gbcast`, `ping`, `rquery`, `unlink`, `link` and their answers), `rquery_task`, `resolve_system_command` (`SYS+LINK`, `SYS+UNLINK`, `SYS+NAME`) |
| Message table | `src/data_table.c`, `src/hash_table.c` | `g_msg_table`, its mutex, `entries` | `create_data_object`, `msg_find`, `hash_insert`, `hash_find`, `sort_hash_to_array` |
| Node table and status | `src/node_table.c` | `g_node_table`: status, misses, `ping_task`, `link_enabled`, `last_rquery`, ping message | `nodes_update`, `node_create_if_needed`, `node_status_task`, `attempt_to_reach_node`, `ping_suspect_node` |
| Boot | `main.c` | | the order in which tables are made and tasks started |
| Web server and page | `src/web_server.c`, `templates/index.html` | the page's last id and the ids it has seen | `POST /send`, `GET /api/messages`, `GET /api/nodes`; the page polls |
| Node identity | `src/node_globals.c` | address, name | `rand_msg_id` (16-bit ids), address |
| Encryption API | `src/encryption_api.c` | none | sealing a text, escaping the blob, and back; nothing but its own `main` calls it |
| Monocypher | `src/monocypher.c` | none | vendored cryptography |

### How they interact

The UART reader makes lines of the chip's bytes: frames (`+RCV=`) go to `q_rcv`, all
others to `q_resp`. The receive handler takes frames one at a time: it tells the router
(`router_update`), stores the frame in the message table unless its id is there, tells
the node table, and, unless it is a repeated `gbcast`, hands maintenance messages to
`handle_maintenance_msg`, which may change link flags in router and node table and queue
an answer. If the frame is an ack, the handler marks what it acks and, when it is not
the addressee, passes it on. `queue_send` asks the router for a next hop, marks the entry
and puts its id in `MessageQueue`; the sending task takes ids out, formats the entry as a
command for the chip, flushes `q_resp`, writes, and collects response lines until none
comes for 100 ms or 2 s have passed.

The web server's task, the rquery timer's task, the status task and one ping task for
each suspect node run beside them. They call `queue_send`, and read and write both
tables and the router. Only insertion into and search of the message table take a lock;
the reader of the page's messages, the router and the entries have none. The board has
two cores and its tasks run in parallel (`sdkconfig`).

### What is hard

* Frames of several boards cross on the air, come back from every neighbour, and may
  be lost; nothing below this code repeats them.
* A board restarts with empty memory while frames that refer to it are under way.
* A fact is kept twice (a link's state: in the router and in the node table, and at
  both ends of the link) and each copy is written by several paths.
* Slot arrays are searched for the first match, and a full one evicts: long mixed
  sequences of learning, cutting and relinking decide what is left.
* Several tasks write the same structures, most of them without a lock, and one walks
  a table others are inserting into.
* Responses of the chip carry no mark of the command they answer; they are told apart
  by time alone.
* A text goes through five buffers of nearly the same size and three codings.
* Tasks start before what they use is made.

The hazards, each at its line, are in `PROJECT.json`.

### What makes each component correct

* Router: one slot per intermediate; a direct neighbour keeps its slot; one step means
  direct; the way chosen is a nearest one that is up; learning loses no route; an
  answer tells what changed since the last one.
* Mesh: a greeting is passed on once; an ack goes back the way its message came and
  finds that message at every stop; while links hold a route leads to a node that has
  one, and without cycles routes do not loop; no estimate is below the true distance; both
  ends of a link agree whether it is cut; a newcomer gets to know everyone; messages in
  transit move on.
* Message table: no entry is lost; the page sees each entry once and misses none.
* Send queue: a queued message is sent or known to be refused; a response is taken for
  the command it answers; the greeting follows the address.
* Text: what is shown is what was typed, or nothing.
* Node status: one ping task per node; every suspicion is settled; a silent node ends
  up dead, and one that is heard comes back.

## 2. The modules

| module | what it is |
|---|---|
| `Routing` | the operations of `routing.c` as operators on a router value |
| `Router` | one node's router as the receive and maintenance handlers drive it, with the two fields of the node table that go with it |
| `RouteStore` | what a router promises: for every destination a bounded set of ways out |
| `RouterRefinement` | `Router` implements `RouteStore` |
| `Mesh` | several nodes with handlers, tables, queues and radio |
| `NodeStatus` | one board's node table, its status task and ping tasks, line by line |
| `Outbox` | `app_main` and the tasks it starts, `queue_send`, `MessageQueue`, the sending task's exchange of lines with the chip |
| `MsgTable` | the message table, the tasks that insert, the reader that does not lock, the page that polls |
| `TextPath` | a text from form to page: codings, buffers, byte reader, parser |
| `SafeChars` | the encryption API |
| `RoutingProofs` | lemmas about the operators of `Routing`, which the proofs about `Router` and `Mesh` share |
| `RouterProofs`, `MeshProofs`, `MeshRouteProofs`, `NodeStatusProofs`, `OutboxProofs`, `MsgTableProofs`, `TextProofs` | theorems |
| `MCRouter`, `MCMesh`, `MCNodeStatus`, `MCOutbox`, `MCMsgTable`, `MCText` | the constants of the TLC runs; `MCText` extends both `TextPath` and `SafeChars` and lets them take turns |

`Mesh` and `Router` are both built on `Routing`, so that what is proved and checked of the
operators in `Router` is what the nodes of `Mesh` run. The other modules each open up one
thing `Mesh` takes as a single step: `Outbox` the sending of an id, `MsgTable` the storing
of an entry, `TextPath` the contents of a frame, `NodeStatus` the sending of pings.

### Routing and Router

`destination_list` is a sequence of addresses, newest first, as the linked list of the
code; `best_routing_info[d]` is the slot array of the approximator of `d`. An address
without approximator has only free slots. `Lowest` stands for "the first in the
array". `UpdatedSlots` is `update_approximation_entry`: refresh the slot of this
intermediate, or fill the first free one, or overwrite the first farthest one.
`discovery_seq` wraps at `SeqWrap` (2^32 in the code) and starts with whatever the
heap held (`Garbage`). An answer to an rquery is a set of pairs with their order
(`at`), the order in which the text lists them.

`Router` has one action for each call of the handlers. `Hear` is
`rcv_handler_task`'s call of `router_update`; `ReceiveAnswer` and `IncorporatePair`
are `router_parse_rquery`, one pair at a time so that a `Link` from the web server's
task can come between two pairs; `AnswerRquery`, `Unlink` and `Link` are the handlers
of `maintenance.c`. `BadIntermediate` is in the API and not called by the program; it
is enabled for the nodes of `Droppable`, empty in all runs but one. What a frame may
say is what frames do say: it is one step old exactly when its sender is its origin,
and an answer leaves out the one who asked. `unseen` is history: the destinations
updated since each node of `Asker` last asked.

`RouteStore` has neither arrays, nor list, nor first matches: each destination has a set of
at most `Capacity` ways with different intermediates. `RouterRefinement` maps the used
slots to ways. The eviction of the code, the first of the farthest slots, becomes the
removal of any farthest way.

### Mesh

A node is a record of what a board keeps in memory: `router`, the node table as
`ping_id` (which addresses have an entry, and the ping message made with it),
`link_enabled`, `last_rquery`, `g_msg_table` and `MessageQueue`. Each C function is
an operator from node records to node records, and the operators compose in the
order the code calls them; `rcv_handler` is one turn of `rcv_handler_task`.

The actions are the tasks: `Receive` (a whole turn of the handler), `Transmit` (the
sending task and the air: every node in range that the frame is for gets it, or when
`Lossy` some subset), `Boot` and `Restart`, and the operations of users and timers
(`rquery_task`, `Ping`, `SysUnlink`, `SysLink`, `Post`), each performed at most once, in
any order and at any time, as the run's `Script` lists them. `Restart` empties memory
and `q_rcv`. A null pointer used by a handler makes the node's `mode` "panic".

Message ids are pairs (node, counter): the 16-bit random ids are taken not to repeat
across boards. What happens on one board when two tasks draw one id is in `MsgTable`.

### NodeStatus

`status`, `ping_task` and `age` are fields of the entries; `ack_status` is that of the
entry's ping message. The handler (`Hear`, `HearReply`, `MarkAck`), the status task and the
ping tasks (`PingStart` to `PingClear`) interleave line by line. For each node of its walk
the status task reads `last_connection` (`ReadAge`, `node_table.c:183`), then the status (`Judge`,
185-189), writes UNKNOWN (`attempt_to_reach_node`, 123) and looks at the handle (`ReachOut`, 124), with
whatever the others do in between. So a node that is being pinged can be suspected again: it is old
when its age is read, is heard, and is ALIVE when its status is read. UNKNOWN is then written over the
verdict of the run, no second run is started, and the next walk finds the node young; what must
not happen is that such a node is also old and nobody is left to settle it, which is `NotForgotten`.
One thing is a single step though it is two writes in the code, `nodes_update`'s `last_connection` and status
(`node_table.c:92-98`): the module's head says why this hides nothing. A ping is lost or has a
reply that may come at any later time (`air`).

Time is `age`: 0 for less than 60 s since `last_connection`, 1 for less than 120 s, 2 for
more. A run of pings takes 22.5 s (1.5 + 3 + 6 + 12), the status task looks at every node each 15 s, and the
handler goes from one line to the next in less than a second. So a node does not get older twice in one run of pings
(`aged`), nor twice without the status task reading its age in between (`seen`); these are the guards of
`GrowOlder`. Without either of them, that is with longer runs of pings or rarer walks, TLC finds
`NotForgotten` violated: the code relies on these times, too.

### Outbox

`MarkQueued` and `Enqueue` are the two halves of `queue_send`, between which other tasks
run; `GiveUp` is the 50 ms timeout of a full queue. `main` is the step `app_main` is at, and its
steps are `wifi_start_softap`, `Make` (a table, a queue or a task) and `Order` (a command).
`CallQueueSend` needs only that the caller's task exists (`After`), as in the code:
`NoRouter` and `NoQueue` are the NULL pointer and FreeRTOS's assertion that follow if it
comes too early. The sending task goes `Take`, `Flush`, `Write`, `ReceiveLine`s, `Return`.

A line of the chip is what it says and, as history, which command it answers; lines that answer
nothing (`StrayLine`) may come at any time. Any line, whatever it answers, leaves the chip 100 ms more
(`lora_uart.c:188`, `203`), and 2 s are the end in any case. In place of the clock, `WaitEnds` says when the
wait cannot have ended yet (`AllSaid`): the chip owed nothing at the flush, and the command is one it answers
within 100 ms (`Quick`), which no other line can cut short, or one it answers within 2 s, line upon line
(`Prompt`), of whose answer a line has come or before which none has come at all. In every other case the wait
may end with the answer still to come: after a stray line for a command that takes longer, for a command that is
not prompt (a long frame takes seconds on the air), or behind the answers of such a command (`owed`). The
lines then meet the next command, as in the code.

### MsgTable

A chain is the sequence behind a head pointer. Inserting takes the steps of
`create_data_object` and `hash_insert`: timestamp, a search for the drawn id under the
mutex, `lock`, `entries++` and `next`, then the head pointer. `api_get_msgs` runs without
the mutex: it sizes the array by `entries`, copies chain after chain, sorts by timestamp
(`qsort` leaves entries of one second in any order), and sends rows until it meets the id
asked for, reading `entries` anew each time round. Writing past the array, reading past
it or handing NULL to the comparison makes `mode` "broken". The page polls one fetch at a
time; an answer may be lost.

### TextPath and SafeChars

A text is a sequence of units, a raw character or a third of a `%HH`. The steps are those
of the program: the browser's form encoding, `send_post_handler` cutting at 249
characters and replacing `+`, `format_message_command` cutting at 255 while it announces
the full length, the chip taking a command that is as long as it says, the reader's
bytes, the parser's fields, the page's decoding. The parser asks only that eleven items were read: a comma
in a name ends `data`, what follows is read as the first of the eight numbers, and what is then left of the frame's own fields
nobody looks at (`Scanned`). Nobody types a `%`, which the page would decode once more in a name.

`SafeChars` follows a text through
`encrypt_to_peer`, `encode_to_safe_chars`, `decrypt_message` and `decrypt_from_peer`;
lengths are remainders modulo `MODULUS`, as in a `uint8_t`, and cipher text is any bytes. What is compared in the end is the text's own
bytes: `pt_out` is never ended with a NUL (`encryption_api.c:102-112`).

## 3. The runs

Model values stand for addresses, tasks and messages. Every bound is a constant of the cfg.

| run | instance | shows |
|---|---|---|
| `router_slots` | three neighbours, two of them also spoken of by the others; two slots; answers of two pairs | `Unique`, `OneStepIsDirect`, `DirectMirror`, `DirectSlotKept`, `LearningKeepsRoutes`, `ChosenIsNearest`, `ImplementsStore`. Two slots and three neighbours are the smallest instance where a full array must evict with the direct slot in it. `SeqWrap = 1` folds the counter, so the number of updates is not bounded. |
| `router_fresh` | two neighbours, one of which asks, two far nodes, answers of two pairs, seven updates from a start other than 0, one dropped intermediate | `FreshOffered`, `AnswerComplete`: without the one who asks three destinations compete for two pairs, new ones with new ones and with older ones. The counter does not wrap. |
| `mesh_flood` | a triangle, one node boots and asks for routes, any frame may be lost | `FloodOnce`, `NoPanic`, `AcksRetrace`: a greeting may arrive the long way round, after a direct route has been learnt, and its ack must still go the long way back. |
| `mesh_ask` | four nodes in a line, the end one boots, two rqueries | `NextHopKnows`, `LoopFree` (in a ring routes may loop, see 5), and under fairness `NewcomerLearns`. |
| `mesh_changes` | a line of three: boot, restart, unlink, link in every order | `NoUnderestimate`, `LinkMirror`. |
| `mesh_cuts` | a triangle: both ends cut one link while a ping and a chat message are under way | `CutAgreed`. |
| `node_status` | the board and one other, two task handles, two pings to a run, one reply under way | `OnePingTask`, `HandleIsLive`, `NotForgotten`, and under fairness `SuspicionEnds`, `HeardComesBack`, `SilentIsDead`. Nodes meet only in the status task's walk, so one other node shows what there is; two pings give a first and a last; one late reply may cross into the next run. |
| `outbox` | `app_main` with its three messages, two of them quick, the third prompt; one of the web server that is neither; a queue of two, a response queue of one, one stray line | `QueuedIsPending`, `NoForeignLine`, `GreetsWithAddress`, `OwnStatus`, `Settles`. Four messages of two tasks against a queue of two fill it; answers of none, one and two lines against a response queue of one overflow it; the stray line comes before, within or after any answer, and ends the wait for the third or the fourth message too early. |
| `msg_table` | three tasks with one entry each, three ids, two chains, two seconds, one lost answer | `NoneLost`, `TwinsRace`, `NothingSkipped`, `Complete`, `AllShown`. Three entries in two chains: two are in one chain, and two tasks race while the reader is between the chains. |
| `text` | every text of up to three characters of nine, of a letter and perhaps a comma up to 16, names of up to five of what numbers are made of; buffers of 15 to 17 instead of 250 to 256 | `WholeOrNothing`, `ShortArrives`, `NameOrNothing`, `RoundTrip`. The buffers keep their order and their distance of a few characters, so that texts end just before, at and after the end of each. A name has room for four characters: that eight numbers follow a comma does not happen here, and is left to the proof. |
| `router_cut`, `mesh_relay` | the smallest instance of each finding | see 5. |

`CHECK_DEADLOCK FALSE` where the system rests: in `Mesh` once a script is performed and every
frame handled, in `Outbox` and `MsgTable` once all is sent or stored or the board has
stopped, in `text` because a text that is sealed and opened ends its run.

The runs of `Mesh` set `SeqWrap = 1`, which makes every destination "not updated since".
With no more destinations than an answer has pairs this changes no answer's contents,
only its order: `AnswerComplete`, checked in `router_fresh`, says so.

The nodes of `Quiet` start as boards that booted before anyone could hear them: their
greeting is out, their tables hold themselves. This is a state of the real system, and
saves exploring the product of four boots.

Of the type invariants, `TypeOK` of `TextPath` is checked by `text` and that of
`MsgTable` by `msg_table` (`NoneLost` includes it), and both are proved; those of `Router`,
`Mesh`, `NodeStatus` and `Outbox` are proved.

### Fairness

* `Mesh`: weak fairness of `Transmit(n)` and of `Receive(n)` for each node. Both are endless FreeRTOS
  loops that block only on their queues. The receive handler has the higher priority (10, the
  sending task 5: `lora_uart.c:284`, `main.c:49`), but it blocks between frames, which arrive at
  radio speed and are finitely many for a finite script, so the sending task runs in between. It is
  stated of `Sends(n)` and `Takes(n)`, the conjuncts of the two actions that take from a queue: they
  are enabled exactly when the whole action is, and cheap to evaluate. `NewcomerLearns` is checked
  without loss: nothing in the code repeats a lost greeting.
* `NodeStatus`: the status task and the handler are endless loops, a ping task runs to its end.
  Nobody has to be heard, and time has to pass only in `SilentIsDead`, as its hypothesis.
* `Outbox`: `app_main`, the reader, the sending task (every wait of it ends) and a caller
  that has marked an entry. Nothing is assumed of the chip: `Settles` holds if it never answers.
* `MsgTable`: the page polls while it is visible, the server answers, a task that began to store
  finishes. An answer may be lost `MaxLost` times.

Nothing is assumed of users, timers or power.

## 4. What is proved

All from the named assumptions on the constants, and from the hypotheses a theorem names: for
any set of nodes, slots, counter width, number of pings, tasks, messages and queue lengths.

**`RouterProofs`**: `TypeCorrect`; `UniqueAlways` (inductive together with `TypeOK`);
`RoutesAreKept`; `AnswersComplete`; under `SlotToSpare` (two slots or more, the code has four; no
intermediate is dropped, as in the program) `OneStepAlwaysDirect`, `MirrorAlways`,
`DirectNeverEvicted`; and under `NoWrap` `FreshAlwaysOffered`.

Learning is the only operation that chooses a slot. `UpdateCases`, in `RoutingProofs`, says all there is to know of the
choice: it refreshes a slot of this intermediate, or, when there is none, fills a free slot, or a
farthest one when none is free. It rests on `LowestIn` (the first match is a match) and
`FarthestExists` (some slot is farthest), which follow from the well-foundedness of `<` on the
naturals. `UpdatedDirect` then shows that eviction spares the direct slot: there is another slot, it is
used, by `Unique` it is not direct, so it is two or more steps away, and the direct slot, at one step,
is not farthest. With a single slot this fails, hence `SlotToSpare`.

`OneStepIsDirect` and `DirectMirror` are not inductive. `DirectInv` adds that

* a link whose direct slot does not exist has never been cut: otherwise a slot filled by
  the next frame would be active while the node table says cut. This needs direct slots to
  survive, which needs `OneStepIsDirect`, so the three are proved together;
* the sender of the pairs being parsed has been heard: otherwise a pair about the sender
  itself would fill its direct slot with more than one step;
* pairs advertise at least one step.

`AnswerComplete` needs no invariant: it holds of every router. `FreshOffered` rests on `FreshInv`:
a destination updated since a node of `Asker` last asked is dated after the number that
node's next answer starts from, which `discovery_seq` is never behind. It needs that the counter
does not wrap within the bounded number of updates (`NoWrap`); once it wraps, see 5.

Its last part is the refinement, under no assumption beyond those on the constants, dropped intermediates included:

* `SlotsImplementStore`: `Spec => ImplementsStore`, step by step. `Room` is the heart of it: with one slot
  per intermediate the slots in use and their ways are in bijection, so that a free slot means
  fewer ways than `Capacity`, and overwriting a slot takes only its own way out of the set. `RefreshesWay`
  and `FillsWay` carry the two cases of `UpdateCases` over; `StoreInv`, the inductive invariant,
  adds to `Unique` that the sender of the pairs being parsed is a node and that their steps plus one stay
  within the bound.
* `NearestIsChosen`: `ChosenIsNearest` needs that every destination with a used slot is in
  `destination_list` (`Listed`): else the search would miss a way that is up.

**`NodeStatusProofs`**: `TypeCorrect`, and `OnePingTask`, `HandleIsLive`, `NotForgotten`. The
first two need that handle and task point at each other (`ping_task[n] = t` just when `t` is at
work on `n`). The third is about time and the order of lines. Its strengthening is `Settling`: an UNKNOWN node awaits a verdict, or
the status task is at work on it, or it is not old and its age has not been read since it last changed, so that the next walk takes it
back before it can grow older. `Walk` says what the status task knows between its lines: a node it found old is as
old still or was heard since (`HeardSince`), and the latter if a run of pings is on when it suspects the node. `Ages` says
why: since a run of pings began its node has grown older by one at most, so that it is either still old, or `Young`, heard in the
meantime; while it is old it is not ALIVE, for it was written UNKNOWN when the run began, and all that can make it ALIVE
again (a frame, a walk that finds it young, an ack) comes with its being `Young`, which it then stays
until the run ends.

**`OutboxProofs`**: `TypeCorrect`, then

* `NothingForgotten`: `QueuedIsPending` is inductive with the types. The case that matters is
  `Take`: the id leaves the queue, and the sender, idle before, has it.
* `LinesKeptApart`: `Apart` says which lines may be in the response queue and under way at each
  line of the sending task: after the flush only strays and those of commands the chip still owed an answer, while it waits also
  its own. `NoForeignLine` is its last case.
* `AddressFirst`: `Ordered` follows the two commands from `app_main` through the queue: wherever
  the greeting stands in `MessageQueue`, the address stands before it or has left. It needs that
  only `app_main` sends the two, and that a refused address is never queued again.
* `StatusIsOwn`: `OwnStatus`. While none of its lines was refused, the answer's lines are in their order
  in what the sender has taken, what is in `q_resp` and what the chip has still to say, one after the
  other (`Stream`, `Holds`): a line only moves from one to the next. The wait of a command `OwnStatus` speaks of
  ends when nothing of its own is left in the last two; so what was taken ends in an error just when the answer does
  (`Tells`), whatever strays lie between. That the wait lasts so long is what `WaitEnds` assumes of the chip's pace, and only of
  these commands; of the others nothing is proved, since it is false.

**`MsgTableProofs`**, for any tasks, ids, table size (`SizeOfProgram`: the program's is 101, the first
prime from 100) and any value the mixer gives an id:

* `NoEntryLost` and `TwinsAreRaced`, from `InsertInv`, which the inserting tasks keep. Its parts: the
  mutex is held from `entries++` to the new head, and meanwhile the chain that the new entry points
  to does not change (`Exclusive`), so that linking it drops nothing; each entry a task made is at
  one place (`Numbered`) of the chain its id hashes to (`Chained`); the count is that of the places,
  and one more while an entry is being linked (`Counted`); an id found stored that a task has already drawn
  was linked after its search (`Raced`). The search and the insertion hold the mutex each for itself:
  that is why `Raced` is all one can have.
* `ReaderComplete` and `NothingIsSkipped`, from `ReadInv` on top of it, for the reader that takes no
  mutex. What it has copied is stored, without repetition, and of the chains it has been through
  (`Walking`). When it sorts, having copied as many as were counted, it has all: that is the pigeonhole
  of `Counted`. From then on whatever it lacks is newer than all it has, or `late` (`Sorted`,
  `Answered`), and so is what the page has not been shown (`NothingSkipped`).

**`MeshProofs`**, for any finite set of nodes none of which reaches itself, any topology, script and
queue lengths, loss or none:

* `TypesAlwaysOK`: `TypeOK`.
* `FloodsOnce`: `FloodOnce`, if no node restarts (`Steady`). A restart forgets the ids that were passed
  on, so a greeting still under way is then passed on again; the property is about one life of a node.

The handlers are long compositions of small operators on the record of a node. So the argument has
two halves. `Ready` is what each operator preserves of its node, and `Learns` what it may do to the message
table: add messages of its own, never forget or rewrite one. Each operator has its lemma, and the lemma
of an operator cites those of the operators it calls, up to `rcv_handler`. Then `Sane`, the invariant of the
mesh, adds what relates nodes and frames: whoever holds a message says the same of it (`Said`, `Agreed`), and
no id is about that its node has not drawn (`Drawn`). `FloodOnce` is in `Ready` as `OnceEach`: the gbcasts a node
has sent are in its table, those queued are others, each queued once; a gbcast is queued when its entry is
made, and an id that is in the table is not made again.

**`MeshRouteProofs`**, of the same meshes, under the hypotheses each names: `Roomy` (two slots or more), `Symmetric`
(a node hears whom it reaches), `Uncut` (no unlink in the script), `Steady` (no restart):

* `LinksMirrored` (`Roomy`): `LinkMirror`, through cuts, relinks, restarts and loss.
* `NeverUnderestimates` (`Roomy`, `Symmetric`): `NoUnderestimate`, through the same. A slot's steps are one more than
  those the sender claims, the sender's claim is no less than its distance, and who hears it is one
  step further at most (`NearNext`). The sets of nodes within k steps are given by a recursive function;
  `BallsExist` shows that there is one.
* `AcksRetraced` (`Roomy`, `Uncut`): `AcksRetrace`, restarts included. The ack's target is what the router gives for
  the node the message came from. `HopBack`: a neighbour that was heard, and whose link is not cut, is its
  own next hop, since its slot at one step is active and none is nearer. With a link cut the router may
  choose another way (see 5), hence `Uncut`.
* `NeverPanics` (`Roomy`, `Uncut`, `Steady`): `NoPanic`. A node an ack reaches has the message it acks, as the
  frames that led there passed through it and it keeps what it passed on (`Traced`). After a restart it does
  not (see 5), hence `Steady`.
* `NextHopsKnow` (`Roomy`, `Uncut`, `Steady`): `NextHopKnows`, from `Guided`: every slot, not only the one chosen, leads
  to its destination or to a node that has a way there, and no node ever loses a way. A frame brings
  a slot for its origin through its sender, which has a way to that origin since the frame came through it;
  an answer brings slots for what it advertises, through its maker, which advertised its own ways.

* `NoLoops` (`Roomy`, `Symmetric`, `Uncut`, `Steady`, and `Acyclic`: the mesh is a tree, or several): `LoopFree`, whatever is
  lost. Each hypothesis but `Symmetric` was seen to be needed: TLC finds a loop in a ring (see 5), and on a line of three with a cut,
  with a restart, or with one slot.

For the first five the invariant is `Woven`, in the same two halves: what a node's router and entries are (`Bonded`, with `Knows`, `Tied`,
`Fit`), and what a frame under way says (`Framed`, `FrameLed`, `Traced`). Each hypothesis stands inside
it at the clause that needs it, so that one induction serves the five theorems.
`NoPanic` and `NextHopKnows` are checked by runs without cuts and restarts, and `AcksRetrace` by one without cuts.

`NoLoops` needs true distances besides, and has its own invariant, `Straight`, beside `Woven`. `Acyclic` says that for each destination there
is a level for every node, neighbours one apart, with at most one neighbour `Closer`; `Hops` is that level. Every slot, entry and
frame tells a true number of steps (`SlotAligned`, `Told`, `FrameTold`), and a node with any slot for a destination has one
by way of the closer neighbour (`Leans`), which is then the best (`BestAligned`): so each next hop is closer, and a set of
nodes whose next hops stay in it has no closest one. What carries it is that a message comes to a node first from the
closer neighbour (`WovenFirst`: a sender that is farther had it from this node), that a farther neighbour with a way has
it through this node, so that its answer says nothing new (`Grounded`, `WovenGrounded`), and that evicting one of the farthest of two or
more slots spares the closer one (`UpdatedAligned`). TLC found `Straight` to hold on a line and a star of four before it was proved.
`LoopFree` is stated of sets of nodes, in place of walks: no nonempty set without the destination is closed under next hops.

Last in `MeshRouteProofs`: `CutsAreAgreed`, that is `CutAgreed`, under `Roomy`, `Symmetric`, `Steady`, no loss (`Reliable`), no
`SYS+LINK` in the script (`Unjoined`) and `[]Spacious`, no send queue ever full. Each of the last four is needed, and TLC finds a
counterexample on the triangle of `mesh_cuts` without it: a lost `y` is not repeated (`maintenance.c:126`), nor is one dropped by a full
queue (`lora_uart.c:263`; a queue of three, with `b` about to send an `rquery` and a chat message when the `unlink` arrives),
a node that restarts forgets its cuts, and a late `y` cuts one end of a link made up again (see 5). `mesh_cuts` runs within all of them.

`Matched` is the invariant: whoever has cut a link is *followed* by the other end, which has cut it too, or has
panicked, or has a `y` for it under way or in the first one's queue. That the `y` gets there, and counts, takes two more
parts. `Consented`: a node makes a `y` only for the unlink of a neighbour it has cut by then, and still has that unlink.
`Held`: the node that a message started from has it. So the one a `y` is for is on and has the unlink it
answers (`YesIsMeant`, with `Agreed` of `Sane`), and hears it, since a `y` is sent straight to a neighbour (`Fit`, `YesIsHeard`).
`Cuts` says of each operator of the handler what it does to links, queue and messages, and `Heeds` of the whole
handler: nothing to the links, or its end cut on a `y`, or its end cut and a `y` queued on an unlink.
TLC found `Matched` to hold on a triangle and a line of three before it was proved.

**`TextProofs`**, for any characters and texts, buffers of any sizes that stand to each other as in the program, any
number of bytes and any escape codes that differ:

* `TextInvariance`: `TextInv`, and from it `TextTypeOK`, `TextWholeOrNothing`, `TextShortArrives` and `TextNameOrNothing`.
  The invariant says what is stored (`ContentIs`), handed to the chip (`CommandIs`), read (`ReceivedIs`) and shown
  (`ShownIs`) of a text, at each stage, as a function of the text.
* `SafeInvariance`: `SafeInv`, and from it `SafeRoundTrip`, that is `RoundTrip`: how blob (`SealedAs`), text and outcome
  (`OpenedAs`) follow from the length, whatever bytes the header and the cipher text are.

Both are about loops over sequences, and no step of an action repeats. So the work is in three kinds of lemma:

* Blocks. A form, and an escaped blob, is one block of units for each character, laid one after the other: `FlattenLays`
  says of the library's `FlattenSeq` where each block lies. A decoder reads one block, yields its character and goes on where
  the block ends, and `BlocksDecode` says that whatever does so gives back what the blocks were made of.
  It serves `url_decode` and `Decoded` alike. That the decoders, recursive functions of the position, exist at all
  is `DecodingExists`, by well-founded recursion from the end of the text. The two orders of undoing `+` and `%HH` differ
  just here: once `%HH` is undone, a `+` that was typed is no longer told from a space.
* Bytes. The reader is a fold over the bytes of a frame. `ReadFrame` says what comes of it: the frame if it fits
  the line, and otherwise at most an end of it, for each time the line is full the reader drops it and goes on. An end
  of a frame has no head, so `WhatIsHeard`: the page sees the whole frame or nothing.
* Cuts. A cut by `payload` or `command_buffer` leaves fewer characters than the command announces, so that the chip
  refuses it; a cut by `message` leaves a payload too long for its buffer, so that it is cut again
  (`FormattedWhole`, `TakenWhole`). The second half is `PAYLOAD < MESSAGE + 2` in `TextPathAssumption`, where two units stand for
  the fields; in the program it is 256 < 250 + 12, the fields being twelve characters at least. With a larger
  `payload` a message cut at 249 characters would be shown without its end.

Left to TLC, since this prover does not do liveness under fairness: `NewcomerLearns`, `SuspicionEnds`,
`HeardComesBack`, `SilentIsDead`, `Settles`, `AllShown`; and `RelayPasses` and `CutLinkNotUsed`, which are violated. `LoopFree` is proved
where it holds, and false of rings (see 5). Every other property of a passing run is proved.

## 5. Findings

Runs that TLC finds violated:

* `router_cut`: a slot filled for a *new* destination is active (`routing.c:135`) although its
  intermediate is a neighbour whose link is cut, so messages leave over the cut link while
  the node table says it is cut (`maintenance.c:121-125`).
* `mesh_relay`: a chat message in transit is stored as `MSG_RELAYED` and never sent on: only acks
  are passed on (`lora_uart.c:329-346`).

Where a property has an exception written into it, the exception happens:

* `NothingSkipped`, `AllShown` (`late`): a message stamped in the same second as one the page
  has, or stamped earlier and linked later, is never shown: the page asks for what is newer than the
  newest it saw, and rows end at that id (`web_server.c:149`).
* `TwinsRace`: two tasks that draw at the same time may link one id twice (`data_table.c:74-96`),
  though an id is the "unique id of message" (`data_table.h:49`).
* `Complete` (`mode = "broken"`): the reader's array is overrun, or NULL is compared, when an entry is
  linked or counted during the walk (`hash_table.c:132`, `web_server.c:147`).
* `QueuedIsPending`, `GreetsWithAddress` (`lost`): an id refused by a full queue stays QUEUED, its sender
  does not know (`lora_uart.c:263`).
* `OwnStatus` (`dropped`, `owed`, commands that are not heard): an error line may be refused by a full `q_resp`
  (`lora_uart.c:392`), or come after the wait and be taken for the next response. Any line at all, one that answers nothing too,
  starts the 100 ms that end the wait (`lora_uart.c:188`, `203`), so that one which comes before the answer of a frame still on the
  air has the frame recorded as OK.
* `NoRouter`, `NoQueue`: a browser that posts before the router or the queue exists stops the board, since the web server
  is started first (`main.c:25-31`).
* `NotForgotten`: a node is suspected although it is being pinged, when it is heard between two lines of the status task
  (`node_table.c:183-189`); it comes out UNKNOWN, until the next walk, even if the run of pings found it alive.
* `HandleIsLive` (`Others`): the board has no ping message for itself; if it does not hear itself for 120 s it
  starts a ping task that ends at once and leaves its handle (`node_table.c:142-145`).
* `ShortArrives` (`alone`), `WholeOrNothing`: a payload cut at 255 characters is announced and written at its
  full length, past the buffer's end (`lora_uart.c:84-92`, `164`); it has no line end, and spoils the
  next command.
* `NameOrNothing`: a name with a comma shifts the fields of every answer to a ping
  (`lora_uart.c:58`). If what follows the comma is no number, the answers are dropped and the board looks dead to its neighbours. If
  it is one, the frame is taken: type, steps and ids are each the field before theirs, the router is told
  of the number as an origin, and the ack is for an id that may not be in the table, which the handler then writes through
  (`lora_uart.c:337-338`). A `+` in a name is shown as a blank (`templates/index.html:159`). `SYS+NAME=`
  with no name makes `sscanf` return EOF, which is not 0, and the name is what the stack held
  (`maintenance.c:188`).
* `RoundTrip`: at 183 characters and more length and header exceed a `uint8_t`; an escaped blob may
  overrun its buffer before the check that refuses it; the answer of `crypto_aead_unlock` is not looked
  at, and the opened text is never ended with a NUL (`encryption_api.c`).
* `NoPanic`, of meshes without restarts and cuts: with a restart, or a link cut, it fails (the first two of the next list).
* `FreshOffered`: what had no room in an answer is not new any more at the next one, and may never be told
  (`routing.c:255`, `286`).

Noticed while reading or in exploratory runs, without a run here:

* an ack for a message sent before a restart is looked up, not found, and written through
  (`lora_uart.c:337-338`): the board restarts again;
* the answer to an rquery is routed (`maintenance.c:168`) and takes another neighbour when the link with the
  one who asked is cut; an ack is meant to go "along the path it came" (`lora_uart.c:344`);
* unlink, then link at once: the late "y" cuts one end of a link that is up again at the other
  (`maintenance.c:135-143`); nothing repairs it;
* a broadcast chat message (`templates/index.html:511` sends it to address 0) goes through the
  router (`web_server.c:226`), which has no route to 0, so `queue_send` drops it
  (`lora_uart.c:255`);
* a board named as a command (`ping`, `link`, `gbcast`, by `SYS+NAME`) has its answers taken for that command
  (`maintenance.c:53`, `69`, `149`); in `Mesh` a name is none of them;
* a chat message that begins with `AT` or `SYS` is taken for a command (`web_server.c:228-239`); one with a
  quotation mark or a line end breaks the JSON of every later answer (`data_table.c:123`);
* no response line for 2 s: `response_buffer` was never written and is stored up to whatever NUL follows
  (`lora_uart.c:127-133`);
* a neighbour first heard passing on a copy of a message enters the router but not the node
  table, because `nodes_update` is given the entry of the first copy (`lora_uart.c:318-324`);
* `discovery_seq` starts uninitialised (`routing.c:43-50`), and after it wraps nothing is fresh
  for a requester until it has asked again (`routing.c:258`);
* after a cut, a node may fall back on a neighbour whose only route leads back to it: there is no
  split horizon;
* no cut is needed for a loop. A slot takes the steps of the latest frame even when they are more than it had
  (`routing.c:106-112`, which wonders whether to "take min"). In a ring d-x-m-n-y let d greet and only x hear it, so
  that m and n learn of d by way of x; let d restart and only y hear the second greeting, which comes to n
  and m the other way round; with the frames of the two crossing, m's way to d leads by n and n's by m.
  TLC finds the state when led to it, so that `NoLoops` is of meshes without cycles only.

## 6. Not modelled, and the plan

In `Mesh` a turn of a handler is one step, so races inside a turn are not seen there; `Router` has the one
between two pairs of an answer, `NodeStatus`, `Outbox` and `MsgTable` those of their own state. The page's overlapping fetches
are not modelled: it has one at a time. `GET /api/nodes` only formats what it
reads. Signal strength, its averages and the count of misses are written and never decided upon.
Left out for good: Wi-Fi, sockets, drivers, page layout, vendored cryptography, build files. A failing
`malloc` or `xTaskCreate` is not modelled: the code's own answers to it are returns of NULL that no caller looks at.

What could follow: `LinkControl`, the two writes of a link change as separate steps, at both ends of a link and in two
tasks (`maintenance.c:112-159, 194-226`).
