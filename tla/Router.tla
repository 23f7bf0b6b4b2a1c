------------------------------- MODULE Router -------------------------------
(***************************************************************************)
(* The routers of a grid, flit by flit (router.h): which input of a router *)
(* may use which output (calc_inp4out, next_route), how a message holds an *)
(* output until its last flit (advance), and the queues between routers    *)
(* and cores.  One board, without express links and task stealing; the     *)
(* wiring and the choice of the port are those of RoutingRules.            *)
(*                                                                         *)
(* One step of a router serves all outputs of one channel.  The order in   *)
(* which the channels take their turn on a shared physical link, the time  *)
(* stamp of a head (a head that is not due is passed over) and a flit that *)
(* came after check_queues_occupancy() are left to a choice: the step only *)
(* looks at some of the inputs that are not empty.                         *)
(***************************************************************************)
EXTENDS RoutingRules, Sequences, SequencesExt

CONSTANTS
  Traffic,      \* the messages the cores send: a sequence of [q, src, data]
  rq_size,      \* length of the queues between routers
  iq_size,      \* length of the input queues of a core
  oq_size,      \* length of the output queues of a core
  wide_noc      \* the channels that move two flits per cycle

Channels == 1 .. 3
num_task_params == <<3, 2, 2>>

ASSUME RouterAssumption ==
  /\ BOARD_W = GRID_X /\ GRID_X > 1 /\ RUCHE_X = 0 /\ STEAL_W = 1
  /\ Traffic \in Seq([q : Channels, src : Tile, data : 0 .. GRID_X * GRID_X - 1])
  /\ {rq_size, iq_size, oq_size} \subseteq Nat
  /\ wide_noc \subseteq Channels /\ (GRID_X \div PROXY_W > 1 => 2 \in wide_noc)

Messages == DOMAIN Traffic

(* A flit is a message and a place in it; the last two ports are the ends  *)
(* of a router towards its core: C from the core, IQ to the core.          *)
Size(m) == num_task_params[Traffic[m].q]
Flit    == {f \in Messages \X (1 .. 3) : f[2] <= Size(f[1])}
IsHead(f) == f[2] = 1
IsTail(f) == f[2] = Size(f[1])

Inputs  == {"N", "S", "W", "E", "C"}
Outputs == {"N", "S", "W", "E", "C"}
DIRECTIONS == 11
Index(port) == CASE port = "N" -> 0 [] port = "S" -> 1 [] port = "W" -> 2
                 [] port = "E" -> 3 [] OTHER -> 10

Queues == Tile \X (Inputs \union {"IQ"}) \X Channels

VARIABLES
  queue,    \* queue[<<tile, port, channel>>]: input_q and output_core
  open,     \* open[<<tile, output, channel>>]: the input that holds the output
  next_d,   \* next_d[<<tile, channel>>]: the input looked at first
  sent,     \* per message, the number of flits its core has queued
  ran       \* the tasks that ran: <<message, tile, input queue>>

vars == <<queue, open, next_d, sent, ran>>

Init == /\ queue = [k \in Queues |-> <<>>]
        /\ open = [k \in Tile \X Outputs \X Channels |-> "none"]
        /\ next_d = [k \in Tile \X Channels |-> 0]
        /\ sent = [m \in Messages |-> 0]
        /\ ran = {}
-----------------------------------------------------------------------------
(* Queues.                                                                 *)

Length(k) == CASE k[2] = "C" -> oq_size [] k[2] = "IQ" -> iq_size [] OTHER -> rq_size

(* Fault: the last free place counts as two.                               *)
cannot_fit_two_late(k) == Len(queue[k]) >= Length(k)
cannot_fit_two(k) == Len(queue[k]) >= Length(k) - 1

more_than_half_free(k) == Len(queue[k]) < (Length(k) + 1) \div 2

(* The queue that an output feeds.                                         *)
Fed(t, d, q) == IF d = "C" THEN <<t, "IQ", q>> ELSE <<Neighbour(t, d), InputAt(d), q>>
-----------------------------------------------------------------------------
(* Which input gets an output.                                             *)

dst(f) == get_dst(Traffic[f[1]].data)

(* Does a proxy on the way take a message for task 3 into its core?  With  *)
(* PROXY_ROUTING 4: when the way on is nearly full and the core's queue is *)
(* not, or when that queue is not half full.                               *)
Sinks(t, q, f, o) ==
  LET d == dst(f)
      on == IF d.y < t.y THEN "N" ELSE IF d.y > t.y THEN "S" ELSE IF d.x < t.x THEN "W" ELSE "E"
  IN /\ MayCapture(q, t, d, o)
     /\ \/ MustCapture(q, t, d, o)
        \/ ~cannot_fit_two(<<t, "IQ", 3>>) /\ cannot_fit_two(Fed(t, on, 2))
        \/ more_than_half_free(<<t, "IQ", 3>>)

PortOf(t, q, f, o) == IF Sinks(t, q, f, o) THEN "C" ELSE Direction(q, t, dst(f))

output_routable(t, d, q) == TORUS = 1 => Len(queue[Fed(t, d, q)]) < rq_size - 4

(* The inputs with a head for output d that may go there: straight on, to  *)
(* the core, or around a corner when the queue behind it is not too full.  *)
Wants(t, q, seen, d) ==
  {o \in seen : LET f == Head(queue[<<t, o, q>>])
                IN /\ IsHead(f)
                   /\ PortOf(t, q, f, o) = d
                   /\ d = "C" \/ o = InputAt(d) \/ output_routable(t, d, q)}

(* The first of them from next_d on.                                       *)
Rank(t, q, o) == (Index(o) - next_d[<<t, q>>]) % DIRECTIONS
Granted(t, q, seen, d) ==
  LET W == Wants(t, q, seen, d)
  IN IF W = {} THEN "none" ELSE CHOOSE o \in W : \A p \in W : Rank(t, q, o) <= Rank(t, q, p)

(* With proxies, a message for task 3 or 3' enters the core in one piece:  *)
(* in queue 2 at the owner, if there is room, else in queue 3.             *)
t3_to_core(q, d) == GRID_X \div PROXY_W > 1 /\ q \in {2, 3} /\ d = "C"
(* Fault: a message stays in the queue of its channel.                     *)
LaneSame(t, q, d, o) == q
Lane(t, q, d, o) ==
  IF ~t3_to_core(q, d) THEN q
  ELSE IF dst(Head(queue[<<t, o, q>>])) = t /\ ~cannot_fit_two(<<t, "IQ", 2>>) THEN 2 ELSE 3

MayStart(t, q, d, o) ==
  t3_to_core(q, d) => /\ Len(queue[<<t, o, q>>]) > 1
                      /\ (Lane(t, q, d, o) = 3 => ~cannot_fit_two(<<t, "IQ", 3>>))

(* The input that output d takes flits from in this step.                  *)
Source(t, q, seen, d) ==
  LET o == open[<<t, d, q>>]
      g == Granted(t, q, seen, d)
  IN IF cannot_fit_two(Fed(t, d, q)) THEN "none"
     ELSE IF o # "none" THEN (IF o \in seen THEN o ELSE "none")
     ELSE IF g # "none" /\ MayStart(t, q, d, g) THEN g ELSE "none"

(* The flits it takes: two, if the channel is wide and the first is not    *)
(* the last of its message.                                                *)
Taken(t, q, d, o) ==
  LET flits == queue[<<t, o, q>>]
      two == Len(flits) > 1 /\ ~IsTail(flits[1]) /\ (q \in wide_noc \/ t3_to_core(q, d))
  IN SubSeq(flits, 1, IF two THEN 2 ELSE 1)
-----------------------------------------------------------------------------
(* Fault: a route stays open until the input has nothing left.             *)
HolderLong(t, q, d, o) == IF Len(Taken(t, q, d, o)) = Len(queue[<<t, o, q>>]) THEN "none" ELSE o
(* Fault: a route is never closed.                                         *)
HolderKept(t, q, d, o) == o
(* After the flits o holds the output, unless they end the message.        *)
Holder(t, q, d, o) == IF IsTail(Last(Taken(t, q, d, o))) THEN "none" ELSE o

(* The outputs take their flits: from[d] is the input of output d.         *)
Move(t, q, from) ==
  LET used == {d \in Outputs : from[d] # "none"}
      new  == {d \in used : open[<<t, d, q>>] = "none"}
      Emptied(d) == <<t, from[d], q>>
      Filled(d)  == Fed(t, d, Lane(t, q, d, from[d]))
      rest(d) == SubSeq(queue[Emptied(d)], Len(Taken(t, q, d, from[d])) + 1, Len(queue[Emptied(d)]))
      emptied == {Emptied(d) : d \in used}
      filled  == {Filled(d) : d \in used}
  IN /\ used # {}
     /\ queue' = [k \in Queues |->
          IF k \in emptied THEN rest(CHOOSE d \in used : k = Emptied(d))
          ELSE IF k \in filled
               THEN queue[k] \o LET d == CHOOSE e \in used : k = Filled(e) IN Taken(t, q, d, from[d])
          ELSE queue[k]]
     /\ open' = [k \in DOMAIN open |-> IF k[1] = t /\ k[3] = q /\ k[2] \in used
                                       THEN Holder(t, q, k[2], from[k[2]]) ELSE open[k]]
     /\ next_d' = IF new = {} THEN next_d
                  ELSE [next_d EXCEPT ![<<t, q>>] = (Max({Index(d) : d \in new}) + 1) % DIRECTIONS]
     /\ UNCHANGED <<sent, ran>>

(* The router of tile t advances channel q, looking at the inputs seen.    *)
Advance(t, q, seen) == \E from \in {[d \in Outputs |-> Source(t, q, seen, d)]} : Move(t, q, from)

Occupied(t, q) == {o \in Inputs : queue[<<t, o, q>>] # <<>>}
Route(t, q) == \E seen \in (SUBSET Occupied(t, q)) \ {{}} : Advance(t, q, seen)

(* A task on tile t queues the next flit of a message; it starts when the  *)
(* whole message fits, and ends a message before the next.                 *)
Send(t) ==
  \E m \in Messages :
     LET k == <<t, "C", Traffic[m].q>> IN
     /\ Traffic[m].src = t /\ sent[m] < Size(m)
     /\ \A n \in Messages \ {m} : Traffic[n].src = t => sent[n] \in {0, Size(n)}
     /\ sent[m] = 0 => Length(k) - Len(queue[k]) >= Size(m)
     /\ sent' = [sent EXCEPT ![m] = @ + 1]
     /\ queue' = [queue EXCEPT ![k] = Append(@, <<m, sent[m] + 1>>)]
     /\ UNCHANGED <<open, next_d, ran>>

(* The parameters a task takes from its queue.                             *)
Params(q) == num_task_params[q]

(* The core of tile t runs the task of input queue q, which takes all its  *)
(* parameters.                                                             *)
Run(t, q) ==
  LET k == <<t, "IQ", q>> IN
  /\ Len(queue[k]) >= Params(q)
  /\ ran' = ran \union {<<queue[k][1][1], t, q>>}
  /\ queue' = [queue EXCEPT ![k] = SubSeq(@, Params(q) + 1, Len(@))]
  /\ UNCHANGED <<open, next_d, sent>>

(* The threads go on when nothing can move.                                *)
Tick == UNCHANGED vars

Network(t) == \E q \in Channels : Route(t, q)
Core(t)    == Send(t) \/ \E q \in Channels : Run(t, q)

Next == \/ \E t \in Tile : Network(t)
        \/ \E t \in Tile : Core(t)
        \/ Tick

(* Each router and each core is simulated again and again by its thread.   *)
Spec     == Init /\ [][Next]_vars
FairSpec == Spec /\ \A t \in Tile : WF_vars(Network(t)) /\ WF_vars(Core(t))
-----------------------------------------------------------------------------
(* The state has the shape its comments say; no queue overflows although   *)
(* guards for two flits are evaluated before other outputs are served.     *)
TypeOK == /\ \A k \in Queues : queue[k] \in Seq(Flit) /\ Len(queue[k]) <= Length(k)
          /\ open \in [Tile \X Outputs \X Channels -> Inputs \union {"none"}]
          /\ next_d \in [Tile \X Channels -> 0 .. DIRECTIONS - 1]
          /\ \A m \in Messages : sent[m] \in 0 .. Size(m)

(* "Flits of different messages within the same channel shouldn't          *)
(* interleave" (router.h:759): in every queue a message is followed by the *)
(* rest of it, as many flits as the tasks of the channel have parameters,  *)
(* and a task finds the head of a message first.                           *)
Unbroken ==
  \A k \in Queues :
     /\ \A i \in 1 .. Len(queue[k]) - 1 :
           LET f == queue[k][i]
               g == queue[k][i + 1]
           IN IF f[2] = num_task_params[k[3]] THEN IsHead(g) ELSE g = <<f[1], f[2] + 1>>
     /\ k[2] = "IQ" /\ queue[k] # <<>> => IsHead(queue[k][1])

(* An input holds at most one output, and never has a head in front of it  *)
(* then ("Head on open route", router.h:763); an input with the rest of a  *)
(* message in front holds an output, so the rest can follow.               *)
OpenRoutes ==
  \A t \in Tile, q \in Channels, o \in Inputs :
     LET held  == {d \in Outputs : open[<<t, d, q>>] = o}
         flits == queue[<<t, o, q>>]
     IN /\ Cardinality(held) <= 1
        /\ flits # <<>> => (IsHead(flits[1]) <=> held = {})

(* An input holds an output exactly while the rest of a message is in it,  *)
(* so that flits of different messages never interleave.                   *)
RoutesOpen == Unbroken /\ OpenRoutes

(* Every flit that was queued and whose task has not run is in exactly one *)
(* place.                                                                  *)
Places(f) == {k \in Queues : queue[k] # <<>> /\ \E i \in DOMAIN queue[k] : queue[k][i] = f}
Conserved ==
  /\ \A k \in Queues : queue[k] # <<>> => IsInjective(queue[k])
  /\ \A f \in Flit : Cardinality(Places(f)) =
        (IF f[2] <= sent[f[1]] /\ \A r \in ran : r[1] # f[1] THEN 1 ELSE 0)

(* No queue overflows, whatever outputs are served after its guard, and a  *)
(* flit is in one place until its task has run.                            *)
FlitsConserved == TypeOK /\ Conserved

(* A task runs once, on the owner of its data or, as task 3', on a proxy   *)
(* of the owner.                                                           *)
RightTask ==
  /\ \A r \in ran : LET owner == get_dst(Traffic[r[1]].data)
                     IN IF r[3] = 3 THEN IsProxyOf(r[2], owner) ELSE r[2] = owner
  /\ \A r, s \in ran : r[1] = s[1] => r = s

AllRan == {r[1] : r \in ran} = Messages

(* Every message makes its task run: the queues, the open routes and the   *)
(* proxies on the way never wait for each other in a circle.               *)
Arrives == <>AllRan
=============================================================================
