---------------------------- MODULE EventStream ----------------------------
(***************************************************************************)
(* How the events of one session reach the client that is attached to it:  *)
(* numbering and routing (app_server/server.py), the subscription of the   *)
(* session's backend (_legacy_session_backend.py), the bounded transport   *)
(* (transport.py) and the client's projection (events.py, session.py,      *)
(* client.py, connection.py).                                              *)
(*                                                                         *)
(* An event is its event ID; what it says is left out.  The state of a     *)
(* session is a prefix of its events, so a snapshot is its watermark.  A   *)
(* callback/call request travels the same way and has no ID: it is 0.      *)
(* One action is what one task does between two awaits that may suspend.   *)
(***************************************************************************)
EXTENDS Integers, Sequences, FiniteSets

CONSTANTS
    Turn,            \* the task that runs the turn; it survives a disconnection
    Requests,        \* request tasks that emit events; a disconnection cancels them
    QueueSize,       \* maxsize of LegacySessionBackend._events (256)
    WireSize,        \* maxsize of the transport's outgoing queue (256)
    IncomingSize,    \* maxsize of AppServerClient._incoming (256)
    MaxEvents,       \* bound on the events of the session
    MaxBatch,        \* updates one core event is projected into (1 or 2)
    MaxConnections,  \* bound on connections
    MaxInterrupts    \* bound on interruptions of the turn

ASSUME SizeAssumption ==
    /\ QueueSize \in Nat \ {0} /\ WireSize \in Nat \ {0} /\ IncomingSize \in Nat \ {0}
    /\ MaxEvents \in Nat /\ MaxConnections \in Nat /\ MaxInterrupts \in Nat
    /\ MaxBatch \in 1 .. 2
    /\ IsFiniteSet(Requests) /\ Turn \notin Requests
    /\ {"attach", "stream"} \cap (Requests \cup {Turn}) = {}

VARIABLES
    watermark,   \* AppServer._event_watermarks of the session
    spc,         \* control point of each task that emits events
    item,        \* the event (or callback) it is publishing
    next,        \* what it publishes after that: an update already projected
    lockq,       \* LegacySessionBackend._events_lock: its holder, then its waiters
    subscribed,  \* LegacySessionBackend._events_subscribed
    projection,  \* the last ID of the backend's _projection, or Broken
    queue,       \* LegacySessionBackend._events
    fpc,         \* control point of _forward_backend_events and its generator
    fitem,       \* what the forwarder is sending
    after,       \* after_event_id of the generator
    failed,      \* the forwarder raised: serve_connection is being cancelled
    conn,        \* the server's side of the connection
    routing,     \* AppServer._attaching and _connection_attached
    pending,     \* AppServer._pending_notifications
    apc,         \* control point of the session/resume request
    snapshot,    \* the watermark of the snapshot it took
    batch,       \* notifications _finish_attachment is sending
    reply,       \* the snapshot session/read answers with, or Broken
    wire,        \* server to client messages in the transport
    incoming,    \* AppServerClient._incoming
    cpc,         \* control point of AppServerSession._pump_messages
    req,         \* the client's request the server has not handled yet
    view,        \* the last ID of the client's projection
    cb,          \* the callback of the turn: "none", "open", "closed"
    told,        \* the client was asked to answer it
    lost,        \* events that were numbered and dropped since the last snapshot
    connections, interrupts

sourceVars == <<watermark, spc, item, next>>
forwarderVars == <<fpc, fitem, after, failed>>
attachVars == <<apc, snapshot, batch>>
clientVars == <<incoming, cpc, req, view, told>>
bounds == <<connections, interrupts>>

vars == <<sourceVars, lockq, subscribed, projection, queue, forwarderVars, conn,
          routing, pending, attachVars, reply, wire, clientVars, cb, lost, bounds>>

Sources == {Turn} \cup Requests
Callback == 0
Broken == -1     \* no projection, no reply, the end of the stream
Closed == Broken \* _EventStreamClosed

Message(kind, id) == [kind |-> kind, id |-> id]
Notification(x) == IF x = Callback THEN Message("callback", x) ELSE Message("event", x)

HasRoom(q, size) == Len(q) < size
Holds(actor) == lockq # <<>> /\ Head(lockq) = actor

(* What is left of a queue when some leave it. *)
Without(q, some) ==
    LET kept[i \in 0 .. Len(q)] ==
            IF i = 0 THEN <<>>
            ELSE IF q[i] \in some THEN kept[i - 1] ELSE Append(kept[i - 1], q[i])
    IN kept[Len(q)]

-----------------------------------------------------------------------------
(* Publishing: AppServer._notify and _publish_callback of a task *)

(* The task's publication is over; `locks' is the lock without it.  It goes
   on with the update its core event was also projected into, or with the
   callback it has recorded, before anything else can run.                  *)
Finish(s, locks) ==
    \/ /\ next[s] = "nothing"
       /\ spc' = [spc EXCEPT ![s] = "idle"]
       /\ lockq' = locks
       /\ UNCHANGED <<watermark, item, next>>
    \/ /\ next[s] # "nothing"
       /\ watermark' = IF next[s] = "event" THEN watermark + 1 ELSE watermark
       /\ item' = [item EXCEPT ![s] = IF next[s] = "event" THEN watermark + 1 ELSE Callback]
       /\ next' = [next EXCEPT ![s] = "nothing"]
       /\ spc' = [spc EXCEPT ![s] = IF locks = <<>> THEN "enter" ELSE "lock"]
       /\ lockq' = Append(locks, s)

(* An update is projected, and so visible to every snapshot, when it is
   computed; it is numbered when its own turn comes to be sent.            *)
Begin(s, then) ==
    /\ spc[s] = "idle"
    /\ watermark + Cardinality({u \in Sources : next[u] = "event"})
         + (IF then = "event" THEN 2 ELSE 1) <= MaxEvents
    /\ watermark' = watermark + 1
    /\ item' = [item EXCEPT ![s] = watermark + 1]
    /\ next' = [next EXCEPT ![s] = then]
    /\ spc' = [spc EXCEPT ![s] = IF lockq = <<>> THEN "enter" ELSE "lock"]
    /\ lockq' = Append(lockq, s)
    /\ UNCHANGED <<subscribed, projection, queue, forwarderVars, conn, routing, pending,
                   attachVars, reply, wire, clientVars, lost, bounds>>

Project(s) ==
    /\ s \in Requests => conn = "up" /\ routing = "attached"
    /\ Begin(s, "nothing") \/ (MaxBatch = 2 /\ Begin(s, "event"))
    /\ UNCHANGED cb

(* The turn records an open callback, sends its entry, then publishes it. *)
Ask ==
    /\ cb = "none"
    /\ Begin(Turn, "callback")
    /\ cb' = "open"

(* _route_notification and _deliver_callback of what the backend did not take *)
Route(s, locks) ==
    \/ /\ routing = "attached"
       /\ spc' = [spc EXCEPT ![s] = "send"]
       /\ lockq' = locks
       /\ UNCHANGED <<watermark, item, next, pending>>
    \/ /\ routing = "attaching"
       /\ pending' = IF item[s] = Callback THEN pending ELSE Append(pending, item[s])
       /\ Finish(s, locks)
    \/ /\ routing = "none"
       /\ Finish(s, locks)
       /\ UNCHANGED pending

(* Mutants: a queue without a limit; one that drops what does not fit. *)
EnqueueAlways(s) ==
    /\ queue' = Append(queue, item[s])
    /\ Finish(s, Tail(lockq))

EnqueueDropped(s) ==
    /\ queue' = IF HasRoom(queue, QueueSize) THEN Append(queue, item[s]) ELSE queue
    /\ Finish(s, Tail(lockq))

Enqueue(s) ==
    IF HasRoom(queue, QueueSize)
    THEN /\ queue' = Append(queue, item[s])
         /\ Finish(s, Tail(lockq))
    ELSE /\ spc' = [spc EXCEPT ![s] = "put"]
         /\ UNCHANGED <<watermark, item, next, lockq, queue>>

Ignored(s) ==
    \/ ~subscribed
    \/ projection = Broken
    \/ item[s] # Callback /\ item[s] <= projection

Publish(s) ==
    /\ Holds(s) /\ spc[s] \in {"enter", "lock"}
    /\ \/ /\ Ignored(s)
          /\ Route(s, Tail(lockq))
          /\ UNCHANGED <<projection, queue>>
       \/ /\ ~Ignored(s) /\ item[s] \in {Callback, projection + 1}
          /\ projection' = IF item[s] = Callback THEN projection ELSE item[s]
          /\ Enqueue(s)
          /\ UNCHANGED pending
       \/ /\ ~Ignored(s) /\ item[s] > projection + 1
          /\ projection' = Broken
          /\ queue' = <<Closed>>
          /\ Route(s, Tail(lockq))
    /\ lost' = IF ~Ignored(s) /\ item[s] > projection + 1
               THEN lost \cup {queue[i] : i \in DOMAIN queue} ELSE lost
    /\ UNCHANGED <<subscribed, forwarderVars, conn, routing, attachVars, reply, wire,
                   clientVars, cb, bounds>>

Put(s) ==
    /\ spc[s] = "put" /\ HasRoom(queue, QueueSize)
    /\ queue' = Append(queue, item[s])
    /\ Finish(s, Tail(lockq))
    /\ UNCHANGED <<subscribed, projection, forwarderVars, conn, routing, pending,
                   attachVars, reply, wire, clientVars, cb, lost, bounds>>

SendDirect(s) ==
    /\ spc[s] = "send" /\ HasRoom(wire, WireSize)
    /\ wire' = Append(wire, Notification(item[s]))
    /\ Finish(s, lockq)
    /\ UNCHANGED <<subscribed, projection, queue, forwarderVars, conn, routing, pending,
                   attachVars, reply, clientVars, cb, lost, bounds>>

(* Waiting for room in a transport nobody reads any more. *)
SendStray(s) ==
    /\ spc[s] = "stray"
    /\ Finish(s, lockq)
    /\ UNCHANGED <<subscribed, projection, queue, forwarderVars, conn, routing, pending,
                   attachVars, reply, wire, clientVars, cb, lost, bounds>>

(* turn/interrupt cancels the turn's task wherever it is suspended; the
   finalization that follows closes its callback and emits more events.    *)
Interrupt ==
    /\ interrupts < MaxInterrupts
    /\ spc[Turn] \in {"lock", "put", "send"}
    /\ interrupts' = interrupts + 1
    /\ spc' = [spc EXCEPT ![Turn] = "idle"]
    /\ next' = [next EXCEPT ![Turn] = "nothing"]
    /\ lockq' = Without(lockq, {Turn})
    /\ lost' = lost \cup {item[Turn]}
    /\ cb' = IF cb = "open" THEN "closed" ELSE cb
    /\ UNCHANGED <<watermark, item, subscribed, projection, queue, forwarderVars, conn,
                   routing, pending, attachVars, reply, wire, clientVars, connections>>

-----------------------------------------------------------------------------
(* The forwarder: _forward_backend_events over _event_stream *)

StartForwarder ==
    /\ fpc = "new"
    /\ fpc' = "get"
    /\ UNCHANGED <<sourceVars, lockq, subscribed, projection, queue, fitem, after, failed,
                   conn, routing, pending, attachVars, reply, wire, clientVars, cb, lost, bounds>>

(* Mutant: nothing is held back for the attachment under way. *)
ForwardDropped(x) ==
    /\ fpc' = IF routing = "attached" THEN "send" ELSE "get"
    /\ fitem' = x
    /\ UNCHANGED <<pending, lockq>>

(* _route_notification and _deliver_callback of the item the generator yields *)
Forward(x) ==
    /\ fpc' = IF routing = "attached" THEN "send" ELSE "get"
    /\ fitem' = x
    /\ pending' = IF routing = "attaching" /\ x # Callback THEN Append(pending, x) ELSE pending
    /\ UNCHANGED lockq

(* The generator ends; its finally clause waits for the lock. *)
EndStream(how) ==
    /\ fpc' = how
    /\ lockq' = Append(lockq, "stream")
    /\ UNCHANGED <<fitem, pending, after>>

TakeEvent ==
    /\ fpc = "get" /\ queue # <<>>
    /\ queue' = Tail(queue)
    /\ LET x == Head(queue) IN
         \/ /\ x = Closed
            /\ EndStream("closing")
         \/ /\ x \in Callback .. after + 1
            /\ after' = IF x = after + 1 THEN x ELSE after
            /\ IF x \in 1 .. after
               THEN UNCHANGED <<fpc, fitem, lockq, pending>>
               ELSE Forward(x)
         \/ /\ x > after + 1
            /\ EndStream("failing")
    /\ UNCHANGED <<sourceVars, subscribed, projection, failed, conn, routing, attachVars,
                   reply, wire, clientVars, cb, lost, bounds>>

ForwardSent ==
    /\ fpc = "send" /\ HasRoom(wire, WireSize)
    /\ wire' = Append(wire, Notification(fitem))
    /\ fpc' = "get"
    /\ UNCHANGED <<sourceVars, lockq, subscribed, projection, queue, fitem, after, failed,
                   conn, routing, pending, attachVars, reply, clientVars, cb, lost, bounds>>

CloseStream ==
    /\ Holds("stream")
    /\ lockq' = Tail(lockq)
    /\ subscribed' = FALSE
    /\ fpc' = "none"
    /\ failed' = (failed \/ fpc = "failing")
    /\ UNCHANGED <<sourceVars, projection, queue, fitem, after, conn, routing, pending,
                   attachVars, reply, wire, clientVars, cb, lost, bounds>>

-----------------------------------------------------------------------------
(* session/resume: _begin_attachment, subscribe, _finish_attachment *)

ServeResume ==
    /\ conn = "up" /\ req = "resume" /\ apc = "idle"
    /\ req' = "none"
    /\ routing' = "attaching" /\ pending' = <<>>
    /\ apc' = "open"
    /\ UNCHANGED <<sourceVars, lockq, subscribed, projection, queue, forwarderVars, conn,
                   snapshot, batch, reply, wire, incoming, cpc, view, told, cb, lost, bounds>>

(* subscribe, once it has the lock: reading the state may then wait for a
   child session to load.                                                 *)
Entered(locks) ==
    IF subscribed THEN apc' = "refuse" /\ lockq' = Tail(locks)
                  ELSE apc' = "read" /\ lockq' = locks

Subscribe ==
    /\ \/ /\ apc = "open" /\ lockq # <<>>
          /\ apc' = "lock" /\ lockq' = Append(lockq, "attach")
       \/ /\ apc = "open" /\ lockq = <<>>
          /\ Entered(<<"attach">>)
       \/ /\ apc = "lock" /\ Holds("attach")
          /\ Entered(lockq)
    /\ UNCHANGED <<sourceVars, subscribed, projection, queue, forwarderVars, conn, routing,
                   pending, snapshot, batch, reply, wire, clientVars, cb, lost, bounds>>

(* The state is read and adopted, the subscription opened, the forwarder
   created, and what was held back and is in the snapshot is discarded.    *)
Subscribed ==
    /\ apc = "read"
    /\ snapshot' = watermark /\ projection' = watermark /\ after' = watermark
    /\ queue' = <<>> /\ subscribed' = TRUE /\ lockq' = Tail(lockq)
    /\ fpc' = "new" /\ UNCHANGED <<fitem, failed>>
    /\ pending' = Without(pending, 0 .. watermark)
    /\ apc' = "respond"
    /\ lost' = {}
    /\ UNCHANGED <<sourceVars, conn, routing, batch, reply, wire, clientVars, cb, bounds>>

Refuse ==
    /\ apc = "refuse" /\ HasRoom(wire, WireSize)
    /\ wire' = Append(wire, Message("conflict", 0))
    /\ apc' = "idle" /\ routing' = "none" /\ pending' = <<>>
    /\ UNCHANGED <<sourceVars, lockq, subscribed, projection, queue, forwarderVars, conn,
                   snapshot, batch, reply, clientVars, cb, lost, bounds>>

(* Mutants: attached after the first round; open callbacks are not repeated. *)
FinishAttachmentAtOnce ==
    /\ batch' = <<>> /\ routing' = "attached"
    /\ apc' = IF cb = "open" THEN "redeliver" ELSE "idle"
    /\ UNCHANGED pending

FinishAttachmentSilent ==
    IF pending # <<>>
    THEN /\ batch' = pending /\ pending' = <<>>
         /\ apc' = "drain"
         /\ UNCHANGED routing
    ELSE /\ batch' = <<>> /\ routing' = "attached"
         /\ apc' = "idle"
         /\ UNCHANGED pending

(* The loop of _finish_attachment once `batch' has been sent: another round
   for what was held back meanwhile, or the connection is attached and open
   callbacks are delivered again.                                           *)
FinishAttachment ==
    IF pending # <<>>
    THEN /\ batch' = pending /\ pending' = <<>>
         /\ apc' = "drain"
         /\ UNCHANGED routing
    ELSE /\ batch' = <<>> /\ routing' = "attached"
         /\ apc' = IF cb = "open" THEN "redeliver" ELSE "idle"
         /\ UNCHANGED pending

Respond ==
    /\ apc = "respond" /\ HasRoom(wire, WireSize)
    /\ wire' = Append(wire, Message("resumed", snapshot))
    /\ FinishAttachment
    /\ UNCHANGED <<sourceVars, lockq, subscribed, projection, queue, forwarderVars, conn,
                   snapshot, reply, clientVars, cb, lost, bounds>>

Drain ==
    /\ apc = "drain" /\ HasRoom(wire, WireSize)
    /\ wire' = Append(wire, Notification(Head(batch)))
    /\ IF Len(batch) > 1
       THEN /\ batch' = Tail(batch)
            /\ UNCHANGED <<apc, routing, pending>>
       ELSE FinishAttachment
    /\ UNCHANGED <<sourceVars, lockq, subscribed, projection, queue, forwarderVars, conn,
                   snapshot, reply, clientVars, cb, lost, bounds>>

Redeliver ==
    /\ apc = "redeliver" /\ HasRoom(wire, WireSize)
    /\ wire' = Append(wire, Message("callback", Callback))
    /\ apc' = "idle"
    /\ UNCHANGED <<sourceVars, lockq, subscribed, projection, queue, forwarderVars, conn,
                   routing, pending, snapshot, batch, reply, clientVars, cb, lost, bounds>>

(* session/read needs no lock: its snapshot is taken, then sent. *)
ServeRead ==
    /\ conn = "up" /\ req = "read"
    /\ req' = "none" /\ reply' = watermark
    /\ UNCHANGED <<sourceVars, lockq, subscribed, projection, queue, forwarderVars, conn,
                   routing, pending, attachVars, wire, incoming, cpc, view, told, cb, lost, bounds>>

SendRead ==
    /\ reply # Broken /\ HasRoom(wire, WireSize)
    /\ wire' = Append(wire, Message("read", reply))
    /\ reply' = Broken
    /\ UNCHANGED <<sourceVars, lockq, subscribed, projection, queue, forwarderVars, conn,
                   routing, pending, attachVars, clientVars, cb, lost, bounds>>

-----------------------------------------------------------------------------
(* Disconnection: the client goes away, or the forwarder failed *)

(* _stop_request_tasks.  A generator suspended in a yield or in get() runs its
   finally clause; one that was never started does not, and one already in
   its finally clause is thrown out of it.                                    *)
Detach ==
    /\ conn = "up" /\ (cpc = "gone" \/ failed)
    /\ conn' = "stopping"
    /\ spc' = [s \in Sources |-> IF s \in Requests THEN "idle" ELSE spc[s]]
    /\ next' = [s \in Sources |-> IF s \in Requests THEN "nothing" ELSE next[s]]
    /\ LET rest == Without(lockq, Requests \cup {"attach", "stream"}) IN
         lockq' = CASE fpc \in {"get", "send"} -> Append(rest, "stream")
                    [] fpc = "none" /\ "stream" \in {lockq[i] : i \in DOMAIN lockq} ->
                          Without(lockq, Requests \cup {"attach"})
                    [] OTHER -> rest
    /\ fpc' = "none"
    /\ lost' = lost \cup {item[s] : s \in {r \in Requests : spc[r] # "idle"}}
                    \cup (IF fpc = "send" THEN {fitem} ELSE {})
    /\ apc' = "idle" /\ batch' = <<>> /\ reply' = Broken
    /\ UNCHANGED <<watermark, item, subscribed, projection, queue, fitem, after, failed,
                   routing, pending, snapshot, wire, clientVars, cb, bounds>>

(* The cancelled tasks are done or given up; the connection's state is reset. *)
Detached ==
    /\ conn = "stopping"
    /\ conn' = "closing"
    /\ routing' = "none" /\ pending' = <<>>
    /\ UNCHANGED <<sourceVars, lockq, subscribed, projection, queue, forwarderVars,
                   attachVars, reply, wire, clientVars, cb, lost, bounds>>

(* transport.close() puts an end marker on the transport's queue.  A client
   that is still there reads it, fails its requests and connects again,
   unless the request was the one that attaches it.                         *)
CloseTransport ==
    /\ conn = "closing" /\ HasRoom(wire, WireSize)
    /\ conn' = "down"
    /\ wire' = <<>> /\ incoming' = <<>> /\ req' = "none" /\ failed' = FALSE
    /\ cpc' = IF cpc \in {"resume", "dead"} THEN "dead" ELSE "lost"
    /\ spc' = [s \in Sources |-> IF spc[s] = "send" THEN "stray" ELSE spc[s]]
    /\ UNCHANGED <<watermark, item, next, lockq, subscribed, projection, queue, fpc, fitem,
                   after, routing, pending, attachVars, reply, view, told, cb, lost, bounds>>

-----------------------------------------------------------------------------
(* The client *)

Connect ==
    /\ conn = "down" /\ cpc = "lost" /\ connections < MaxConnections
    /\ connections' = connections + 1
    /\ conn' = "up" /\ cpc' = "resume" /\ req' = "resume"
    /\ UNCHANGED <<sourceVars, lockq, subscribed, projection, queue, forwarderVars, routing,
                   pending, attachVars, reply, wire, incoming, view, told, cb, lost, interrupts>>

Leave ==
    /\ conn = "up" /\ cpc \in {"resume", "pump", "resync"}
    /\ connections < MaxConnections
    /\ cpc' = "gone"
    /\ UNCHANGED <<sourceVars, lockq, subscribed, projection, queue, forwarderVars, conn,
                   routing, pending, attachVars, reply, wire, incoming, req, view, told, cb,
                   lost, bounds>>

(* _read_messages: a response reaches the task that awaits it, anything else
   is put on the incoming queue.                                            *)
Receive ==
    /\ wire # <<>> /\ cpc \notin {"gone", "dead", "lost"}
    /\ wire' = Tail(wire)
    /\ LET m == Head(wire) IN
         \/ /\ m.kind \in {"event", "callback"} /\ HasRoom(incoming, IncomingSize)
            /\ incoming' = Append(incoming, m)
            /\ UNCHANGED <<cpc, view>>
         \/ /\ <<m.kind, cpc>> \in {<<"resumed", "resume">>, <<"read", "resync">>}
            /\ cpc' = "pump" /\ view' = m.id
            /\ UNCHANGED incoming
         \/ /\ m.kind = "conflict"
            /\ cpc' = "dead"
            /\ UNCHANGED <<incoming, view>>
    /\ UNCHANGED <<sourceVars, lockq, subscribed, projection, queue, forwarderVars, conn,
                   routing, pending, attachVars, reply, req, told, cb, lost, bounds>>

(* ClientProjection.consume: a duplicate changes nothing. *)
AdvancedAlways(id) == id
Advanced(id) == IF id = view + 1 THEN id ELSE view

(* _pump_messages and _handle_notification *)
Consume ==
    /\ cpc = "pump" /\ incoming # <<>>
    /\ incoming' = Tail(incoming)
    /\ LET m == Head(incoming) IN
         \/ /\ m.kind = "callback"
            /\ told' = TRUE
            /\ UNCHANGED <<cpc, req, view>>
         \/ /\ m.kind = "event" /\ m.id <= view + 1
            /\ view' = Advanced(m.id)
            /\ UNCHANGED <<cpc, req, told>>
         \/ /\ m.kind = "event" /\ m.id > view + 1
            /\ cpc' = "resync" /\ req' = "read"
            /\ UNCHANGED <<view, told>>
    /\ UNCHANGED <<sourceVars, lockq, subscribed, projection, queue, forwarderVars, conn,
                   routing, pending, attachVars, reply, wire, cb, lost, bounds>>

-----------------------------------------------------------------------------

(* A client has started the session and is attached to it. *)
Init ==
    /\ watermark = 0
    /\ spc = [s \in Sources |-> "idle"]
    /\ item = [s \in Sources |-> 0]
    /\ next = [s \in Sources |-> "nothing"]
    /\ lockq = <<>> /\ subscribed = TRUE /\ projection = 0 /\ queue = <<>>
    /\ fpc = "get" /\ fitem = 0 /\ after = 0 /\ failed = FALSE
    /\ conn = "up" /\ routing = "attached" /\ pending = <<>>
    /\ apc = "idle" /\ snapshot = 0 /\ batch = <<>> /\ reply = Broken
    /\ wire = <<>> /\ incoming = <<>> /\ cpc = "pump" /\ req = "none"
    /\ view = 0 /\ cb = "none" /\ told = FALSE /\ lost = {}
    /\ connections = 1 /\ interrupts = 0

Publishing == \E s \in Sources : Publish(s) \/ Put(s) \/ SendDirect(s)
Forwarding == StartForwarder \/ TakeEvent \/ ForwardSent \/ CloseStream
Attaching == ServeResume \/ Subscribe \/ Subscribed \/ Refuse \/ Respond \/ Drain \/ Redeliver
Reading == ServeRead \/ SendRead
Detaching == Detach \/ Detached \/ CloseTransport
Client == Connect \/ Receive \/ Consume

Next ==
    \/ \E s \in Sources : Project(s) \/ SendStray(s)
    \/ Ask \/ Interrupt \/ Leave
    \/ Publishing \/ Forwarding \/ Attaching \/ Reading \/ Detaching \/ Client

Spec == Init /\ [][Next]_vars

(* The event loop runs every task that can go on, on both sides. *)
Fairness ==
    /\ \A s \in Sources : WF_vars(Publish(s)) /\ WF_vars(Put(s)) /\ WF_vars(SendDirect(s))
    /\ WF_vars(StartForwarder) /\ WF_vars(TakeEvent) /\ WF_vars(ForwardSent) /\ WF_vars(CloseStream)
    /\ WF_vars(Attaching) /\ WF_vars(ServeRead) /\ WF_vars(SendRead)
    /\ WF_vars(Detach) /\ WF_vars(Detached) /\ WF_vars(CloseTransport)
    /\ WF_vars(Connect) /\ WF_vars(Receive) /\ WF_vars(Consume)

FairSpec == Spec /\ Fairness

-----------------------------------------------------------------------------

TypeOK ==
    /\ watermark \in 0 .. MaxEvents
    /\ spc \in [Sources -> {"idle", "enter", "lock", "put", "send", "stray"}]
    /\ item \in [Sources -> 0 .. MaxEvents]
    /\ next \in [Sources -> {"nothing", "event", "callback"}]
    /\ lockq \in Seq(Sources \cup {"attach", "stream"})
    /\ subscribed \in BOOLEAN /\ failed \in BOOLEAN /\ told \in BOOLEAN
    /\ projection \in -1 .. MaxEvents /\ reply \in -1 .. MaxEvents
    /\ queue \in Seq(-1 .. MaxEvents) /\ Len(queue) <= QueueSize
    /\ fpc \in {"none", "new", "get", "send", "closing", "failing"}
    /\ fitem \in 0 .. MaxEvents /\ after \in 0 .. MaxEvents
    /\ conn \in {"up", "stopping", "closing", "down"}
    /\ routing \in {"none", "attaching", "attached"}
    /\ pending \in Seq(1 .. MaxEvents) /\ batch \in Seq(1 .. MaxEvents)
    /\ apc \in {"idle", "open", "lock", "refuse", "read", "respond", "drain", "redeliver"}
    /\ snapshot \in 0 .. MaxEvents /\ view \in 0 .. MaxEvents
    /\ wire \in Seq([kind : {"event", "callback", "resumed", "read", "conflict"},
                     id : 0 .. MaxEvents]) /\ Len(wire) <= WireSize
    /\ incoming \in Seq([kind : {"event", "callback"}, id : 0 .. MaxEvents])
    /\ Len(incoming) <= IncomingSize
    /\ cpc \in {"lost", "resume", "pump", "resync", "gone", "dead"}
    /\ req \in {"none", "resume", "read"}
    /\ cb \in {"none", "open", "closed"}
    /\ lost \subseteq -1 .. MaxEvents

(* The IDs of the messages, and of what the tasks in the lock's queue publish;
   Broken where something else stands.                                       *)
IdOf(m) == CASE m.kind = "event" -> m.id [] m.kind = "callback" -> Callback [] OTHER -> Broken
Ids(messages) == [i \in DOMAIN messages |-> IdOf(messages[i])]
InLock == [i \in DOMAIN lockq |-> IF lockq[i] \in Sources THEN item[lockq[i]] ELSE Broken]

(* Everything on its way to the client, nearest first. *)
InHand == (IF fpc = "send" THEN <<fitem>> ELSE <<>>) \o batch \o pending
Pipeline == Ids(incoming) \o Ids(wire) \o InHand \o queue \o InLock

(* The client is served by the subscription of its own connection. *)
Served == conn = "up" /\ subscribed /\ fpc \in {"new", "get", "send"} /\ cpc \in {"resume", "pump"}

(* What the client has, or will have when the response to session/resume
   reaches it.                                                            *)
Base == IF cpc = "resume" THEN snapshot ELSE view

(* As long as nothing numbered was dropped, the events between the client's
   projection and the session's watermark are all on their way, once each and
   in order, through the lock, the queue, the forwarder, the notifications held
   back during attachment and the transport (_notify .. _pump_messages),
   across disconnections and new subscriptions.                              *)
NothingLost ==
    Served /\ lost = {} =>
        LET new == {i \in DOMAIN Pipeline : Pipeline[i] > Base} IN
        /\ {Pipeline[i] : i \in new} = Base + 1 .. watermark
        /\ \A i, j \in new : i < j => Pipeline[i] < Pipeline[j]

(* A callback that is open and published is known to the client, on its way
   to it, or will be delivered by the attachment under way
   (_publish_callback, _deliver_callback, _redeliver_open_callbacks).     *)
OpenCallbackIsOnItsWay ==
    Served /\ cb = "open" /\ next[Turn] # "callback" =>
        \/ told
        \/ Callback \in {Pipeline[i] : i \in DOMAIN Pipeline}
        \/ apc \in {"respond", "drain", "redeliver"}
        \/ spc[Turn] = "send" /\ item[Turn] = Callback

(* No snapshot, late event or new connection takes the client's projection back
   (ClientProjection.consume, replace_state).                              *)
ViewNeverGoesBack == [][view' >= view]_vars

(* With nothing more to send, an attached client ends up with all of it. *)
CatchesUp == <>[](cpc = "pump" /\ view = watermark)

(* A callback reaches the client, or stops being open, once it is open. *)
CallbackArrives == cb = "open" ~> (told \/ cb = "closed")

(* A turn that waits for room in the backend's queue goes on in the end,
   whether or not a client is there to read.                             *)
PublisherGoesOn == spc[Turn] = "put" ~> spc[Turn] # "put"

(* The backend's single subscription is held by a stream that will give it
   back (LegacySessionBackend._event_stream).                            *)
SubscriptionHasReader ==
    subscribed => fpc # "none" \/ "stream" \in {lockq[i] : i \in DOMAIN lockq}

(* A snapshot shows what was numbered and nothing after it. *)
SnapshotMatchesWatermark ==
    [][ (apc = "read" /\ apc' = "respond") \/ (reply = Broken /\ reply' # Broken)
        => \A s \in Sources : next[s] # "event" ]_vars
=============================================================================
