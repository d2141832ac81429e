----------------------------- MODULE MetricsHub -----------------------------
(***************************************************************************)
(* Server metrics on their way to the administrators who watch them.       *)
(*                                                                         *)
(* metricsLoop takes a sample, stores it and offers it to the hub; when    *)
(* the hub's channel is full the sample is dropped.  The hub takes one     *)
(* sample at a time and writes it to every client, and MetricsSocket adds  *)
(* and removes clients from goroutines of its own: nothing guards the map  *)
(* of clients (services/metrics.go, http/metrics.go, cmd/server/main.go).  *)
(* A connection begins with the upgrade of a request, which needs the      *)
(* http.Hijacker behind the handler's writer: the router has put the       *)
(* logger's recorder in front of it (http/server.go, http/middleware.go).  *)
(* A sample is its number in the history.                                  *)
(***************************************************************************)
EXTENDS Naturals, Sequences, FiniteSets

CONSTANTS
  Conns,       \* requests for /ws/metrics, and the connections they become
  Proper,      \* those with an administrator's token and a valid handshake
  Logged,      \* whether RequestLogger is in front of the handler, as in Router
  Slots,       \* room in the channel; the code has 16
  Wire,        \* messages the system buffers between the hub and a client
  Null,
  MaxSamples   \* bound: the samples taken

ASSUME MetricsHubConstants ==
  /\ Slots \in Nat \ {0}
  /\ Wire \in Nat \ {0}
  /\ MaxSamples \in Nat
  /\ Proper \subseteq Conns
  /\ Logged \in BOOLEAN
  /\ Null \notin Conns

VARIABLES
  alive,      \* the process runs
  stored,     \* rows of server_metric_samples
  loop,       \* where metricsLoop is
  queue,      \* the hub's channel
  clients,    \* the hub's map
  hub,        \* where Run is, its sample, its client, whom it has to serve,
              \* whom it has served
  conn,       \* where the handler of each connection is
  gone,       \* peers that have hung up
  buffered,   \* what a client has been sent and not yet read
  received,   \* what it has read
  since,      \* history: the samples stored when a client, still there, was added
  dropped,    \* history: the samples the channel had no room for
  raced       \* history: connections whose write to the map met another access

program == <<stored, loop, queue, dropped>>
wires   == <<gone, buffered, received>>
vars == <<alive, stored, loop, queue, clients, hub, conn, gone, buffered, received, since,
          dropped, raced>>

Samples == 1 .. MaxSamples

TypeOK ==
  /\ alive \in BOOLEAN
  /\ stored \in 0 .. MaxSamples
  /\ loop \in {"tick", "broadcast", "done"}
  /\ queue \in Seq(Samples) /\ Len(queue) <= Slots
  /\ clients \subseteq Conns
  /\ hub \in [at : {"select", "range", "write", "done"}, sample : Samples \cup {0},
              conn : Conns \cup {Null}, due : SUBSET Conns, seen : SUBSET Conns]
  /\ conn \in [Conns -> {"new", "refused", "adding", "open", "removing", "closed"}]
  /\ gone \subseteq Conns
  /\ buffered \in [Conns -> Seq(Samples)] /\ \A c \in Conns : Len(buffered[c]) <= Wire
  /\ received \in [Conns -> Seq(Samples)]
  /\ since \in [Conns -> 0 .. MaxSamples]
  /\ dropped \subseteq Samples
  /\ raced \subseteq Conns

Waiting == [at |-> "select", sample |-> 0, conn |-> Null, due |-> {}, seen |-> {}]

Init ==
  /\ alive = TRUE
  /\ stored = 0
  /\ loop = "tick"
  /\ queue = <<>>
  /\ clients = {}
  /\ hub = Waiting
  /\ conn = [c \in Conns |-> "new"]
  /\ gone = {}
  /\ buffered = [c \in Conns |-> <<>>]
  /\ received = [c \in Conns |-> <<>>]
  /\ since = [c \in Conns |-> 0]
  /\ dropped = {}
  /\ raced = {}

-----------------------------------------------------------------------------
(* metricsLoop                                                             *)

\* CaptureMetrics; when the INSERT fails nothing is broadcast, and the loop
\* waits for the next tick.
CaptureMetrics ==
  /\ loop = "tick"
  /\ stored < MaxSamples
  /\ stored' = stored + 1
  /\ loop' = "broadcast"
  /\ UNCHANGED <<queue, dropped>>

\* Variant of Broadcast: one sample too many.
BroadcastUpTo ==
  /\ loop = "broadcast"
  /\ loop' = "tick"
  /\ IF Len(queue) <= Slots
       THEN queue' = Append(queue, stored) /\ UNCHANGED dropped
       ELSE dropped' = dropped \cup {stored} /\ UNCHANGED queue
  /\ UNCHANGED stored

\* The sample is sent without waiting; without room it is dropped.
Broadcast ==
  /\ loop = "broadcast"
  /\ loop' = "tick"
  /\ IF Len(queue) < Slots
       THEN queue' = Append(queue, stored) /\ UNCHANGED dropped
       ELSE dropped' = dropped \cup {stored} /\ UNCHANGED queue
  /\ UNCHANGED stored

\* ctx.Done.
StopLoop ==
  /\ loop = "tick"
  /\ loop' = "done"
  /\ UNCHANGED <<stored, queue, dropped>>

-----------------------------------------------------------------------------
(* The map of clients                                                      *)

\* The handlers in the middle of a write to the map.
Writing == {c \in Conns : conn[c] \in {"adding", "removing"}}

\* An access to the map while others write to it is undefined: any of the
\* writes may be lost, and see Die.
Meeting(others) == raced' = raced \cup others

\* statusRecorder has the methods of http.ResponseWriter and no other, whatever
\* the writer has that it wraps.
MayHijack == ~Logged

\* MetricsSocket answers 401 or 403, or the upgrade 400, or 500 for a writer that
\* cannot be hijacked.
Refuse(c) ==
  /\ conn[c] = "new"
  /\ ~(c \in Proper /\ MayHijack)
  /\ conn' = [conn EXCEPT ![c] = "refused"]
  /\ UNCHANGED <<clients, since, raced>>

\* After the upgrade, Add begins its write to the map ...
BeginAdd(c) ==
  /\ conn[c] = "new"
  /\ c \in Proper /\ MayHijack
  /\ conn' = [conn EXCEPT ![c] = "adding"]
  /\ Meeting(IF Writing = {} THEN {} ELSE Writing \cup {c})
  /\ UNCHANGED <<clients, since>>

\* ... and ends it.
EndAdd(c) ==
  /\ conn[c] = "adding"
  /\ conn' = [conn EXCEPT ![c] = "open"]
  /\ clients' \in {clients \cup {c}} \cup (IF c \in raced THEN {clients} ELSE {})
  /\ since' = [since EXCEPT ![c] = stored]
  /\ UNCHANGED raced

\* Variant of BeginRemove: the deferred call is forgotten.
CloseOnly(c) ==
  /\ conn[c] = "open"
  /\ c \in gone
  /\ conn' = [conn EXCEPT ![c] = "closed"]
  /\ UNCHANGED <<clients, since, raced>>

\* ReadMessage fails, for the peer has hung up, and Remove begins ...
BeginRemove(c) ==
  /\ conn[c] = "open"
  /\ c \in gone
  /\ conn' = [conn EXCEPT ![c] = "removing"]
  /\ Meeting(IF Writing = {} THEN {} ELSE Writing \cup {c})
  /\ UNCHANGED <<clients, since>>

\* ... and ends; the connection is closed.
EndRemove(c) ==
  /\ conn[c] = "removing"
  /\ conn' = [conn EXCEPT ![c] = "closed"]
  /\ clients' \in {clients \ {c}} \cup (IF c \in raced THEN {clients} ELSE {})
  /\ since' = [since EXCEPT ![c] = 0]
  /\ UNCHANGED raced

\* The runtime has noticed that a write met another access, and ends the
\* process.
Die ==
  /\ raced \cap Writing # {}
  /\ alive' = FALSE

-----------------------------------------------------------------------------
(* Run                                                                     *)

\* The hub takes a sample; its range over the map begins.
Take ==
  /\ hub.at = "select"
  /\ queue # <<>>
  /\ queue' = Tail(queue)
  /\ hub' = [Waiting EXCEPT !.at = "range", !.sample = Head(queue), !.due = clients]
  /\ Meeting(Writing)
  /\ UNCHANGED buffered

\* Variant of NextClient: who has been served is not remembered.
NextClientAgain(c) ==
  /\ hub.at = "range"
  /\ c \in clients
  /\ hub' = [hub EXCEPT !.at = "write", !.conn = c]
  /\ Meeting(Writing)
  /\ UNCHANGED <<queue, buffered>>

\* The next entry of the map, in any order: one that has been there since the
\* range began, or one that was added since.
NextClient(c) ==
  /\ hub.at = "range"
  /\ c \in clients \ hub.seen
  /\ hub' = [hub EXCEPT !.at = "write", !.conn = c, !.seen = @ \cup {c}]
  /\ Meeting(Writing)
  /\ UNCHANGED <<queue, buffered>>

\* The range ends; entries that were added since it began may be left out.
EndRange ==
  /\ hub.at = "range"
  /\ hub.due \cap clients \subseteq hub.seen
  /\ hub' = Waiting
  /\ Meeting(Writing)
  /\ UNCHANGED <<queue, buffered>>

\* Nobody reads what is sent: a write fails, at once or after it was buffered.
Broken(c) == c \in gone \/ conn[c] = "closed"

\* Variant of WriteJSON: a client without room is left out.
WriteJSONIfRoom ==
  /\ hub.at = "write"
  /\ buffered' = IF Len(buffered[hub.conn]) < Wire /\ ~Broken(hub.conn)
                   THEN [buffered EXCEPT ![hub.conn] = Append(@, hub.sample)] ELSE buffered
  /\ hub' = [hub EXCEPT !.at = "range", !.conn = Null]
  /\ UNCHANGED <<queue, raced>>

\* Variant of WriteJSON: an error is taken for a lack of room.
WriteJSONInTheEnd ==
  /\ hub.at = "write"
  /\ ~Broken(hub.conn)
  /\ Len(buffered[hub.conn]) < Wire
  /\ buffered' = [buffered EXCEPT ![hub.conn] = Append(@, hub.sample)]
  /\ hub' = [hub EXCEPT !.at = "range", !.conn = Null]
  /\ UNCHANGED <<queue, raced>>

\* conn.WriteJSON: no deadline is set, so that it waits for room as long as
\* the connection lasts; an error is ignored.
WriteJSON ==
  /\ hub.at = "write"
  /\ \/ Broken(hub.conn) /\ UNCHANGED buffered
     \/ /\ ~Broken(hub.conn)
        /\ Len(buffered[hub.conn]) < Wire
        /\ buffered' = [buffered EXCEPT ![hub.conn] = Append(@, hub.sample)]
  /\ hub' = [hub EXCEPT !.at = "range", !.conn = Null]
  /\ UNCHANGED <<queue, raced>>

\* ctx.Done, which is looked at between two samples only.
StopHub ==
  /\ hub.at = "select"
  /\ hub' = [Waiting EXCEPT !.at = "done"]
  /\ UNCHANGED <<queue, buffered, raced>>

-----------------------------------------------------------------------------
(* The peers                                                               *)

Receive(c) ==
  /\ c \notin gone
  /\ buffered[c] # <<>>
  /\ received' = [received EXCEPT ![c] = Append(@, Head(buffered[c]))]
  /\ buffered' = [buffered EXCEPT ![c] = Tail(@)]
  /\ UNCHANGED gone

HangUp(c) ==
  /\ conn[c] \in {"adding", "open"}
  /\ gone' = gone \cup {c}
  /\ UNCHANGED <<buffered, received>>

-----------------------------------------------------------------------------
Loop == (CaptureMetrics \/ Broadcast \/ StopLoop)
        /\ UNCHANGED <<alive, clients, hub, conn, wires, since, raced>>

Handler(c) == (Refuse(c) \/ BeginAdd(c) \/ EndAdd(c) \/ BeginRemove(c) \/ EndRemove(c))
              /\ UNCHANGED <<alive, program, hub, wires>>

Run == (Take \/ (\E c \in Conns : NextClient(c)) \/ EndRange \/ WriteJSON \/ StopHub)
       /\ UNCHANGED <<alive, stored, loop, dropped, clients, conn, gone, received, since>>

Peer(c) == (Receive(c) \/ HangUp(c))
           /\ UNCHANGED <<alive, program, clients, hub, conn, since, raced>>

Next ==
  /\ alive
  /\ \/ Loop \/ Run
     \/ \E c \in Conns : Handler(c) \/ Peer(c)
     \/ Die /\ UNCHANGED <<program, clients, hub, conn, wires, since, raced>>

Spec == Init /\ [][Next]_vars

\* The goroutines run, and every client reads what it is sent: nothing in the
\* code makes it, a client that stops reading stops the hub.
FairSpec ==
  /\ Spec
  /\ WF_vars(alive /\ Run)
  /\ \A c \in Conns : /\ WF_vars(alive /\ Handler(c) /\ conn[c] # "new")
                      /\ WF_vars(alive /\ Peer(c) /\ gone' = gone)

-----------------------------------------------------------------------------
(* Properties                                                              *)

Elements(q) == {q[i] : i \in DOMAIN q}

Sent(c) == received[c] \o buffered[c]

\* A client whose entry in the map was not raced for is sent every sample taken
\* while it is connected, but for those the channel had no room for: a client
\* that comes or goes while the hub serves another disturbs nobody
\* (services/metrics.go:131).
NoSilentGap ==
  \A c \in clients \ (raced \cup gone) : conn[c] = "open" =>
    \A s \in since[c] + 1 .. stored :
      \/ s \in dropped \cup Elements(Sent(c)) \cup Elements(queue)
      \/ loop = "broadcast" /\ s = stored
      \/ hub.at \in {"range", "write"} /\ s = hub.sample /\ c \notin (hub.seen \ {hub.conn})

\* A client is sent samples of the history, in order and none twice, also
\* when samples were dropped or the map was raced for.
Promise == INSTANCE LossyBroadcast WITH
  history <- stored, sent <- [c \in Conns |-> Sent(c)]

IsLossyBroadcast == Promise!Spec

\* A sample in the channel is served in the end, unless the process ends
\* or has been told to.
QueueDrains ==
  \A s \in Samples : s \in Elements(queue) ~> s \notin Elements(queue) \/ hub.at = "done" \/ ~alive

\* A client that has hung up is forgotten, unless its entry was raced for.
GoneAreForgotten ==
  \A c \in Conns : c \in gone ~> c \notin clients \/ c \in raced \/ ~alive

\* "WebSocket metrics endpoint: `/ws/metrics?token=...`" (README.md:28): a proper
\* request is not refused.
ProperAreServed ==
  \A c \in Proper : conn[c] # "refused"
=============================================================================
