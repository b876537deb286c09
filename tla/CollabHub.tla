------------------------------ MODULE CollabHub ------------------------------
(***************************************************************************)
(* The rooms of app/collab/hub.go and everything that touches them: the    *)
(* dagWS handler and the WritePump of every WebSocket client, and the      *)
(* updateDAG and restoreDAGHistory handlers, which commit a row and then   *)
(* announce it to the room.                                                *)
(*                                                                         *)
(* Hub.mu is a sync.RWMutex.  Join and Leave do their work under the write *)
(* lock, in one step.  Broadcast holds the read lock over a step per peer, *)
(* and several broadcasts may hold it at the same time.                    *)
(*                                                                         *)
(* The client is not part of the repository.  What it does with its socket *)
(* is modelled from what the handlers offer it: it loads the diagram when  *)
(* the socket opens and whenever an announcement that does not carry its   *)
(* own clientId arrives.                                                   *)
(***************************************************************************)
EXTENDS Naturals, Sequences, FiniteSets

CONSTANTS
    Dags,           \* diagram ids
    Clients,        \* WebSocket connections, one collab.Client each
    Saves,          \* update and restore requests
    Anyone,         \* no clientId
    Cap,            \* capacity of Client.Send: 64
    MaxPresence     \* bound: presence messages each client sends

ASSUME CapAssumption == Cap \in Nat \ {0}
ASSUME MaxPresenceAssumption == MaxPresence \in Nat
ASSUME ActorsAssumption ==
    /\ Clients \cap Saves = {}
    /\ Anyone \notin Clients
    /\ IsFiniteSet(Clients)

VARIABLES
    rooms,      \* Hub.rooms
    dagId,      \* Client.DagId
    handler,    \* where the dagWS handler of each client is
    pump,       \* where its WritePump goroutine is
    send,       \* Client.Send: the messages in the channel
    open,       \* ... and whether it is not closed
    hand,       \* the message a pump is writing
    conn,       \* Client.Conn
    save,       \* where each update or restore request is
    left,       \* the clients a running Broadcast has still to visit
    sent,       \* presence messages each client has sent
    due,        \* clients that are about to load their diagram
    stale,      \* clients that show another content than the row has
    early,      \* history variable: clients that loaded it before they joined
    skipped     \* history variable: clients passed over since they loaded it

hub == <<rooms, dagId, open>>
client == <<due, stale, early>>
vars == <<rooms, dagId, handler, pump, send, open, hand, conn, save, left,
          sent, due, stale, early, skipped>>
-----------------------------------------------------------------------------
Presence(c) == [type |-> "presence", from |-> c]
Updated(by) == [type |-> "diagram:updated", from |-> by]

Message == [type : {"presence"}, from : Clients]
      \cup [type : {"diagram:updated"}, from : Clients \cup {Anyone}]

Request == [at : {"start", "done"}]
      \cup [at : {"saved", "announcing"}, dag : Dags, by : Clients \cup {Anyone}]

Nothing == [type |-> "none"]

Room(d) == IF d \in DOMAIN rooms THEN rooms[d] ELSE {}

\* The message makes client c load the diagram again.
Foreign(c, m) == m.type = "diagram:updated" /\ m.from # c

\* Clients that are there to see something.
Watching == {c \in Clients : conn[c] = "open"}

\* The clients in C now show what the row holds.
Show(C) ==
    /\ early' = (early \ C) \cup {c \in C : handler[c] = "joining"}
    /\ skipped' = skipped \ C

\* No call of Broadcast holds the read lock: Join and Leave can have the other.
NoReader ==
    /\ \A c \in Clients : handler[c] # "relaying"
    /\ \A s \in Saves : save[s].at # "announcing"
-----------------------------------------------------------------------------
Init ==
    /\ rooms = [d \in {} |-> {}]
    /\ dagId \in [Clients -> Dags]
    /\ handler = [c \in Clients |-> "start"]
    /\ pump = [c \in Clients |-> "none"]
    /\ send = [c \in Clients |-> <<>>]
    /\ open = [c \in Clients |-> TRUE]
    /\ hand = [c \in Clients |-> Nothing]
    /\ conn = [c \in Clients |-> "none"]
    /\ save = [s \in Saves |-> [at |-> "start"]]
    /\ left = [b \in Clients \cup Saves |-> {}]
    /\ sent = [c \in Clients |-> 0]
    /\ due = {}
    /\ stale = {}
    /\ early = {}
    /\ skipped = {}

\* dagWS up to the call of Join: the upgrade has answered the client.
Upgrade(c) ==
    /\ handler[c] = "start"
    /\ handler' = [handler EXCEPT ![c] = "joining"]
    /\ conn' = [conn EXCEPT ![c] = "open"]
    /\ due' = due \cup {c}
    /\ UNCHANGED <<hub, pump, send, hand, save, left, sent, stale, early, skipped>>

\* Mutant: Join makes a new room although there is one.
JoinNewRoom(c) ==
    /\ handler[c] = "joining"
    /\ NoReader
    /\ rooms' = [d \in DOMAIN rooms \cup {dagId[c]} |->
                    IF d = dagId[c] THEN {c} ELSE rooms[d]]
    /\ pump' = [pump EXCEPT ![c] = "receiving"]
    /\ handler' = [handler EXCEPT ![c] = "reading"]
    /\ UNCHANGED <<dagId, open, send, hand, conn, save, left, sent, client, skipped>>

\* Join, and go client.WritePump(): a goroutine that has started and one that
\* has not been scheduled yet look the same.
Join(c) ==
    /\ handler[c] = "joining"
    /\ NoReader
    /\ rooms' = [d \in DOMAIN rooms \cup {dagId[c]} |->
                    IF d = dagId[c] THEN Room(d) \cup {c} ELSE rooms[d]]
    /\ pump' = [pump EXCEPT ![c] = "receiving"]
    /\ handler' = [handler EXCEPT ![c] = "reading"]
    /\ UNCHANGED <<dagId, open, send, hand, conn, save, left, sent, client, skipped>>

\* Mutant: presence is broadcast with nil for except.
ReadPresenceEcho(c) ==
    /\ handler[c] = "reading"
    /\ conn[c] # "closed"
    /\ sent[c] < MaxPresence
    /\ sent' = [sent EXCEPT ![c] = @ + 1]
    /\ left' = [left EXCEPT ![c] = Room(dagId[c])]
    /\ handler' = [handler EXCEPT ![c] = "relaying"]
    /\ UNCHANGED <<hub, pump, send, hand, conn, save, client, skipped>>

\* The read loop got a presence message and Broadcast, called with the client
\* as except, has the read lock.  Every other message is ignored.  What the
\* peer sent before it went away can still be read.
ReadPresence(c) ==
    /\ handler[c] = "reading"
    /\ conn[c] # "closed"
    /\ sent[c] < MaxPresence
    /\ sent' = [sent EXCEPT ![c] = @ + 1]
    /\ left' = [left EXCEPT ![c] = Room(dagId[c]) \ {c}]
    /\ handler' = [handler EXCEPT ![c] = "relaying"]
    /\ UNCHANGED <<hub, pump, send, hand, conn, save, client, skipped>>

\* The peer is gone, or the pump closed the connection.
ReadFails(c) ==
    /\ handler[c] = "reading"
    /\ conn[c] # "open"
    /\ handler' = [handler EXCEPT ![c] = "leaving"]
    /\ UNCHANGED <<hub, pump, send, hand, conn, save, left, sent, client, skipped>>

\* Mutant: Leave takes no lock.
LeaveUnlocked(c) ==
    /\ handler[c] = "leaving"
    /\ LET rest == Room(dagId[c]) \ {c}
       IN  rooms' = [d \in {e \in DOMAIN rooms : e # dagId[c] \/ rest # {}} |->
                        IF d = dagId[c] THEN rest ELSE rooms[d]]
    /\ open' = [open EXCEPT ![c] = @ /\ c \notin Room(dagId[c])]
    /\ handler' = [handler EXCEPT ![c] = "done"]
    /\ UNCHANGED <<dagId, pump, send, hand, conn, save, left, sent, client, skipped>>

\* Mutant: Leave does not close the channel.
LeaveOpen(c) ==
    /\ handler[c] = "leaving"
    /\ NoReader
    /\ LET rest == Room(dagId[c]) \ {c}
       IN  rooms' = [d \in {e \in DOMAIN rooms : e # dagId[c] \/ rest # {}} |->
                        IF d = dagId[c] THEN rest ELSE rooms[d]]
    /\ handler' = [handler EXCEPT ![c] = "done"]
    /\ UNCHANGED <<dagId, open, pump, send, hand, conn, save, left, sent, client, skipped>>

\* The deferred Leave.  The map entry and the channel go in one critical section.
Leave(c) ==
    /\ handler[c] = "leaving"
    /\ NoReader
    /\ LET rest == Room(dagId[c]) \ {c}
       IN  rooms' = [d \in {e \in DOMAIN rooms : e # dagId[c] \/ rest # {}} |->
                        IF d = dagId[c] THEN rest ELSE rooms[d]]
    /\ open' = [open EXCEPT ![c] = @ /\ c \notin Room(dagId[c])]
    /\ handler' = [handler EXCEPT ![c] = "done"]
    /\ UNCHANGED <<dagId, pump, send, hand, conn, save, left, sent, client, skipped>>

\* Mutant: the select has no default, a full channel blocks the broadcast.
OfferBlocking(b, m) ==
    \E c \in left[b] :
        /\ Len(send[c]) < Cap
        /\ left' = [left EXCEPT ![b] = @ \ {c}]
        /\ send' = [send EXCEPT ![c] = Append(@, m)]
        /\ UNCHANGED <<hub, handler, pump, hand, conn, save, sent, client, skipped>>

\* Mutant: default leaves the loop.
OfferUntilFull(b, m) ==
    \E c \in left[b] :
        /\ IF Len(send[c]) < Cap
           THEN /\ send' = [send EXCEPT ![c] = Append(@, m)]
                /\ left' = [left EXCEPT ![b] = @ \ {c}]
                /\ UNCHANGED skipped
           ELSE /\ skipped' = skipped \cup {x \in {c} \cap Watching : Foreign(x, m)}
                /\ left' = [left EXCEPT ![b] = {}]
                /\ UNCHANGED send
        /\ UNCHANGED <<hub, handler, pump, hand, conn, save, sent, client>>

\* One turn of Broadcast's loop, in an order the map iteration chooses: a
\* client whose channel is full is passed over.
Offer(b, m) ==
    \E c \in left[b] :
        /\ left' = [left EXCEPT ![b] = @ \ {c}]
        /\ IF Len(send[c]) < Cap
           THEN /\ send' = [send EXCEPT ![c] = Append(@, m)]
                /\ UNCHANGED skipped
           ELSE /\ skipped' = skipped \cup {x \in {c} \cap Watching : Foreign(x, m)}
                /\ UNCHANGED send
        /\ UNCHANGED <<hub, handler, pump, hand, conn, save, sent, client>>

Relay(c) == handler[c] = "relaying" /\ Offer(c, Presence(c))

RelayEnds(c) ==
    /\ handler[c] = "relaying"
    /\ left[c] = {}
    /\ handler' = [handler EXCEPT ![c] = "reading"]
    /\ UNCHANGED <<hub, pump, send, hand, conn, save, left, sent, client, skipped>>
-----------------------------------------------------------------------------
\* UpdateDAG of updateDAG (by is the clientId of the request) or of
\* restoreDAGHistory (which has none) succeeded.  It succeeds on a row that
\* does not exist, too, and then changes nothing.  A client waits for the
\* answer to one save before it sends the next.
Commit(s, d, by) ==
    /\ save[s].at = "start"
    /\ by # Anyone =>
          /\ dagId[by] = d
          /\ \A t \in Saves : save[t].at \in {"saved", "announcing"} => save[t].by # by
    /\ save' = [save EXCEPT ![s] = [at |-> "saved", dag |-> d, by |-> by]]
    /\ \/ /\ stale' = (stale \cup {c \in Watching : dagId[c] = d}) \ {by}
          /\ Show({by} \cap Watching)
       \/ UNCHANGED <<stale, early, skipped>>
    /\ UNCHANGED <<hub, handler, pump, send, hand, conn, left, sent, due>>

\* Broadcast(dagId, "diagram:updated", nil) has the read lock.
Announce(s) ==
    /\ save[s].at = "saved"
    /\ save' = [save EXCEPT ![s].at = "announcing"]
    /\ left' = [left EXCEPT ![s] = Room(save[s].dag)]
    /\ UNCHANGED <<hub, handler, pump, send, hand, conn, sent, client, skipped>>

Tell(s) == save[s].at = "announcing" /\ Offer(s, Updated(save[s].by))

Answer(s) ==
    /\ save[s].at = "announcing"
    /\ left[s] = {}
    /\ save' = [save EXCEPT ![s] = [at |-> "done"]]
    /\ UNCHANGED <<hub, handler, pump, send, hand, conn, left, sent, client, skipped>>
-----------------------------------------------------------------------------
\* Nobody is looking at the diagram through c any more.
Away(c) ==
    /\ due' = due \ {c}
    /\ stale' = stale \ {c}
    /\ early' = early \ {c}
    /\ skipped' = skipped \ {c}

\* for msg := range c.Send
Receive(c) ==
    /\ pump[c] = "receiving"
    /\ send[c] # <<>>
    /\ hand' = [hand EXCEPT ![c] = Head(send[c])]
    /\ send' = [send EXCEPT ![c] = Tail(@)]
    /\ pump' = [pump EXCEPT ![c] = "writing"]
    /\ UNCHANGED <<hub, handler, conn, save, left, sent, client, skipped>>

\* WriteMessage succeeds; a peer that is gone does not get the message.
Write(c) ==
    /\ pump[c] = "writing"
    /\ conn[c] # "closed"
    /\ due' = due \cup {x \in {c} \cap Watching : Foreign(x, hand[x])}
    /\ hand' = [hand EXCEPT ![c] = Nothing]
    /\ pump' = [pump EXCEPT ![c] = "receiving"]
    /\ UNCHANGED <<hub, handler, send, conn, save, left, sent, stale, early, skipped>>

\* WriteMessage fails, or the channel is closed and empty: the pump returns
\* and closes the connection.
Stop(c) ==
    /\ \/ pump[c] = "writing" /\ conn[c] # "open"
       \/ pump[c] = "receiving" /\ send[c] = <<>> /\ ~ open[c]
    /\ pump' = [pump EXCEPT ![c] = "exited"]
    /\ hand' = [hand EXCEPT ![c] = Nothing]
    /\ conn' = [conn EXCEPT ![c] = "closed"]
    /\ Away(c)
    /\ UNCHANGED <<hub, handler, send, save, left, sent>>
-----------------------------------------------------------------------------
\* The client or the network goes away.
PeerGone(c) ==
    /\ conn[c] = "open"
    /\ conn' = [conn EXCEPT ![c] = "broken"]
    /\ Away(c)
    /\ UNCHANGED <<hub, handler, pump, send, hand, save, left, sent>>

\* GET /dag/:dag
Load(c) ==
    /\ c \in due
    /\ due' = due \ {c}
    /\ stale' = stale \ {c}
    /\ Show({c})
    /\ UNCHANGED <<hub, handler, pump, send, hand, conn, save, left, sent>>

Locker(c) == Join(c) \/ Leave(c)

Handler(c) == ReadFails(c) \/ Relay(c) \/ RelayEnds(c)

WritePump(c) == Receive(c) \/ Write(c) \/ Stop(c)

Saver(s) == Announce(s) \/ Tell(s) \/ Answer(s)

Next ==
    \/ \E c \in Clients :
          \/ Upgrade(c) \/ ReadPresence(c) \/ Locker(c) \/ Handler(c) \/ WritePump(c)
          \/ PeerGone(c) \/ Load(c)
    \/ \E s \in Saves :
          \/ \E d \in Dags, by \in Clients \cup {Anyone} : Commit(s, d, by)
          \/ Saver(s)

Spec == Init /\ [][Next]_vars

\* Goroutines are scheduled and a call of Lock gets its turn between the
\* readers, which RWMutex promises.  The read of a dead connection ends (TCP
\* keep-alive), writes to one fail in the end (TCP gives up), and a peer that
\* stays reads: the channel of a client runs dry or its pump stops.
FairSpec ==
    /\ Spec
    /\ \A c \in Clients : /\ SF_vars(Locker(c))
                          /\ WF_vars(Handler(c))
                          /\ WF_vars(WritePump(c))
    /\ \A s \in Saves : WF_vars(Saver(s))
-----------------------------------------------------------------------------
TypeOK ==
    /\ DOMAIN rooms \subseteq Dags
    /\ rooms \in [DOMAIN rooms -> SUBSET Clients]
    /\ dagId \in [Clients -> Dags]
    /\ handler \in [Clients -> {"start", "joining", "reading", "relaying", "leaving",
                                "done"}]
    /\ pump \in [Clients -> {"none", "receiving", "writing", "exited"}]
    /\ send \in [Clients -> Seq(Message)]
    /\ \A c \in Clients : Len(send[c]) <= Cap
    /\ open \in [Clients -> BOOLEAN]
    /\ hand \in [Clients -> Message \cup {Nothing}]
    /\ conn \in [Clients -> {"none", "open", "broken", "closed"}]
    /\ save \in [Saves -> Request]
    /\ left \in [Clients \cup Saves -> SUBSET Clients]
    /\ sent \in [Clients -> 0 .. MaxPresence]
    /\ due \subseteq Watching
    /\ stale \subseteq Watching
    /\ early \subseteq Watching
    /\ skipped \subseteq Watching

\* No Broadcast sends on a closed channel, which would panic: a client that a
\* running Broadcast has still to visit cannot leave in between.
SendsAreSafe == \A b \in Clients \cup Saves : \A c \in left[b] : open[c]

\* The hub holds exactly the clients that joined and did not leave, each in the
\* room of its diagram and with its channel open, and no empty room: a handler
\* that ends, in whatever way, leaves nothing behind.
Joined(c) == handler[c] \in {"reading", "relaying", "leaving"}
RoomsMatchHandlers ==
    /\ \A d \in DOMAIN rooms : rooms[d] # {}
    /\ \A c \in Clients, d \in Dags : c \in Room(d) <=> Joined(c) /\ dagId[c] = d
    /\ \A c \in Clients : Joined(c) => open[c]

\* The messages that wait for client c or are being written to it.
OnItsWay(c) == {hand[c]} \cup {send[c][i] : i \in DOMAIN send[c]}

\* A presence message reaches the other clients of its room only.
PresenceStaysInRoom ==
    \A c \in Clients :
        \A m \in OnItsWay(c) :
            m.type = "presence" => m.from # c /\ dagId[m.from] = dagId[c]

\* Broadcast walks through a room step by step, and yet it is as if it posted to
\* all who are in the room at the moment it gets the lock, whatever other
\* broadcasts, joins and leaves do meanwhile: each of them is visited once, the
\* sender of presence is not, and nobody leaves who has still to be visited.
Hub == INSTANCE Fanout WITH
    Members <- Clients,
    Rooms <- Dags,
    Posters <- Clients \cup Saves,
    present <- {x \in Clients \X Dags : x[1] \in Room(x[2])},
    owed <- {x \in (Clients \cup Saves) \X Clients : x[2] \in left[x[1]]}
ImplementsFanout == Hub!Spec

\* A client that is being served and shows an old revision has a reason to
\* load the new one coming, unless it loaded before it was in the room or its
\* channel was full when the announcement came.
Coming(c) ==
    \/ c \in due
    \/ \E m \in OnItsWay(c) : Foreign(c, m)
    \/ \E s \in Saves :
          \/ save[s].at = "saved" /\ save[s].dag = dagId[c] /\ save[s].by # c
          \/ save[s].at = "announcing" /\ c \in left[s] /\ save[s].by # c
Stale(c) == c \in stale \ early /\ handler[c] \in {"reading", "relaying"}
StaleOnlyIfSkipped ==
    \A c \in Clients : Stale(c) => Coming(c) \/ c \in skipped

\* The end of a connection ends its handler and its pump, and closes it.
ConnectionsEnd ==
    \A c \in Clients :
        conn[c] \in {"broken", "closed"}
            ~> handler[c] = "done" /\ pump[c] = "exited" /\ conn[c] = "closed"

\* A save that committed is announced and answered, however slow its peers are.
SavesAreAnswered == \A s \in Saves : save[s].at = "saved" ~> save[s].at = "done"
=============================================================================
