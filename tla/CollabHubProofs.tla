--------------------------- MODULE CollabHubProofs ---------------------------
(***************************************************************************)
(* Proofs about CollabHub, for any number of clients and saves and any     *)
(* capacity of the channels.                                               *)
(***************************************************************************)
EXTENDS CollabHub, SequenceTheorems, TLAPS

USE CapAssumption, MaxPresenceAssumption, ActorsAssumption

\* Every message a Broadcast offers is one.
LEMMA Messages ==
    /\ \A c \in Clients : Presence(c) \in Message
    /\ \A by \in Clients \cup {Anyone} : Updated(by) \in Message
BY DEF Presence, Updated, Message

\* The variables keep their types, and no channel exceeds its capacity.
THEOREM TypeCorrect == Spec => []TypeOK
<1>1. Init => TypeOK
  BY DEF Init, TypeOK, Watching, Request, Nothing
<1>2. TypeOK /\ [Next]_vars => TypeOK'
  <2> SUFFICES ASSUME TypeOK, [Next]_vars PROVE TypeOK'
    OBVIOUS
  <2>1. ASSUME NEW c \in Clients, Upgrade(c) PROVE TypeOK'
    BY <2>1 DEF Upgrade, TypeOK, Watching, hub
  <2>2. ASSUME NEW c \in Clients, Join(c) PROVE TypeOK'
    BY <2>2 DEF Join, TypeOK, Watching, Room, client
  <2>3. ASSUME NEW c \in Clients, ReadPresence(c) PROVE TypeOK'
    BY <2>3 DEF ReadPresence, TypeOK, Watching, Room, hub, client
  <2>4. ASSUME NEW c \in Clients, ReadFails(c) PROVE TypeOK'
    BY <2>4 DEF ReadFails, TypeOK, Watching, hub, client
  <2>5. ASSUME NEW c \in Clients, Leave(c) PROVE TypeOK'
    BY <2>5 DEF Leave, TypeOK, Watching, Room, client
  <2>6. ASSUME NEW b \in Clients \cup Saves, NEW m \in Message, Offer(b, m) PROVE TypeOK'
    <3>1. PICK c \in left[b] :
             /\ left' = [left EXCEPT ![b] = @ \ {c}]
             /\ \/ Len(send[c]) < Cap /\ send' = [send EXCEPT ![c] = Append(@, m)]
                \/ UNCHANGED send
             /\ \/ UNCHANGED skipped
                \/ skipped' = skipped \cup {x \in {c} \cap Watching : Foreign(x, m)}
      BY <2>6 DEF Offer
    <3>2. c \in Clients /\ send[c] \in Seq(Message)
      BY DEF TypeOK
    <3>3. Append(send[c], m) \in Seq(Message) /\ Len(Append(send[c], m)) = Len(send[c]) + 1
      BY <3>2, AppendProperties
    <3>4. /\ send' \in [Clients -> Seq(Message)]
          /\ \A x \in Clients : Len(send'[x]) <= Cap
      <4>1. CASE UNCHANGED send
        BY <4>1 DEF TypeOK
      <4>2. CASE Len(send[c]) < Cap /\ send' = [send EXCEPT ![c] = Append(@, m)]
        <5>1. Len(Append(send[c], m)) <= Cap
          BY <3>2, <3>3, <4>2, LenProperties
        <5> QED BY <3>2, <3>3, <4>2, <5>1 DEF TypeOK
      <4> QED BY <3>1, <4>1, <4>2
    <3>5. skipped' \subseteq Watching /\ left' \in [Clients \cup Saves -> SUBSET Clients]
      BY <3>1 DEF TypeOK
    <3>6. UNCHANGED <<hub, handler, pump, hand, conn, save, sent, client>>
      BY <2>6 DEF Offer
    <3> QED BY <3>4, <3>5, <3>6 DEF TypeOK, Watching, hub, client
  <2>7. ASSUME NEW c \in Clients, RelayEnds(c) PROVE TypeOK'
    BY <2>7 DEF RelayEnds, TypeOK, Watching, hub, client
  <2>8. ASSUME NEW s \in Saves, NEW d \in Dags, NEW by \in Clients \cup {Anyone}, Commit(s, d, by)
        PROVE TypeOK'
    <3>1. [at |-> "saved", dag |-> d, by |-> by] \in Request
      BY DEF Request
    <3> QED BY <2>8, <3>1 DEF Commit, TypeOK, Watching, Show, hub
  <2>9. ASSUME NEW s \in Saves, Announce(s) PROVE TypeOK'
    <3>1. [save[s] EXCEPT !.at = "announcing"] \in Request
      <4>1. save[s] = [at |-> "saved", dag |-> save[s].dag, by |-> save[s].by]
        BY <2>9 DEF Announce, TypeOK, Request
      <4>2. save[s].dag \in Dags /\ save[s].by \in Clients \cup {Anyone}
        BY <2>9 DEF Announce, TypeOK, Request
      <4>3. [save[s] EXCEPT !.at = "announcing"]
               = [at |-> "announcing", dag |-> save[s].dag, by |-> save[s].by]
        BY <4>1
      <4> QED BY <4>2, <4>3 DEF Request
    <3>2. save' \in [Saves -> Request]
      BY <2>9, <3>1 DEF Announce, TypeOK
    <3>3. left' \in [Clients \cup Saves -> SUBSET Clients]
      BY <2>9 DEF Announce, TypeOK, Room
    <3> QED BY <2>9, <3>2, <3>3 DEF Announce, TypeOK, Watching, hub, client
  <2>10. ASSUME NEW s \in Saves, Answer(s) PROVE TypeOK'
    BY <2>10 DEF Answer, TypeOK, Watching, Request, hub, client
  <2>11. ASSUME NEW c \in Clients, Receive(c) PROVE TypeOK'
    <3>1. /\ Head(send[c]) \in Message
          /\ Tail(send[c]) \in Seq(Message)
          /\ Len(Tail(send[c])) <= Cap
      BY <2>11, HeadTailProperties DEF Receive, TypeOK
    <3> QED BY <2>11, <3>1 DEF Receive, TypeOK, Watching, hub, client
  <2>12. ASSUME NEW c \in Clients, Write(c) PROVE TypeOK'
    BY <2>12 DEF Write, TypeOK, Watching, hub
  <2>13. ASSUME NEW c \in Clients, Stop(c) PROVE TypeOK'
    BY <2>13 DEF Stop, TypeOK, Watching, Away, hub
  <2>14. ASSUME NEW c \in Clients, PeerGone(c) PROVE TypeOK'
    BY <2>14 DEF PeerGone, TypeOK, Watching, Away, hub
  <2>15. ASSUME NEW c \in Clients, Load(c) PROVE TypeOK'
    BY <2>15 DEF Load, TypeOK, Watching, Show, hub
  <2>16. ASSUME UNCHANGED vars PROVE TypeOK'
    BY <2>16 DEF vars, TypeOK, Watching
  <2>17. ASSUME NEW c \in Clients, Relay(c) PROVE TypeOK'
    BY <2>6, <2>17, Messages DEF Relay
  <2>18. ASSUME NEW s \in Saves, Tell(s) PROVE TypeOK'
    <3>1. save[s].by \in Clients \cup {Anyone}
      BY <2>18 DEF Tell, TypeOK, Request
    <3> QED BY <2>6, <2>18, <3>1, Messages DEF Tell
  <2> QED BY <2>1, <2>2, <2>3, <2>4, <2>5, <2>7, <2>8, <2>9, <2>10, <2>11, <2>12,
             <2>13, <2>14, <2>15, <2>16, <2>17, <2>18
          DEF Next, Locker, Handler, WritePump, Saver
<1>3. QED BY <1>1, <1>2, PTL DEF Spec

-----------------------------------------------------------------------------
\* The strengthening: a channel is open until its handler is done, and the
\* clients a Broadcast has still to visit are in the room it walks through,
\* because nobody joins or leaves while it holds the read lock.
OpenUntilDone == \A c \in Clients : handler[c] # "done" => open[c]

LeftInRoom ==
    /\ \A c \in Clients : left[c] # {} =>
          handler[c] = "relaying" /\ left[c] \subseteq Room(dagId[c]) \ {c}
    /\ \A s \in Saves : left[s] # {} =>
          save[s].at = "announcing" /\ left[s] \subseteq Room(save[s].dag)

HubInv == RoomsMatchHandlers /\ OpenUntilDone /\ LeftInRoom

\* A step that touches neither the hub nor who has joined.
LEMMA RoomsSame ==
    ASSUME RoomsMatchHandlers, OpenUntilDone, UNCHANGED hub,
           \A c \in Clients : /\ Joined(c)' <=> Joined(c)
                              /\ handler[c] = "done" => handler'[c] = "done"
    PROVE  RoomsMatchHandlers' /\ OpenUntilDone'
<1>1. rooms' = rooms /\ dagId' = dagId /\ open' = open
  BY DEF hub
<1>2. \A d : Room(d)' = Room(d)
  BY <1>1 DEF Room
<1>3. RoomsMatchHandlers'
  BY <1>1, <1>2 DEF RoomsMatchHandlers
<1>4. OpenUntilDone'
  BY <1>1 DEF OpenUntilDone
<1> QED BY <1>3, <1>4

\* ... nor what a Broadcast has still to do.
LEMMA HubSame ==
    ASSUME HubInv, UNCHANGED <<hub, left>>,
           \A c \in Clients : /\ Joined(c)' <=> Joined(c)
                              /\ handler[c] = "done" => handler'[c] = "done"
                              /\ left[c] # {} => handler'[c] = handler[c],
           \A s \in Saves : left[s] # {} => save'[s] = save[s]
    PROVE  HubInv'
<1>1. rooms' = rooms /\ dagId' = dagId /\ left' = left
  BY DEF hub
<1>2. \A d : Room(d)' = Room(d)
  BY <1>1 DEF Room
<1>3. LeftInRoom'
  BY <1>1, <1>2 DEF HubInv, LeftInRoom
<1>4. RoomsMatchHandlers' /\ OpenUntilDone'
  BY RoomsSame DEF HubInv
<1> QED BY <1>3, <1>4 DEF HubInv

\* Hub.Join puts a client into one room, with a channel that is open.
LEMMA JoinStep ==
    ASSUME TypeOK, HubInv, NEW c \in Clients, Join(c)
    PROVE  HubInv'
<1>1. /\ handler' = [handler EXCEPT ![c] = "reading"] /\ handler[c] = "joining"
      /\ dagId' = dagId /\ open' = open /\ left' = left /\ save' = save
      /\ dagId[c] \in Dags
  BY DEF Join, TypeOK
<1>2. /\ Room(dagId[c])' = Room(dagId[c]) \cup {c}
      /\ \A d : d # dagId[c] => Room(d)' = Room(d)
  BY DEF Join, Room
<1>3. \A x \in Clients : Joined(x)' <=> Joined(x) \/ x = c
  BY <1>1 DEF Joined, TypeOK
<1>4. RoomsMatchHandlers'
  <2>1. \A d \in DOMAIN rooms' : rooms'[d] # {}
    BY DEF Join, HubInv, RoomsMatchHandlers
  <2>2. \A x \in Clients, d \in Dags : x \in Room(d)' <=> Joined(x)' /\ dagId'[x] = d
    <3> SUFFICES ASSUME NEW x \in Clients, NEW d \in Dags
                 PROVE  x \in Room(d)' <=> Joined(x)' /\ dagId'[x] = d
      OBVIOUS
    <3>1. x \in Room(d) <=> Joined(x) /\ dagId[x] = d
      BY DEF HubInv, RoomsMatchHandlers
    <3> QED BY <1>1, <1>2, <1>3, <3>1
  <2>3. \A x \in Clients : Joined(x)' => open'[x]
    BY <1>1, <1>3 DEF HubInv, OpenUntilDone, RoomsMatchHandlers
  <2> QED BY <2>1, <2>2, <2>3 DEF RoomsMatchHandlers
<1>5. OpenUntilDone'
  BY <1>1 DEF HubInv, OpenUntilDone, TypeOK
<1>6. \A b \in Clients \cup Saves : left[b] = {}
  BY DEF Join, NoReader, HubInv, LeftInRoom
<1>7. LeftInRoom'
  BY <1>1, <1>6 DEF LeftInRoom
<1> QED BY <1>4, <1>5, <1>7 DEF HubInv

\* Hub.Leave closes the channel of a client no broadcast has still to visit.
LEMMA LeaveStep ==
    ASSUME TypeOK, HubInv, NEW c \in Clients, Leave(c)
    PROVE  HubInv'
<1>1. /\ handler' = [handler EXCEPT ![c] = "done"] /\ handler[c] = "leaving"
      /\ dagId' = dagId /\ left' = left /\ save' = save
      /\ dagId[c] \in Dags
      /\ \A x \in Clients : x # c => open'[x] = open[x]
  BY DEF Leave, TypeOK
<1>2. /\ Room(dagId[c])' = Room(dagId[c]) \ {c}
      /\ \A d : d # dagId[c] => Room(d)' = Room(d)
  BY DEF Leave, Room
<1>3. \A x \in Clients : Joined(x)' <=> Joined(x) /\ x # c
  BY <1>1 DEF Joined, TypeOK
<1>4. RoomsMatchHandlers'
  <2>1. \A d \in DOMAIN rooms' : rooms'[d] # {}
    BY DEF Leave, HubInv, RoomsMatchHandlers
  <2>2. \A x \in Clients, d \in Dags : x \in Room(d)' <=> Joined(x)' /\ dagId'[x] = d
    <3> SUFFICES ASSUME NEW x \in Clients, NEW d \in Dags
                 PROVE  x \in Room(d)' <=> Joined(x)' /\ dagId'[x] = d
      OBVIOUS
    <3>1. x \in Room(d) <=> Joined(x) /\ dagId[x] = d
      BY DEF HubInv, RoomsMatchHandlers
    <3> QED BY <1>1, <1>2, <1>3, <3>1
  <2>3. \A x \in Clients : Joined(x)' => open'[x]
    BY <1>1, <1>3 DEF HubInv, RoomsMatchHandlers
  <2> QED BY <2>1, <2>2, <2>3 DEF RoomsMatchHandlers
<1>5. OpenUntilDone'
  BY <1>1 DEF HubInv, OpenUntilDone, TypeOK
<1>6. \A b \in Clients \cup Saves : left[b] = {}
  BY DEF Leave, NoReader, HubInv, LeftInRoom
<1>7. LeftInRoom'
  BY <1>1, <1>6 DEF LeftInRoom
<1> QED BY <1>4, <1>5, <1>7 DEF HubInv

\* A turn of Broadcast's loop only shortens what is left.
LEMMA OfferStep ==
    ASSUME TypeOK, HubInv, NEW b \in Clients \cup Saves, NEW m, Offer(b, m)
    PROVE  HubInv'
<1>1. /\ UNCHANGED <<rooms, dagId, open, handler, save>>
      /\ \A x \in Clients \cup Saves : left'[x] \subseteq left[x]
  BY DEF Offer, TypeOK, hub
<1>2. \A d : Room(d)' = Room(d)
  BY <1>1 DEF Room
<1>3. LeftInRoom'
  BY <1>1, <1>2 DEF HubInv, LeftInRoom
<1>4. \A c \in Clients : Joined(c)' <=> Joined(c)
  BY <1>1 DEF Joined
<1> QED BY <1>1, <1>3, <1>4, RoomsSame DEF HubInv, hub

\* The invariant of the hub.
THEOREM HubInvariant == Spec => []HubInv
<1>1. Init => HubInv
  <2> SUFFICES ASSUME Init PROVE HubInv
    OBVIOUS
  <2>1. \A d : Room(d) = {}
    BY DEF Init, Room
  <2>2. \A c \in Clients : ~ Joined(c)
    BY DEF Init, Joined
  <2>3. RoomsMatchHandlers
    BY <2>1, <2>2 DEF RoomsMatchHandlers, Init
  <2> QED BY <2>3 DEF Init, HubInv, OpenUntilDone, LeftInRoom
<1>2. TypeOK /\ HubInv /\ [Next]_vars => HubInv'
  <2> SUFFICES ASSUME TypeOK, HubInv, [Next]_vars PROVE HubInv'
    OBVIOUS
  <2>1. ASSUME NEW c \in Clients, Upgrade(c) PROVE HubInv'
    <3>1. \A x \in Clients : /\ Joined(x)' <=> Joined(x)
                             /\ handler[x] = "done" => handler'[x] = "done"
                             /\ left[x] # {} => handler'[x] = handler[x]
      BY <2>1 DEF Upgrade, Joined, TypeOK, HubInv, LeftInRoom
    <3> QED BY <2>1, <3>1, HubSame DEF Upgrade
  <2>2. ASSUME NEW c \in Clients, Join(c) PROVE HubInv'
    BY <2>2, JoinStep
  <2>3. ASSUME NEW c \in Clients, ReadPresence(c) PROVE HubInv'
    <3>1. /\ UNCHANGED <<hub, save>>
          /\ handler' = [handler EXCEPT ![c] = "relaying"] /\ handler[c] = "reading"
          /\ left' = [left EXCEPT ![c] = Room(dagId[c]) \ {c}]
      BY <2>3 DEF ReadPresence
    <3>2. \A x \in Clients : /\ Joined(x)' <=> Joined(x)
                             /\ handler[x] = "done" => handler'[x] = "done"
      BY <3>1 DEF Joined, TypeOK
    <3>3. \A d : Room(d)' = Room(d)
      BY <3>1 DEF Room, hub
    <3>4. c \notin Saves
      OBVIOUS
    <3>5. LeftInRoom'
      BY <3>1, <3>3, <3>4 DEF HubInv, LeftInRoom, TypeOK, hub
    <3> QED BY <3>1, <3>2, <3>5, RoomsSame DEF HubInv
  <2>4. ASSUME NEW c \in Clients, ReadFails(c) PROVE HubInv'
    <3>1. \A x \in Clients : /\ Joined(x)' <=> Joined(x)
                             /\ handler[x] = "done" => handler'[x] = "done"
                             /\ left[x] # {} => handler'[x] = handler[x]
      BY <2>4 DEF ReadFails, Joined, TypeOK, HubInv, LeftInRoom
    <3> QED BY <2>4, <3>1, HubSame DEF ReadFails
  <2>5. ASSUME NEW c \in Clients, Leave(c) PROVE HubInv'
    BY <2>5, LeaveStep
  <2>6. ASSUME NEW c \in Clients, Relay(c) PROVE HubInv'
    BY <2>6, OfferStep DEF Relay
  <2>7. ASSUME NEW c \in Clients, RelayEnds(c) PROVE HubInv'
    <3>1. \A x \in Clients : /\ Joined(x)' <=> Joined(x)
                             /\ handler[x] = "done" => handler'[x] = "done"
                             /\ left[x] # {} => handler'[x] = handler[x]
      BY <2>7 DEF RelayEnds, Joined, TypeOK
    <3> QED BY <2>7, <3>1, HubSame DEF RelayEnds
  <2>8. ASSUME NEW s \in Saves, NEW d \in Dags, NEW by \in Clients \cup {Anyone}, Commit(s, d, by)
        PROVE HubInv'
    <3>1. \A t \in Saves : left[t] # {} => save'[t] = save[t]
      BY <2>8 DEF Commit, TypeOK, HubInv, LeftInRoom
    <3> QED BY <2>8, <3>1, HubSame DEF Commit, Joined
  <2>9. ASSUME NEW s \in Saves, Announce(s) PROVE HubInv'
    <3>1. /\ UNCHANGED <<hub, handler>>
          /\ left' = [left EXCEPT ![s] = Room(save[s].dag)]
          /\ save' = [save EXCEPT ![s].at = "announcing"]
      BY <2>9 DEF Announce
    <3>2. save[s] = [at |-> "saved", dag |-> save[s].dag, by |-> save[s].by]
      BY <2>9 DEF Announce, TypeOK, Request
    <3>3. /\ save'[s].at = "announcing" /\ save'[s].dag = save[s].dag
          /\ \A t \in Saves \ {s} : save'[t] = save[t]
      BY <3>1, <3>2 DEF TypeOK
    <3>4. \A d : Room(d)' = Room(d)
      BY <3>1 DEF Room, hub
    <3>5. s \notin Clients
      OBVIOUS
    <3>6. LeftInRoom'
      BY <3>1, <3>3, <3>4, <3>5 DEF HubInv, LeftInRoom, TypeOK, hub
    <3> QED BY <3>1, <3>6, RoomsSame DEF HubInv, Joined
  <2>10. ASSUME NEW s \in Saves, Tell(s) PROVE HubInv'
    BY <2>10, OfferStep DEF Tell
  <2>11. ASSUME NEW s \in Saves, Answer(s) PROVE HubInv'
    <3>1. \A t \in Saves : left[t] # {} => save'[t] = save[t]
      BY <2>11 DEF Answer, TypeOK
    <3> QED BY <2>11, <3>1, HubSame DEF Answer, Joined
  <2>12. ASSUME UNCHANGED <<hub, left, handler, save>> PROVE HubInv'
    BY <2>12, HubSame DEF Joined
  <2> QED BY <2>1, <2>2, <2>3, <2>4, <2>5, <2>6, <2>7, <2>8, <2>9, <2>10, <2>11, <2>12
          DEF Next, Locker, Handler, WritePump, Saver, Receive, Write, Stop, PeerGone,
              Load, vars, hub
<1>3. QED BY <1>1, <1>2, TypeCorrect, PTL DEF Spec

\* The hub holds exactly the clients that joined and did not leave.
THEOREM RoomsMatch == Spec => []RoomsMatchHandlers
<1>1. HubInv => RoomsMatchHandlers
  BY DEF HubInv
<1> QED BY <1>1, HubInvariant, PTL

\* No Broadcast sends on a closed channel.
THEOREM NoSendOnClosed == Spec => []SendsAreSafe
<1>1. TypeOK /\ HubInv => SendsAreSafe
  <2> SUFFICES ASSUME TypeOK, HubInv, NEW b \in Clients \cup Saves, NEW c \in left[b]
               PROVE  open[c]
    BY DEF SendsAreSafe
  <2>1. c \in Clients
    BY DEF TypeOK
  <2>2. PICK d \in Dags : c \in Room(d)
    BY DEF HubInv, LeftInRoom, TypeOK, Request
  <2>3. Joined(c)
    BY <2>1, <2>2 DEF HubInv, RoomsMatchHandlers
  <2> QED BY <2>1, <2>3 DEF HubInv, RoomsMatchHandlers
<1> QED BY <1>1, TypeCorrect, HubInvariant, PTL

-----------------------------------------------------------------------------
\* A pump that is not writing holds no message, it starts with Join, and a client that waits to be
\* let in has still to load its diagram or has loaded it early.
EmptyHand ==
    \A c \in Clients : /\ pump[c] # "writing" => hand[c] = Nothing
                       /\ handler[c] \in {"start", "joining"} => pump[c] = "none"

Awaiting == \A c \in Watching : handler[c] = "joining" => c \in due \cup early

ClientInv == EmptyHand /\ Awaiting

\* What is known of a client that shows old content, whatever the hub does.
THEOREM ClientInvariant == Spec => []ClientInv
<1>1. Init => ClientInv
  BY DEF Init, ClientInv, EmptyHand, Awaiting, Watching
<1>2. TypeOK /\ ClientInv /\ [Next]_vars => ClientInv'
  <2> SUFFICES ASSUME TypeOK, ClientInv, [Next]_vars PROVE ClientInv'
    OBVIOUS
  <2>1. EmptyHand'
    <3>1. ASSUME NEW c \in Clients, Receive(c) PROVE EmptyHand'
      BY <3>1 DEF Receive, ClientInv, EmptyHand, TypeOK
    <3>2. ASSUME NEW c \in Clients, Write(c) \/ Stop(c) PROVE EmptyHand'
      <4>1. /\ hand' = [hand EXCEPT ![c] = Nothing] /\ handler' = handler
            /\ pump[c] # "none"
            /\ \A x \in Clients : x # c => pump'[x] = pump[x]
        BY <3>2 DEF Write, Stop, TypeOK
      <4> QED BY <4>1 DEF ClientInv, EmptyHand, TypeOK
    <3>3. ASSUME NEW c \in Clients, Join(c) PROVE EmptyHand'
      <4>1. /\ hand' = hand /\ handler'[c] = "reading" /\ handler[c] = "joining"
            /\ \A x \in Clients : x # c => pump'[x] = pump[x] /\ handler'[x] = handler[x]
        BY <3>3 DEF Join, TypeOK
      <4> QED BY <4>1 DEF ClientInv, EmptyHand
    <3>4. ASSUME UNCHANGED <<pump, hand>>,
                 \A c \in Clients : handler'[c] \in {"start", "joining"}
                                     => handler[c] \in {"start", "joining"}
          PROVE EmptyHand'
      BY <3>4 DEF ClientInv, EmptyHand
    <3>5. ASSUME NEW c \in Clients,
                 Upgrade(c) \/ ReadPresence(c) \/ ReadFails(c) \/ Leave(c) \/ RelayEnds(c)
          PROVE EmptyHand'
      BY <3>4, <3>5 DEF Upgrade, ReadPresence, ReadFails, Leave, RelayEnds, TypeOK
    <3> QED BY <3>1, <3>2, <3>3, <3>4, <3>5
            DEF Next, Locker, Handler, WritePump, Saver, Relay, Offer, Commit, Announce,
                Tell, Answer, PeerGone, Load, vars
  <2>2. Awaiting'
    <3>1. ASSUME NEW c \in Clients, Upgrade(c) PROVE Awaiting'
      BY <3>1 DEF Upgrade, ClientInv, Awaiting, Watching, TypeOK
    <3>2. ASSUME NEW c \in Clients, Load(c) PROVE Awaiting'
      BY <3>2 DEF Load, Show, ClientInv, Awaiting, Watching, TypeOK
    <3>3. ASSUME NEW c \in Clients, PeerGone(c) \/ Stop(c) PROVE Awaiting'
      BY <3>3 DEF PeerGone, Stop, Away, ClientInv, Awaiting, Watching, TypeOK
    <3>4. ASSUME NEW s \in Saves, NEW d \in Dags, NEW by \in Clients \cup {Anyone},
                 Commit(s, d, by)
          PROVE Awaiting'
      BY <3>4 DEF Commit, Show, ClientInv, Awaiting, Watching, TypeOK
    <3>5. ASSUME NEW c \in Clients, Write(c) PROVE Awaiting'
      BY <3>5 DEF Write, ClientInv, Awaiting, Watching, TypeOK
    <3>6. ASSUME UNCHANGED <<conn, due, early>>,
                 \A c \in Clients : handler'[c] = "joining" => handler[c] = "joining"
          PROVE Awaiting'
      BY <3>6 DEF ClientInv, Awaiting, Watching
    <3>7. ASSUME NEW c \in Clients,
                 Join(c) \/ ReadPresence(c) \/ ReadFails(c) \/ Leave(c) \/ RelayEnds(c)
          PROVE Awaiting'
      BY <3>6, <3>7 DEF Join, ReadPresence, ReadFails, Leave, RelayEnds, TypeOK, client
    <3> QED BY <3>1, <3>2, <3>3, <3>4, <3>5, <3>6, <3>7
            DEF Next, Locker, Handler, WritePump, Saver, Relay, Offer, Announce, Tell, Answer,
                Receive, vars, client
  <2> QED BY <2>1, <2>2 DEF ClientInv
<1>3. QED BY <1>1, <1>2, TypeCorrect, PTL DEF Spec

\* An announcement that one client is offered or passed over for.
LEMMA OfferKeeps ==
    ASSUME TypeOK, NEW b \in Clients \cup Saves, NEW m \in Message, Offer(b, m),
           b \in Saves => save[b].at = "announcing" /\ m = Updated(save[b].by),
           NEW c \in Clients, Stale(c), Coming(c)
    PROVE  Coming(c)' \/ c \in skipped'
<1>1. /\ UNCHANGED <<dagId, handler, hand, conn, save, due, stale, early>>
      /\ skipped \subseteq skipped'
  BY DEF Offer, hub, client
<1>2. PICK x \in left[b] :
         /\ left' = [left EXCEPT ![b] = @ \ {x}]
         /\ \/ /\ Len(send[x]) < Cap
               /\ send' = [send EXCEPT ![x] = Append(@, m)]
            \/ /\ UNCHANGED send
               /\ skipped' = skipped \cup {y \in {x} \cap Watching : Foreign(y, m)}
  BY DEF Offer
<1>3. x \in Clients /\ send[x] \in Seq(Message)
  BY DEF TypeOK
<1>4. /\ OnItsWay(c) \subseteq OnItsWay(c)'
      /\ c = x /\ send' = [send EXCEPT ![x] = Append(@, m)] => m \in OnItsWay(c)'
  <2>1. CASE UNCHANGED send \/ c # x
    <3>1. send'[c] = send[c] /\ hand'[c] = hand[c]
      BY <1>1, <1>2, <1>3, <2>1 DEF TypeOK
    <3>2. ~ (c = x /\ send' = [send EXCEPT ![x] = Append(@, m)])
      <4>1. Len(Append(send[x], m)) = Len(send[x]) + 1 /\ Len(send[x]) \in Nat
        BY <1>3, AppendProperties, LenProperties
      <4> QED BY <1>3, <2>1, <4>1 DEF TypeOK
    <3> QED BY <3>1, <3>2 DEF OnItsWay
  <2>2. CASE c = x /\ send' = [send EXCEPT ![x] = Append(@, m)]
    <3>1. send'[c] = Append(send[c], m) /\ hand'[c] = hand[c]
      BY <1>1, <1>3, <2>2 DEF TypeOK
    <3>2. /\ DOMAIN send[c] = 1 .. Len(send[c]) /\ Len(send[c]) \in Nat
          /\ DOMAIN send'[c] = 1 .. Len(send[c]) + 1
          /\ \A i \in 1 .. Len(send[c]) : send'[c][i] = send[c][i]
          /\ send'[c][Len(send[c]) + 1] = m
      BY <1>3, <2>2, <3>1, AppendProperties, LenProperties
    <3> QED BY <3>1, <3>2 DEF OnItsWay
  <2> QED BY <1>2, <2>1, <2>2
<1>5. CASE \E s \in Saves : save[s].at = "announcing" /\ c \in left[s] /\ save[s].by # c
  <2>1. PICK s \in Saves : save[s].at = "announcing" /\ c \in left[s] /\ save[s].by # c
    BY <1>5
  <2>2. CASE s = b /\ c = x
    <3>1. Foreign(c, m)
      BY <2>1, <2>2 DEF Foreign, Updated
    <3>2. c \in Watching
      BY DEF Stale, TypeOK
    <3> QED BY <1>2, <1>4, <2>2, <3>1, <3>2 DEF Coming
  <2>3. CASE ~ (s = b /\ c = x)
    <3>1. c \in left'[s]
      BY <1>2, <2>1, <2>3 DEF TypeOK
    <3> QED BY <1>1, <2>1, <3>1 DEF Coming
  <2> QED BY <2>2, <2>3
<1>6. CASE c \in due \/ \E s \in Saves : save[s].at = "saved" /\ save[s].dag = dagId[c]
                                          /\ save[s].by # c
  BY <1>1, <1>6 DEF Coming
<1>7. CASE \E n \in OnItsWay(c) : Foreign(c, n)
  BY <1>4, <1>7 DEF Coming, Foreign
<1> QED BY <1>5, <1>6, <1>7 DEF Coming

\* A client that is served and shows an old content has an announcement coming,
\* unless one of them found its channel full.
THEOREM NoSilentStaleness == Spec => []StaleOnlyIfSkipped
<1>1. Init => StaleOnlyIfSkipped
  BY DEF Init, StaleOnlyIfSkipped, Stale
<1>2. /\ TypeOK /\ TypeOK' /\ HubInv /\ ClientInv /\ StaleOnlyIfSkipped
      /\ [Next]_vars
      => StaleOnlyIfSkipped'
  <2> SUFFICES ASSUME TypeOK, TypeOK', HubInv, ClientInv, StaleOnlyIfSkipped, [Next]_vars,
                      NEW c \in Clients
               PROVE  Stale(c)' => Coming(c)' \/ c \in skipped'
    BY DEF StaleOnlyIfSkipped
  <2> DEFINE Goal == Stale(c)' => Coming(c)' \/ c \in skipped'
  <2>1. Stale(c) => Coming(c) \/ c \in skipped
    BY DEF StaleOnlyIfSkipped
  <2>2. ASSUME NEW x \in Clients, Upgrade(x) PROVE Goal
    <3>1. Stale(c)' => Stale(c)
      BY <2>2 DEF Upgrade, Stale, TypeOK
    <3>2. Coming(c) => Coming(c)'
      BY <2>2 DEF Upgrade, Coming, OnItsWay, hub
    <3> QED BY <2>1, <2>2, <3>1, <3>2 DEF Upgrade
  <2>3. ASSUME NEW x \in Clients, Join(x) PROVE Goal
    <3>1. Coming(c) => Coming(c)'
      BY <2>3 DEF Join, Coming, OnItsWay, client
    <3>2. CASE c = x
      <4>1. Stale(c)' => c \in due
        BY <2>3, <3>2 DEF Join, Stale, ClientInv, Awaiting, TypeOK, client
      <4> QED BY <2>3, <4>1 DEF Join, Coming, client
    <3>3. CASE c # x
      <4>1. Stale(c)' => Stale(c)
        BY <2>3, <3>3 DEF Join, Stale, TypeOK, client
      <4> QED BY <2>1, <2>3, <3>1, <4>1 DEF Join
    <3> QED BY <3>2, <3>3
  <2>4. ASSUME NEW x \in Clients, ReadPresence(x) PROVE Goal
    <3>1. Stale(c)' => Stale(c)
      BY <2>4 DEF ReadPresence, Stale, TypeOK, client
    <3>2. \A s \in Saves : left'[s] = left[s]
      BY <2>4 DEF ReadPresence, TypeOK
    <3>3. Coming(c) => Coming(c)'
      BY <2>4, <3>2 DEF ReadPresence, Coming, OnItsWay, hub, client
    <3> QED BY <2>1, <2>4, <3>1, <3>3 DEF ReadPresence
  <2>5. ASSUME NEW x \in Clients, ReadFails(x) \/ Leave(x) \/ RelayEnds(x) PROVE Goal
    <3>1. Stale(c)' => Stale(c)
      BY <2>5 DEF ReadFails, Leave, RelayEnds, Stale, TypeOK, client
    <3>2. Coming(c) => Coming(c)'
      BY <2>5 DEF ReadFails, Leave, RelayEnds, Coming, OnItsWay, hub, client
    <3> QED BY <2>1, <2>5, <3>1, <3>2 DEF ReadFails, Leave, RelayEnds
  <2>6. ASSUME NEW b \in Clients \cup Saves, NEW m \in Message, Offer(b, m),
               b \in Saves => save[b].at = "announcing" /\ m = Updated(save[b].by)
        PROVE Goal
    <3>1. (Stale(c)' => Stale(c)) /\ skipped \subseteq skipped'
      BY <2>6 DEF Offer, Stale, client
    <3> QED BY <2>1, <2>6, <3>1, OfferKeeps
  <2>7. ASSUME NEW x \in Clients, Relay(x) PROVE Goal
    BY <2>6, <2>7, Messages DEF Relay
  <2>8. ASSUME NEW s \in Saves, Tell(s) PROVE Goal
    <3>1. save[s].by \in Clients \cup {Anyone}
      BY <2>8 DEF Tell, TypeOK, Request
    <3> QED BY <2>6, <2>8, <3>1, Messages DEF Tell
  <2>9. ASSUME NEW s \in Saves, NEW d \in Dags, NEW by \in Clients \cup {Anyone}, Commit(s, d, by)
        PROVE Goal
    <3>1. /\ save' = [save EXCEPT ![s] = [at |-> "saved", dag |-> d, by |-> by]]
          /\ save[s].at = "start"
          /\ UNCHANGED <<dagId, handler, send, hand, left, due>>
      BY <2>9 DEF Commit, hub
    <3>2. \A t \in Saves : t # s => save'[t] = save[t]
      BY <3>1 DEF TypeOK
    <3>3. Coming(c) => Coming(c)'
      BY <3>1, <3>2 DEF Coming, OnItsWay
    <3>4. CASE UNCHANGED <<stale, early, skipped>>
      <4>1. Stale(c)' => Stale(c)
        BY <3>1, <3>4 DEF Stale
      <4> QED BY <2>1, <3>3, <3>4, <4>1
    <3>5. CASE stale' = (stale \cup {x \in Watching : dagId[x] = d}) \ {by}
               /\ Show({by} \cap Watching)
      <4>1. CASE c = by
        BY <3>5, <4>1 DEF Stale
      <4>2. CASE c # by
        <5>1. (c \in early' <=> c \in early) /\ (c \in skipped' <=> c \in skipped)
          BY <3>5, <4>2 DEF Show
        <5>2. CASE dagId[c] = d
          <6>1. save'[s].at = "saved" /\ save'[s].dag = d /\ save'[s].by = by
            BY <3>1 DEF TypeOK
          <6> QED BY <3>1, <4>2, <5>2, <6>1 DEF Coming
        <5>3. CASE dagId[c] # d
          <6>1. Stale(c)' => Stale(c)
            BY <3>1, <3>5, <5>1, <5>3 DEF Stale
          <6> QED BY <2>1, <3>3, <5>1, <6>1
        <5> QED BY <5>2, <5>3
      <4> QED BY <4>1, <4>2
    <3> QED BY <2>9, <3>4, <3>5 DEF Commit
  <2>10. ASSUME NEW s \in Saves, Announce(s) PROVE Goal
    <3>1. /\ save' = [save EXCEPT ![s].at = "announcing"] /\ save[s].at = "saved"
          /\ left' = [left EXCEPT ![s] = Room(save[s].dag)]
          /\ UNCHANGED <<dagId, handler, send, hand, due, stale, early, skipped>>
      BY <2>10 DEF Announce, hub, client
    <3>2. save[s] = [at |-> "saved", dag |-> save[s].dag, by |-> save[s].by]
          /\ save[s].dag \in Dags
      BY <3>1 DEF TypeOK, Request
    <3>3. /\ save'[s].at = "announcing" /\ save'[s].by = save[s].by
          /\ left'[s] = Room(save[s].dag)
          /\ \A t \in Saves \ {s} : save'[t] = save[t] /\ left'[t] = left[t]
      BY <3>1, <3>2 DEF TypeOK
    <3>4. Stale(c)' => Stale(c)
      BY <3>1 DEF Stale
    <3>5. ASSUME Stale(c), Coming(c) PROVE Coming(c)'
      <4>1. CASE save[s].dag = dagId[c] /\ save[s].by # c
        <5>1. Joined(c)
          BY <3>5 DEF Stale, Joined
        <5>2. c \in left'[s]
          BY <3>2, <3>3, <4>1, <5>1 DEF HubInv, RoomsMatchHandlers
        <5> QED BY <3>3, <4>1, <5>2 DEF Coming
      <4>2. CASE ~ (save[s].dag = dagId[c] /\ save[s].by # c)
        <5>1. CASE c \in due \/ \E m \in OnItsWay(c) : Foreign(c, m)
          <6>1. OnItsWay(c)' = OnItsWay(c)
            BY <3>1 DEF OnItsWay
          <6> QED BY <3>1, <5>1, <6>1 DEF Coming, Foreign
        <5>2. CASE \E t \in Saves :
                      \/ save[t].at = "saved" /\ save[t].dag = dagId[c] /\ save[t].by # c
                      \/ save[t].at = "announcing" /\ c \in left[t] /\ save[t].by # c
          <6>1. PICK t \in Saves :
                      \/ save[t].at = "saved" /\ save[t].dag = dagId[c] /\ save[t].by # c
                      \/ save[t].at = "announcing" /\ c \in left[t] /\ save[t].by # c
            BY <5>2
          <6>2. t # s
            BY <3>1, <4>2, <6>1
          <6> QED BY <3>1, <3>3, <6>1, <6>2 DEF Coming
        <5> QED BY <3>5, <5>1, <5>2 DEF Coming
      <4> QED BY <4>1, <4>2
    <3> QED BY <2>1, <3>1, <3>4, <3>5
  <2>11. ASSUME NEW s \in Saves, Answer(s) PROVE Goal
    <3>1. (Stale(c)' => Stale(c)) /\ skipped' = skipped
      BY <2>11 DEF Answer, Stale, client
    <3>2. \A t \in Saves : t # s => save'[t] = save[t]
      BY <2>11 DEF Answer, TypeOK
    <3>3. Coming(c) => Coming(c)'
      BY <2>11, <3>2 DEF Answer, Coming, OnItsWay, hub, client
    <3> QED BY <2>1, <3>1, <3>3
  <2>12. ASSUME NEW x \in Clients, Receive(x) PROVE Goal
    <3>1. (Stale(c)' => Stale(c)) /\ skipped' = skipped
      BY <2>12 DEF Receive, Stale, client
    <3>2. ASSUME NEW m \in OnItsWay(c), Foreign(c, m) PROVE m \in OnItsWay(c)'
      <4>1. CASE c # x
        BY <2>12, <4>1, <3>2 DEF Receive, OnItsWay, TypeOK
      <4>2. CASE c = x
        <5>1. /\ send[c] \in Seq(Message) /\ send[c] # <<>>
              /\ hand'[c] = Head(send[c]) /\ send'[c] = Tail(send[c])
              /\ hand[c] = Nothing
          BY <2>12, <4>2 DEF Receive, TypeOK, ClientInv, EmptyHand
        <5>2. m # hand[c]
          BY <3>2, <5>1 DEF Foreign, Nothing
        <5>3. PICK i \in DOMAIN send[c] : m = send[c][i]
          BY <3>2, <5>2 DEF OnItsWay
        <5>4. /\ Len(send[c]) \in Nat /\ DOMAIN send[c] = 1 .. Len(send[c])
              /\ Head(send[c]) = send[c][1]
              /\ Len(Tail(send[c])) = Len(send[c]) - 1
              /\ Tail(send[c]) \in Seq(Message)
              /\ \A k \in 1 .. Len(Tail(send[c])) : Tail(send[c])[k] = send[c][k + 1]
          BY <5>1, HeadTailProperties, LenProperties
        <5>5. CASE i = 1
          BY <5>1, <5>3, <5>4, <5>5 DEF OnItsWay
        <5>6. CASE i # 1
          <6>1. i - 1 \in 1 .. Len(Tail(send[c])) /\ i \in Nat
            BY <5>3, <5>4, <5>6
          <6>2. m = send'[c][i - 1]
            BY <5>1, <5>3, <5>4, <6>1
          <6>3. i - 1 \in DOMAIN send'[c]
            BY <5>1, <5>4, <6>1, LenProperties
          <6> QED BY <6>2, <6>3 DEF OnItsWay
        <5> QED BY <5>5, <5>6
      <4> QED BY <4>1, <4>2
    <3>3. Coming(c) => Coming(c)'
      BY <2>12, <3>2 DEF Receive, Coming, hub, client, Foreign
    <3> QED BY <2>1, <3>1, <3>3
  <2>13. ASSUME NEW x \in Clients, Write(x) PROVE Goal
    <3>1. (Stale(c)' => Stale(c)) /\ skipped' = skipped
      BY <2>13 DEF Write, Stale
    <3>2. ASSUME Stale(c), NEW m \in OnItsWay(c), Foreign(c, m) PROVE Coming(c)'
      <4>1. CASE c = x /\ m = hand[c]
        <5>1. c \in Watching
          BY <3>2 DEF Stale, TypeOK
        <5> QED BY <2>13, <3>2, <4>1, <5>1 DEF Write, Coming
      <4>2. CASE ~ (c = x /\ m = hand[c])
        <5>1. m \in OnItsWay(c)'
          BY <2>13, <4>2 DEF Write, OnItsWay, TypeOK
        <5> QED BY <3>2, <5>1 DEF Coming, Foreign
      <4> QED BY <4>1, <4>2
    <3>3. Stale(c) /\ Coming(c) => Coming(c)'
      BY <2>13, <3>2 DEF Write, Coming, hub
    <3> QED BY <2>1, <3>1, <3>3
  <2>14. ASSUME NEW x \in Clients, Stop(x) \/ PeerGone(x) PROVE Goal
    <3>1. CASE c = x
      BY <2>14, <3>1 DEF Stop, PeerGone, Away, Stale
    <3>2. CASE c # x
      <4>1. (Stale(c)' => Stale(c)) /\ (c \in skipped => c \in skipped')
        BY <2>14, <3>2 DEF Stop, PeerGone, Away, Stale
      <4>2. Coming(c) => Coming(c)'
        BY <2>14, <3>2 DEF Stop, PeerGone, Away, Coming, OnItsWay, hub, TypeOK
      <4> QED BY <2>1, <4>1, <4>2
    <3> QED BY <3>1, <3>2
  <2>15. ASSUME NEW x \in Clients, Load(x) PROVE Goal
    <3>1. CASE c = x
      BY <2>15, <3>1 DEF Load, Stale
    <3>2. CASE c # x
      <4>1. (Stale(c)' => Stale(c)) /\ (c \in skipped => c \in skipped')
        BY <2>15, <3>2 DEF Load, Show, Stale
      <4>2. Coming(c) => Coming(c)'
        BY <2>15, <3>2 DEF Load, Show, Coming, OnItsWay, hub
      <4> QED BY <2>1, <4>1, <4>2
    <3> QED BY <3>1, <3>2
  <2>16. ASSUME UNCHANGED vars PROVE Goal
    BY <2>1, <2>16 DEF vars, Stale, Coming, OnItsWay
  <2> QED BY <2>2, <2>3, <2>4, <2>5, <2>7, <2>8, <2>9, <2>10, <2>11, <2>12, <2>13, <2>14,
             <2>15, <2>16
          DEF Next, Locker, Handler, WritePump, Saver
<1>3. QED BY <1>1, <1>2, TypeCorrect, HubInvariant, ClientInvariant, PTL DEF Spec

-----------------------------------------------------------------------------
\* What comes into a channel is what a Broadcast offers to one of its targets.
LEMMA OfferAdds ==
    ASSUME TypeOK, NEW b \in Clients \cup Saves, NEW m \in Message, Offer(b, m),
           NEW c \in Clients, NEW n \in OnItsWay(c)', n \notin OnItsWay(c)
    PROVE  n = m /\ c \in left[b]
<1>1. PICK x \in left[b] :
         send' = [send EXCEPT ![x] = Append(@, m)] \/ UNCHANGED send
  BY DEF Offer
<1>2. x \in Clients /\ send[x] \in Seq(Message) /\ hand' = hand
  BY DEF Offer, TypeOK
<1>3. CASE UNCHANGED send \/ c # x
  <2>1. send'[c] = send[c]
    BY <1>1, <1>2, <1>3 DEF TypeOK
  <2> QED BY <1>2, <2>1 DEF OnItsWay
<1>4. CASE c = x /\ send' = [send EXCEPT ![x] = Append(@, m)]
  <2>1. send'[c] = Append(send[c], m)
    BY <1>2, <1>4 DEF TypeOK
  <2>2. /\ DOMAIN send[c] = 1 .. Len(send[c]) /\ Len(send[c]) \in Nat
        /\ DOMAIN send'[c] = 1 .. Len(send[c]) + 1
        /\ \A i \in 1 .. Len(send[c]) : send'[c][i] = send[c][i]
        /\ send'[c][Len(send[c]) + 1] = m
    BY <1>2, <1>4, <2>1, AppendProperties, LenProperties
  <2>3. PICK i \in 1 .. Len(send[c]) + 1 : n = send'[c][i]
    BY <1>2, <2>2 DEF OnItsWay
  <2>4. i = Len(send[c]) + 1
    <3>1. ASSUME i \in 1 .. Len(send[c]) PROVE FALSE
      <4>1. n = send[c][i] /\ i \in DOMAIN send[c]
        BY <2>2, <2>3, <3>1
      <4> QED BY <4>1 DEF OnItsWay
    <3> QED BY <2>2, <2>3, <3>1
  <2> QED BY <1>4, <2>2, <2>3, <2>4
<1> QED BY <1>1, <1>3, <1>4

\* Presence goes to the other clients of the room only.
THEOREM PresenceInRoom == Spec => []PresenceStaysInRoom
<1>1. Init => PresenceStaysInRoom
  BY DEF Init, PresenceStaysInRoom, OnItsWay, Nothing
<1>2. TypeOK /\ HubInv /\ PresenceStaysInRoom /\ [Next]_vars => PresenceStaysInRoom'
  <2> SUFFICES ASSUME TypeOK, HubInv, PresenceStaysInRoom, [Next]_vars,
                      NEW c \in Clients, NEW m \in OnItsWay(c)', m.type = "presence"
               PROVE  m.from # c /\ dagId'[m.from] = dagId'[c]
    BY DEF PresenceStaysInRoom
  <2>1. dagId' = dagId
    BY DEF Next, Locker, Handler, WritePump, Saver, Upgrade, Join, ReadPresence, ReadFails,
           Leave, Relay, RelayEnds, Offer, Commit, Announce, Tell, Answer, Receive, Write,
           Stop, PeerGone, Load, vars, hub
  <2>2. CASE m \in OnItsWay(c)
    BY <2>1, <2>2 DEF PresenceStaysInRoom
  <2>3. ASSUME m \notin OnItsWay(c), NEW x \in Clients, Relay(x)
        PROVE  m.from # c /\ dagId[m.from] = dagId[c]
    <3>1. m = Presence(x) /\ c \in left[x]
      BY <2>3, OfferAdds, Messages DEF Relay
    <3>2. c \in Room(dagId[x]) \ {x} /\ dagId[x] \in Dags
      BY <3>1 DEF HubInv, LeftInRoom, TypeOK
    <3> QED BY <3>1, <3>2 DEF Presence, HubInv, RoomsMatchHandlers
  <2>4. ASSUME m \notin OnItsWay(c), NEW s \in Saves, Tell(s) PROVE FALSE
    <3>1. save[s].by \in Clients \cup {Anyone}
      BY <2>4 DEF Tell, TypeOK, Request
    <3>2. m = Updated(save[s].by)
      BY <2>4, <3>1, OfferAdds, Messages DEF Tell
    <3> QED BY <3>2 DEF Updated
  <2>5. ASSUME NEW x \in Clients, Receive(x) PROVE m \in OnItsWay(c)
    <3>1. CASE c # x
      BY <2>5, <3>1 DEF Receive, OnItsWay, TypeOK
    <3>2. CASE c = x
      <4>1. /\ send[c] \in Seq(Message) /\ send[c] # <<>>
            /\ hand'[c] = Head(send[c]) /\ send'[c] = Tail(send[c])
        BY <2>5, <3>2 DEF Receive, TypeOK
      <4>2. /\ Len(send[c]) \in Nat /\ DOMAIN send[c] = 1 .. Len(send[c])
            /\ 1 \in DOMAIN send[c] /\ Head(send[c]) = send[c][1]
            /\ Len(Tail(send[c])) = Len(send[c]) - 1
            /\ DOMAIN Tail(send[c]) = 1 .. Len(Tail(send[c]))
            /\ \A k \in 1 .. Len(Tail(send[c])) : Tail(send[c])[k] = send[c][k + 1]
        BY <4>1, HeadTailProperties, LenProperties
      <4>3. CASE m = hand'[c]
        BY <4>1, <4>2, <4>3 DEF OnItsWay
      <4>4. CASE m # hand'[c]
        <5>1. PICK k \in DOMAIN send'[c] : m = send'[c][k]
          BY <4>4 DEF OnItsWay
        <5>2. k + 1 \in DOMAIN send[c] /\ m = send[c][k + 1]
          BY <4>1, <4>2, <5>1
        <5> QED BY <5>2 DEF OnItsWay
      <4> QED BY <4>3, <4>4
    <3> QED BY <3>1, <3>2
  <2>6. ASSUME NEW x \in Clients, Write(x) \/ Stop(x) PROVE m \in OnItsWay(c)
    <3>1. hand' = [hand EXCEPT ![x] = Nothing] /\ send' = send
      BY <2>6 DEF Write, Stop
    <3> QED BY <3>1 DEF OnItsWay, Nothing, TypeOK
  <2>7. ASSUME UNCHANGED <<send, hand>> PROVE m \in OnItsWay(c)
    BY <2>7 DEF OnItsWay
  <2> QED BY <2>1, <2>2, <2>3, <2>4, <2>5, <2>6, <2>7
          DEF Next, Locker, Handler, WritePump, Saver, Upgrade, Join, ReadPresence, ReadFails,
              Leave, RelayEnds, Commit, Announce, Answer, PeerGone, Load, vars
<1>3. QED BY <1>1, <1>2, TypeCorrect, HubInvariant, PTL DEF Spec

-----------------------------------------------------------------------------
\* The state of the abstract hub: who is in which room, and who is still to be
\* visited by a broadcast.
In == {x \in Clients \X Dags : x[1] \in Room(x[2])}

Owed == {x \in (Clients \cup Saves) \X Clients : x[2] \in left[x[1]]}

HubUnseen == In' = In /\ Owed' = Owed

\* Most steps leave the hub and the loops of the broadcasts alone.
LEMMA HubUntouched ==
    ASSUME UNCHANGED <<rooms, left>>
    PROVE  HubUnseen
BY DEF HubUnseen, In, Owed, Room

\* A broadcast begins: all who are in the room are owed it, but for the sender.
LEMMA BroadcastBegins ==
    ASSUME TypeOK, HubInv, NEW b \in Clients \cup Saves, NEW d \in Dags,
           b \in Clients => b \in Room(d),
           left[b] = {}, rooms' = rooms,
           left' = [left EXCEPT ![b] = Room(d) \ {b}]
    PROVE  Hub!Post(b, d)
<1>1. In' = In
  BY DEF In, Room
<1>2. \A c \in Clients : <<b, c>> \notin Owed
  BY DEF Owed
<1>3. b \in Clients => <<b, d>> \in In
  BY DEF In
<1>4. \A c : c \in Hub!Audience(d) <=> c \in Room(d)
  <2>1. Room(d) \subseteq Clients
    BY DEF TypeOK, Room
  <2> QED BY <2>1 DEF Hub!Audience
<1>5. \A x : x \in Owed' <=> x \in Owed \/ (x[1] = b /\ x \in (Clients \cup Saves) \X Clients
                                            /\ x[2] \in Room(d) \ {b})
  BY DEF Owed, TypeOK
<1>6. Owed' = Owed \cup {<<b, c>> : c \in Hub!Audience(d) \ {b}}
  <2>1. Room(d) \subseteq Clients
    BY DEF TypeOK, Room
  <2> QED BY <1>4, <1>5, <2>1
<1> QED BY <1>1, <1>2, <1>3, <1>6 DEF Hub!Post, In, Owed

\* A turn of the loop visits one of them.
LEMMA BroadcastGoesOn ==
    ASSUME TypeOK, NEW b \in Clients \cup Saves, NEW m, Offer(b, m)
    PROVE  \E c \in Clients : Hub!Serve(b, c)
<1>1. PICK c \in left[b] : left' = [left EXCEPT ![b] = @ \ {c}] /\ rooms' = rooms
  BY DEF Offer, hub
<1>2. c \in Clients
  BY DEF TypeOK
<1>3. In' = In /\ <<b, c>> \in Owed
  BY <1>1, <1>2 DEF In, Owed, Room
<1>4. Owed' = Owed \ {<<b, c>>}
  BY <1>1, <1>2 DEF Owed, TypeOK
<1> QED BY <1>2, <1>3, <1>4 DEF Hub!Serve, In, Owed

\* Every step of the hub is a step of the abstract one, or one that it does not
\* see: a broadcast counts as made when it gets the read lock.
THEOREM Implements == Spec => ImplementsFanout
<1>1. Init => Hub!Init
  BY DEF Init, Hub!Init, Room
<1>2. TypeOK /\ HubInv /\ [Next]_vars => [Hub!Next]_(Hub!vars)
  <2> SUFFICES ASSUME TypeOK, HubInv, [Next]_vars
               PROVE  Hub!Next \/ HubUnseen
    BY DEF Hub!vars, HubUnseen, In, Owed
  <2>1. ASSUME NEW c \in Clients, Join(c) PROVE Hub!Next
    <3>1. PICK d \in Dags : d = dagId[c] /\ handler[c] = "joining" /\ left' = left
      BY <2>1 DEF Join, TypeOK
    <3>2. /\ Room(d)' = Room(d) \cup {c}
          /\ \A e : e # d => Room(e)' = Room(e)
      BY <2>1, <3>1 DEF Join, Room
    <3>3. \A e \in Dags : c \notin Room(e)
      BY <3>1 DEF HubInv, RoomsMatchHandlers, Joined
    <3>4. In' = In \cup {<<c, d>>}
      BY <3>1, <3>2 DEF In
    <3>5. Owed' = Owed
      BY <3>1 DEF Owed
    <3>6. \A e \in Dags : <<c, e>> \notin In
      BY <3>3 DEF In
    <3>7. Hub!Enter(c, d)
      BY <3>4, <3>5, <3>6 DEF Hub!Enter, In, Owed
    <3> QED BY <3>1, <3>7 DEF Hub!Next
  <2>2. ASSUME NEW c \in Clients, Leave(c) PROVE Hub!Next
    <3>1. PICK d \in Dags : d = dagId[c] /\ handler[c] = "leaving" /\ left' = left
      BY <2>2 DEF Leave, TypeOK
    <3>2. /\ Room(d)' = Room(d) \ {c}
          /\ \A e : e # d => Room(e)' = Room(e)
      BY <2>2, <3>1 DEF Leave, Room
    <3>3. c \in Room(d)
      BY <3>1 DEF HubInv, RoomsMatchHandlers, Joined
    <3>4. \A b \in Clients \cup Saves : left[b] = {}
      BY <2>2 DEF Leave, NoReader, HubInv, LeftInRoom
    <3>5. In' = In \ {<<c, d>>} /\ <<c, d>> \in In
      BY <3>1, <3>2, <3>3 DEF In
    <3>6. Owed' = Owed /\ \A b \in Clients \cup Saves : <<b, c>> \notin Owed
      BY <3>1, <3>4 DEF Owed
    <3>7. Hub!Quit(c, d)
      BY <3>5, <3>6 DEF Hub!Quit, In, Owed
    <3> QED BY <3>1, <3>7 DEF Hub!Next
  <2>3. ASSUME NEW c \in Clients, ReadPresence(c) PROVE Hub!Next
    <3>1. PICK d \in Dags : /\ d = dagId[c] /\ handler[c] = "reading" /\ rooms' = rooms
                            /\ left' = [left EXCEPT ![c] = Room(d) \ {c}]
      BY <2>3 DEF ReadPresence, TypeOK, hub
    <3>2. c \in Room(d) /\ left[c] = {}
      BY <3>1 DEF HubInv, RoomsMatchHandlers, Joined, LeftInRoom
    <3>3. Hub!Post(c, d)
      BY <3>1, <3>2, BroadcastBegins
    <3> QED BY <3>1, <3>3 DEF Hub!Next
  <2>4. ASSUME NEW s \in Saves, Announce(s) PROVE Hub!Next
    <3>1. PICK d \in Dags : /\ save[s].at = "saved" /\ rooms' = rooms
                            /\ left' = [left EXCEPT ![s] = Room(d)]
      BY <2>4 DEF Announce, hub, TypeOK, Request
    <3>2. s \notin Clients /\ left[s] = {}
      BY <3>1 DEF HubInv, LeftInRoom
    <3>3. Room(d) \ {s} = Room(d)
      BY <3>2 DEF TypeOK, Room
    <3>4. left' = [left EXCEPT ![s] = Room(d) \ {s}]
      BY <3>1, <3>3
    <3>5. Hub!Post(s, d)
      BY <3>1, <3>2, <3>4, BroadcastBegins
    <3> QED BY <3>5 DEF Hub!Next
  <2>5. ASSUME NEW c \in Clients, Relay(c) PROVE Hub!Next
    BY <2>5, BroadcastGoesOn DEF Relay, Hub!Next
  <2>6. ASSUME NEW s \in Saves, Tell(s) PROVE Hub!Next
    BY <2>6, BroadcastGoesOn DEF Tell, Hub!Next
  <2>7. ASSUME UNCHANGED <<rooms, left>> PROVE HubUnseen
    BY <2>7, HubUntouched
  <2> QED BY <2>1, <2>2, <2>3, <2>4, <2>5, <2>6, <2>7
          DEF Next, Locker, Handler, WritePump, Saver, Upgrade, ReadFails, RelayEnds,
              Commit, Answer, Receive, Write, Stop, PeerGone, Load, vars, hub
<1> QED BY <1>1, <1>2, TypeCorrect, HubInvariant, PTL DEF Spec, ImplementsFanout, Hub!Spec
=============================================================================
