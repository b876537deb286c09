# d3d-api: verification

TLA+ models of the d3d-api server (Go, PostgreSQL), model-checked with TLC and, for the safety
properties, proved with TLAPS. Paths below are relative to the repository; `dag.go` is
`src/app/controllers/dag.go`, `postgres.go` is `src/app/db/postgres/postgres.go`, `hub.go` is
`src/app/collab/hub.go`.

## 1. The system

d3d-api stores diagrams ("dags") and serves them over HTTP and WebSocket. One process holds an echo
server, a pool of PostgreSQL connections and one in-memory hub; it may run on a server or as
instances on Vercel. Every request is a goroutine. No statement of one request shares a transaction
with another one: what a handler does in several statements, others see half done.

| Component | State it keeps | Operations | Talks to |
|---|---|---|---|
| Diagrams and history (`dag.go`, `services/dags.go`, `postgres.go`) | tables `dags`, `dag_history` | create, update, delete, restore; background append and prune | hub (after a save), embeds (same row) |
| Live collaboration hub (`collab/hub.go`, `dagWS`) | `Hub.rooms`, one channel of 64 and one socket per client | join, leave, broadcast, write pump, presence relay | saves and restores call Broadcast |
| Public embeds (`setPublic`, `getDAGPublic`) | columns `public`, `embed_revision` | publish, unpublish, read with ETag | every save bumps the revision |
| Share links (`shares.go`, middleware, `dag.go`) | tables `shares`, `share_denylist`; signed tokens outside | create, exchange, revoke, check in middleware | the denylist guards exchanges and sockets, the role guards `updateDAG` |
| Element shares (`element_shares.go`) | table `element_shares`; tokens outside | create, exchange, get, import, revoke, inbox, catalog | cluster extraction, membership |
| Companies and groups (`companies.go`, `groups.go`) | tables of companies, groups, members | create, add, remove, delete, owner guards | audience of element shares |
| LDAP and local login, OAuth | one directory connection; table `users` | authenticate, synchronise groups | groups |
| Cluster extraction (`cluster/cluster.go`) | none, pure | Compute, ValidateRootIds | element shares |
| Copy tool (`cmd/migrate-rb2pg`) | none of its own; reads the old database, writes this one | copy every table | tables |
| Nodes, edges, menus (`node.go`, `edge.go`, `menu.go`) | tables `nodes`, `edges`, `menus` | create unless an equal row is there; update and delete menus | filled by the copy tool |
| Configuration; wiring; scripts | none | start-up | - |

What is hard here:

* **Concurrency between statements.** A save is an UPDATE, then a goroutine with an INSERT, then
  another goroutine with a DELETE; two saves of one diagram interleave all of these, and a delete of
  the diagram or a restore may come anywhere between.
* **Concurrency between goroutines.** A client of the hub is two goroutines, a channel and a socket,
  each of which can end first; a broadcast walks a room under a read lock while others do the same.
* **Failure.** Statements fail, and the background goroutines have nobody to tell. The process stops
  with handlers and goroutines half-way; nothing is repeated at start. Sockets die silently.
* **Order.** `saved_at` is read by the goroutine, not by the database, so snapshots may sort
  otherwise than they were inserted. Announcements are signals to load again; they may overtake the
  load they ask for.
* **Limits.** 50 snapshots per diagram, 64 messages per client; both are enforced after the fact or
  by dropping.

What makes each component correct:

* Diagrams and history: snapshots belong to a diagram that exists and never leak into another; the
  history comes back to its limit whatever ran at once; pruning only takes what newer snapshots
  replaced; a saved document can be restored.
* Hub: no send on a closed channel; rooms hold exactly the clients being served; presence stays in
  its room; the end of a connection releases everything; no peer can hold up a save; a client is not
  left with old content without a reason.
* Embeds: equal ETags mean equal content.
* Share links: a request for an exchange or a socket that comes after a revocation was answered gets
  nothing; a token that has run out is refused; a link goes with its diagram; `updateDAG` keeps the role.
* Element shares: what comes after a revocation was answered gets nothing; an import uses a share that was
  not revoked when it was read; only those a share was made for get to see it, by whatever way they ask.
  (A share that has run out is closed to its token, the inbox and the catalog only, see section 4.)
* Organisation: only owners change what they own; group members belong to the company; a company has
  an owner.
* Cluster: the extracted subgraph is closed, complete and independent of the order of iteration.
* Diagrams, nodes, edges, menus as rows: posting the same thing twice makes one row.
* Copy tool: a run that reports success copied every row it had to; what it could not read it warned of;
  a repeated run changes nothing that is there and adds nothing once a run was complete.

## 2. Plan

1. `DagHistory` (done): rows and snapshots, with `DagHistoryProofs`.
2. `CollabHub` (done): rooms, pumps, saves that announce, with `CollabHubProofs`; and `Fanout` (done), the
   abstract specification of a hub with rooms, which `CollabHub` is shown to implement.
3. `Rows` (done): creation of rows that look for an equal one first, and the revision as ETag, with
   `RowsProofs`.
4. `Cluster` (done): the walk of `Compute` over all small graphs, with `ClusterProofs`.
5. `Organisation` (done): companies, groups, members and the groups a login brings along, with
   `OrganisationProofs`.
6. `ElementShares` (done): shares of a part of a diagram, with `ElementSharesProofs`.
7. `ShareLinks` (done): tokens in the hands of clients, the denylist and the handlers that read it once
   per request, with `ShareLinksProofs`. Two abstract specifications of a grant that can be taken back:
   `Grants` (done), which `ElementShares` is shown to implement, and the weaker `Admission` (done), which is
   what `ShareLinks` keeps.
8. `Migrate` (done): a copy that fails, dies and is repeated beside two servers in use, with
   `MigrateProofs`.
9. Not done: `ShareLinks` composed with the sockets of `CollabHub`, and a `Directory` with the one
   connection of `ldap.go` (section 6 says why).

The order is that of what the program is for: diagrams first, those who look at them next, who may
look after that. Every module takes its sets and bounds as CONSTANTS with named assumptions, has one
action per step of the code, and no RECURSIVE operator, so that it can be proved about as it is.

## 3. The modules

### DagHistory

| State | Code |
|---|---|
| `diagram` | column `diagram` of each row of `dags`, or no row |
| `history` | rows of `dag_history`: diagram, position in `ORDER BY saved_at, id`, document |
| `req` | an `updateDAG` handler between UpdateDAG and its answer, a `restoreDAGHistory` handler between its two statements |
| `job` | the goroutines of AppendHistory and pruneHistory |
| `used` | positions given out, because an id is a fresh UUID |
| `owed`, `skipped` | history variables: documents whose snapshot is due, diagrams whose last prune was lost |

Each SQL statement is one step, for PostgreSQL runs it so. The DELETE of pruneHistory is two:
`PruneSelect` fixes the victims (the statement's snapshot under READ COMMITTED) and `PruneDelete`
removes them, with anything of other goroutines in between. A restore is a read and a write. A failed
statement and the stop of the process are actions (`AppendFails`, `PruneFails`, `Crash`); after a
crash the server runs on with the tables as they are. Documents are tagged with the diagram they were
written for (`of`), so that a leak between diagrams shows. A request may leave the diagram out
(`Unset`), or send white space (`Blank`), which `jsonbValue` stores as NULL.

Left out: name, description and times of a row (their merging is like that of `diagram`), `savedBy`,
the malformed id that ends a request early, and FindRelatedDAG, which decides whether a Create takes
place: here any creation may (`Rows` has the decision). A failed UPDATE or INSERT of a handler changes nothing and is the
action not taken. The INSERT of AppendHistory that commits although its answer is lost is not
modelled.

### CollabHub

| State | Code |
|---|---|
| `rooms`, `dagId` | `Hub.rooms`, `Client.DagId` |
| `send`, `open` | `Client.Send`, with capacity `Cap`; closed or not |
| `handler` | `dagWS`: start, joining (upgraded, before Join), reading, relaying (in Broadcast), leaving, done |
| `pump`, `hand` | `WritePump`: receiving, writing a message, exited |
| `conn` | the socket: open, broken (peer or network gone), closed by the server |
| `save` | `updateDAG` or `restoreDAGHistory`: committed, announcing, answered |
| `left` | the clients a running Broadcast has yet to visit, in any order |
| `due`, `stale`, `early`, `skipped` | what the client at the other end has loaded (external) |

Join and Leave run under the write lock and are one step each, guarded by `NoReader`. Broadcast is
its start (which takes the read lock), a step per client and its end, and any number of them run at
once. `go client.WritePump()` is part of Join: the goroutine that was started and one that did not
run yet look the same. Commit may hit no row, as in `DagHistory`. Of the client only this is assumed:
it loads the diagram after the socket opens and after an announcement without its own clientId, and
waits for the answer to a save before it sends the next one.

Left out: the body of messages, messages that are not presence (ignored by the code), the check of the
share token before the upgrade (in `ShareLinks`), the ids of users, and other instances of the server,
whose hubs know nothing of each other.

### Fanout

The abstract specification of the hub: a post is owed, at one moment, to all who are in the room but the
poster, and to nobody else; each of them is served once; nobody leaves while a post is owed to them. In
`CollabHub` those present are the clients in `rooms`, the posters are saves and clients that relay, and what
is owed is `left`, what the loop of Broadcast has still to visit. The code has no such moment: it has a lock,
which Join and Leave wait for, and a loop. Serving is the attempt to send: whether a full channel drops it is
the subject of `StaleOnlyIfSkipped`.

### Rows

| State | Code |
|---|---|
| `row` | the rows of `dags`, `nodes`, `edges` and `menus`: what the client sent, `embed_revision`, `public` |
| `req` | a POST handler between FindRelated... and the INSERT: what it will insert, and whether its look-up failed (`blind`: the code inserts then as well) |
| `served` | every response of `getDAGPublic` ever sent, which is what caches may still have |
| `lives`, `since` | history variables: how often an id was created, the equal rows a look-up came too early for |

`Look` and `Insert` are the two statements of ProcessDAG, ProcessNode, ProcessEdge and ProcessMenu; the
other handlers are one statement each. `Alike` is what the WHERE clauses compare: everything but the id
and the times, a NULL document equal to a NULL document, and for menus everything but the name. An id
belongs to one table. Nodes and edges have no route that changes or deletes them. Left out: the lists, and
rows the copy tool brought in with a NULL where a server never writes one.

### Cluster

| State | Code |
|---|---|
| `parent`, `edges`, `roots`, `depth` | the arguments of `Compute`, chosen in Init; `depth` -1 is a request without one |
| `place` | where Compute is: adding roots, walking, adding containers, done |
| `included` | the map of that name |
| `frontier`, `next`, `hop` | `frontier`, `nextFrontier`, `hop` |
| `pending` | neighbours of the node being visited that are still to look at |
| `down`, `up` | where `addDescendants` and `addAncestors` have got to |
| `core` | history variable: what was included before the containers |

`Compute` is sequential, but the first frontier comes from a map, whose order of iteration Go leaves
open, and the result depends on it: so it is a state machine with the order chosen freely, and the
slices (`edges`, the frontiers) kept in order. A neighbour that `addDescendants` included earlier is
passed over (`cluster.go:119`), which is why the walk is not plain reachability. Left out: the labels of
nodes and edges, and the edges of the result, which are those between included nodes.

### Organisation

| State | Code |
|---|---|
| `company`, `member`, `group`, `gmember` | tables `companies`, `memberships`, `user_groups`, `group_members` |
| `req` | what each handler has read so far: the caller is owner, the caller is a member, the group and its company, the user to be added, the groups a login has still to synchronise |
| `known` | companies whose creation was answered, so that others can name them |
| `removed` | history variable: members an owner has taken out |

One action per SQL statement of `companies.go`, `groups.go` and `syncGroups`, with the foreign keys and
`ON DELETE CASCADE` of migration 003 in the statements they act on, and the unique index in `Upsert`.
`RequireOwner` keeps whether the answer was a refusal, for the handler goes on either way. A handler
that stops early (a check fails, a statement fails, the process ends) is `End`. Left out: names,
listings and other reads, and how the directory is asked.

### ElementShares

| State | Code |
|---|---|
| `share` | table `element_shares`: audience and catalog flag, creator, source, revoked, imported_by |
| `expired` | the rows whose `expires_at` has passed |
| `denied` | the part of `share_denylist` that concerns them |
| `dags`, `belongs` | table `dags`; `memberships` and `group_members` together (external here) |
| `req` | what each handler has read so far, or its answer |
| `ended`, `once` | history variables: revocations answered, memberships ever held |

One action per statement of the handlers of `element_shares.go`; `getElementShare` and
`importElementShare` begin with the same two. `late` in a request says that the revocation of its
share had been answered before it came. An unknown kind of audience is stored as it comes and admits
nobody (`"other"`). Left out: the extracted part itself (module `Cluster`), roles, titles, tags, the
limit of the catalog, and signatures of tokens.

As a grant, a share is given when its row is there, closed when the row is revoked, and held by a request
that has read the row and found it good. The denylist is no part of that: the exchange asks it first, but
it is the row that decides.

### ShareLinks

| State | Code |
|---|---|
| `share`, `denied`, `dags` | tables `shares`, `share_denylist`, and which rows of `dags` there are |
| `token` | the signed tokens that were handed out, with their claims; they are stored nowhere in the server |
| `expired` | links whose `exp` has passed |
| `req` | what each handler is about: a link made but not answered, a revocation not answered, a token presented (`exchanging`, `upgrading`, `updating`, `restoring`), let in by the denylist (`naming`, `opening`), answered (`exchanged`), in a room (`joined`), past the role check (`saving`), done writing (`restored`) |
| `made`, `lost`, `editors`, `ended` | history variables: jtis used, links whose diagram was deleted, links asked for with role "edit", revocations answered |

One action per SQL statement and per check of a token. `Create` is the INSERT with what was signed before
it, which nobody else sees; `HandOut` is its answer. `Present` is the JWT middleware in front of the handlers
of `dag.go`, or the check in `exchangeShare`. What follows depends on the handler:

* `exchangeShare` reads the denylist (`Admit`), then the row (`Name`), and answers.
* `dagWS` reads the denylist (`Admit`), then upgrades the connection and joins the room (`Open`). A
  revocation may come between the two, and even be answered before the socket opens.
* `updateDAG` asks the token for its role (`CheckRole`) and saves; it does not ask the denylist.
* `restoreDAGHistory` writes the diagram (`Restore`) and asks for neither.

`createShare`, `revokeShare`, `createDAG` and `deleteDAG` ask a token for nothing either, so `Create`,
`Revoke`, `CreateDag` and `DeleteDag` are actions of anybody, somebody with a share token included; and no
handler compares the diagram of the token with that of its path, so no action does. `editors` are therefore
the links that anybody asked to be for editing. `late` in a request says that the revocation of its link had
been answered before it came. Left out: signatures and claims other than diagram, role and time, the anonymous
names, requests of users who log in (they pass all these checks), publication (`Rows`), and what the diagram
holds (`DagHistory`).

### Grants

The abstract specification of a grant that is looked at in the row itself: it is given, perhaps closed, and
whoever comes to hold something from it does so at a moment when it was given and not closed. Closing it
takes nothing from those who hold it. `ElementShares` implements it.

### Admission

What the share links keep is weaker, for the denylist is read some time before the answer or the socket.
`Admission` is stated in what those outside can see: links given, the owner told that a link is closed,
requests that come, and what they get. Whoever gets something had asked before the link was closed; a request
under way by then may still go through, at any later time. It knows no denylist: in `ShareLinks`, `given` is
the tokens handed out, `closed` the revocations that were *answered* (`ended`, not `denied`), `asking` the
requests for an exchange or a socket that came before that, `holding` the exchanges answered and the sockets
in a room. That the denylist, written before the answer and read once per request, is enough for this is what
the refinement shows. A row that goes with its diagram does not close the link.

### Migrate

| State | Code |
|---|---|
| `src`, `dst` | the tables of RethinkDB and of PostgreSQL, by id: no row, or how its document and time are converted |
| `pc`, `at` | not running, in the loop of `main`, in the loop of `copyTable`, exited; index of the table |
| `listed`, `dagIDs`, `batch` | `tableList`, `parentIDs`, the rows read with the values they had |
| `failed`, `warned` | `totalFailed > 0`, that is the exit status; rows a warning is logged for |
| `blind`, `touched`, `gone`, `settled` | history variables: `listTables` or `idSet` failed; rows written in the source or deleted in the target since the run began; nothing changed since a complete run |

A run reads the list of tables and the ids of the diagrams once, then each table as a whole, then inserts
row by row, outside any transaction. `Crash` may come between any two steps, and `Begin` again after it or
after the end; the old server (`SourceWrite`) and the new one (`TargetUpdate`, `TargetDelete`, with the
cascade) go on meanwhile. `blank` is a document that is absent, blank or no string, which becomes NULL
without a warning; `badJSON` and `badTime` become NULL with one, or the row is refused where the column is
NOT NULL. Left out: `vals == nil`, which no `extract` returns; UNIQUE columns other than the key (a
refusal of the statement, which `InsertFails` allows for any row); the INSERT that commits though its
answer is lost.

## 4. The runs

| Run | Instance | Checks |
|---|---|---|
| `dag_history` | 2 diagrams, 1 version, 1 handler, 2 goroutines, 2 positions, limit 1 | `TypeOK`, `HistoryBounded`, `HistoryOwned`, `SavedIsRestorable`, `PruneKeepsNewest`, `OverflowIsPruned` |
| `hub` | 2 diagrams, 2 clients, 1 save, capacity 1, 2 presence messages each | `SendsAreSafe`, `RoomsMatchHandlers`, `PresenceStaysInRoom`, `StaleOnlyIfSkipped`, `ImplementsFanout` |
| `hub_live` | 1 diagram, 1 client, 3 saves, capacity 1, 1 presence message | `ConnectionsEnd`, `SavesAreAnswered` |
| `rows` | 2 diagrams, 2 menus, 2 POST handlers, 1 save of each diagram | `SameTagSameContent`, `NoNeedlessCopy` |
| `migrate` | 1 diagram, 1 snapshot of it, 1 user, 2 writes to the databases, any number of runs | `SuccessIsComplete`, `LossIsWarned`, `NeverOverwrites`, `RerunAddsNothing` |
| `cluster` | 4 nodes, 2 edges, roots {a} or {a, b}, depth 0 to 2 or none | `TypeOK`, `ContainersKept`, `DescendantsKept`, `OnlyContainersAdded`, `WithinDepth`, `TopLevelReached` |
| `organisation` | 2 companies, 2 groups, 2 users, 1 group of the directory, 2 handlers | `NoOrphans`, `OwnerIsMember`, `MembersOrRemoved`, `OneGroupPerRef` |
| `element_shares` | 1 share, 1 diagram, 2 users, 1 company, 1 group, 4 audiences, 2 handlers | `SourceExists`, `ImportsCounted`, `RevokedStaysClosed`, `AudienceOnly`, `InboxAgrees`, `ImplementsGrants` |
| `share_links` | 2 links, 1 diagram, 2 handlers | `RevokedOpensNothing`, `NoOrphanLinks`, `TokensRecorded`, `ViewersDoNotUpdate`, `ImplementsAdmission` |
| `history_restore` | 2 diagrams, 1 handler | violates `OwnDocuments` |
| `cluster_component` | 4 nodes, 3 edges, no depth | violates `WholeComponent` |
| `organisation_refused` | 1 company, 1 group, 2 users, 2 handlers | violates `RefusedChangesNothing` |

Type invariants are proved for all constants (section 5), so only `DagHistory`'s, which a blank document
could break, and `Cluster`'s are among the properties of the runs.

Why the bounds are enough to meet the cases. With the limit at 1 and two positions, two goroutines
overflow the history, insert while the other one's DELETE is under way, and insert out of order; with two
diagrams the shared table is contended. With a channel
of one, two presence messages and one save, a channel is full when the announcement comes, and is
drained before or after. Four nodes make a chain two hops long beside a container, and every nesting
three deep. Two handlers are enough for each check of the tables to be overtaken by the statement that
undoes it, two groups for one to outlive the other, one group of the directory for two logins to meet.
A share of each kind of audience lets both the Go and the SQL decision meet every branch; one pair of
a user and a company or group comes and goes (`MaxJoined`), and the user may be the creator or not. Two links let
one be revoked or lost while the other is used; one diagram is enough for a link to lose it and for it to come
back under its id, and two handlers for a revocation to come, and be answered, between the denylist and the
socket of the other one. Two rows in
a table and two POST handlers let both look before either inserts, and a save make a row equal in between.
In the copy a parent, its child and a row of another table meet every branch of `copyTable`, and two writes
put one before and one during a run; that menus ignore the name takes a second name, which `rows` does not
have room for and the proof covers.

`Keys`, `MaxPresence`, `MaxRev`, `MaxLives`, `MaxDepth`, `MaxEdges`, `MaxJoined` and the finite `Saves`
bound what the program does without end; at these bounds the models stop, which is why the
configurations say `CHECK_DEADLOCK FALSE` (`share_links` has no such bound and is checked for deadlock). A goroutine that waits for ever shows in `hub_live` instead.

`history_restore`, `cluster_component` and `organisation_refused` show where the program
differs from what its comments or tests say:

* RestoreHistory looks a snapshot up by its id alone, so one diagram's document can be restored into
  another; a test says that snapshots must not leak.
* A share without a depth is said to hold the whole connected component. A node that was included as
  part of another one is never visited as a neighbour, so what lies behind it can be left out.
  `TopLevelReached` says what does hold: what is reached over nodes outside any container is there.
* A request on a group that was answered 403 goes on, because the helper returns what `ctx.JSON`
  returns; its comment says that it returns an error.

Two more differences are stated as exceptions in properties that pass. The announcement of a save is
dropped for a client whose channel is full (README says it reaches all peers): `StaleOnlyIfSkipped`
says that this, and a load before Join, are the only ways to miss it. The embed revision starts over
when a diagram is created again under its id (the comment on UpdateDAG says caches can rely on it):
`SameTagSameContent` says that this is the only way.

The role of a share link is enforced in fewer places than the documents say. "Share tokens with view role
cannot write" (`dag.go:96`), "same auth as updateDAG" (`dag.go:195`, at the restore) and "The `role` claim is
enforced server-side" (`src/README.md:143`) are true of `updateDAG`. `restoreDAGHistory` writes the diagram
under a link for viewing, and `deleteDAG`, `setPublic`, `createShare` and `createDAG` do not ask for the role;
nor is the diagram of the token compared with that of the path. The model has all of this, as section 3 says.
`ViewersDoNotUpdate` states the one sentence the code keeps (`src/README.md:145`: "view - `POST
/dag/:dag/update` returns 403"); it must not be read as saying that viewers write nothing. Nor does a
revocation end updates or restores: `src/README.md:148` promises a check on WS upgrade and token exchange, and
`RevokedOpensNothing` and `ImplementsAdmission` are about these two.

An element share that has run out is refused by the exchange of its token and hidden in the inbox and the
catalog, but `getElementShare` and `importElementShare` look at `revoked` only: by its id it is opened and
imported as before. `AudienceOnly`, `InboxAgrees` and `RevokedStaysClosed` say nothing about time.

The copy tool differs from `docs/cutover-runbook.md` and from its own comments in three places. Lines 61-62:
"Only a non-zero `failed` count means the run did not succeed"; a run that could not list the tables or read
the ids of the diagrams exits with 0 as well, which `SuccessIsComplete` takes out by `blind`. Line 61 counts
"invalid data" among the errors and `main.go:316` speaks of "rejecting invalid JSON"; a document or a time
that cannot be read is stored as NULL with a warning, the row counts as inserted and the status stays 0, unless
the column is NOT NULL. `LossIsWarned` says that the warning is always there. Line 115: "The Postgres copy can
be re-run at any time to refresh data"; a row that is present is never refreshed, as `NeverOverwrites` says,
and one deleted in the target comes back.

### Fairness

`DagHistory!FairSpec`: a pruning goroutine that has started goes on, and its statements return (weak
fairness for each; failing is one way to go on). Nothing is assumed of the appends or the handlers.

`CollabHub!FairSpec`: goroutines are scheduled (weak fairness of each handler, pump and save). Join
and Leave get strong fairness, because the guard `NoReader` comes and goes with other broadcasts and
sync.RWMutex promises a waiting writer its turn: it keeps new readers out. The peer is under no
obligation to send anything or to stay. That the read of a dead connection ends and a write to it fails is
TCP's (keep-alive, retransmission limit), and that a write to a live one succeeds is the peer's, which is
assumed to read; the code sets no deadline of its own. A peer that stays and never reads again is thus outside
what `ConnectionsEnd` says: its pump could wait for ever.

## 5. The proofs

TLAPS checks these for every value of the constants, under the assumptions named in the modules:
`Limit \in Nat \ {0}`, positions are naturals, the special values are no documents; `Cap \in Nat \
{0}`, finitely many clients, clients are not saves; finitely many nodes; the marks for rows that are
absent or gone are no rows, and callers without a name are no users.

* `DagHistoryProofs`. `HistoryInv` is the invariant. `HistoryBounded` and `PruneKeepsNewest` are not
  inductive: what a DELETE removes was chosen in an earlier state. The invariant says that the history is
  finite and positions are unique and given out once (`KeysGivenOut`); that the victims of a running
  DELETE which are still in the table lie outside the newest `Limit` of their diagram (`VictimsOld`),
  which later inserts only confirm; and that without the victims of running DELETEs at most `Limit` rows
  remain, unless a prune is still to select or was lost (`RestBounded`). From it follow `TypeCorrect`,
  `OwnedSnapshots`, `Bounded`, `KeepsNewest`, `Restorable`.
* `CollabHubProofs`. `HubInv` joins `RoomsMatchHandlers` with two facts: a channel is open until its
  handler is done, and whom a broadcast has still to visit is in the room of the broadcast. The second
  one survives Leave only because Leave waits for readers; `NoSendOnClosed` follows. `ClientInvariant`
  adds what is known of a client that shows old content; `NoSilentStaleness` follows from it.
  `TypeCorrect` and `PresenceInRoom` are inductive with the types. `Implements` is the refinement of `Fanout`:
  the start of a broadcast is a post, each turn of its loop serves one member, Join and Leave are
  an entry and an exit. That nobody leaves who is still owed something comes from `NoReader`; that a relaying
  client is in the room it posts to and that its earlier post has been served come from `HubInv`.
* `RowsProofs`. `RowsInv` compares every response sent with the row as it is now (`Behind`: within one life
  the revision never goes back, and a response with the present revision has the present content), and what
  every handler has looked at with the tables (`Looked`: the rows it would find now are those in `since`).
  `TagsAreReliable` and `CopiesAreRaces` follow from it, for all tables and names.
* `MigrateProofs`. `MigrateInv` says of each row that a run without failure has to bring: its table is still
  ahead, or it is in the batch, or it has been brought over and warned of (`Progress`). That an orphan is not
  among them needs to know that the run saw every diagram that was there when it began (`SeesAll`), and that
  what it read still holds where nothing was written (`ReadsHold`). After a complete run nothing is left to
  bring (`Settled`). From it follow `ExitZeroIsComplete`, `LostValuesAreWarned` and `RerunIsIdempotent`.
* `ClusterProofs`. `ClusterInv` says how far descent and climb have come: only nodes in `down` may have
  children outside, only those in `up` a container outside. `KeepsContainers` and `KeepsDescendants`
  follow at the end of the walk. `WithinDepth` and `TopLevelReached` compare the walk with what can be reached
  in so many hops, the recursive functions `Reach` and `ReachTop`, and need more: `WalkInv` says that the
  nodes in the frontier are within the hops done and the neighbours sought one hop farther (`NearEnough`),
  and that a node in line is in one of the queues until all its neighbours are included or sought, none of
  the next hop's among those the hops so far had to reach (`FarEnough`). `StaysWithinDepth` and
  `ReachesTopLevel` follow. A whole component takes no more hops than there are nodes (`ReachSaturates`, from
  `Saturation`: a set that grows as long as it changes stops within as many steps as it can have elements).
  `AddsOnlyContainers` rests on the climb putting in only nodes with a node of `core` inside.
  `FlatIsExact` joins both bounds: where no node lies in another, the result is exactly what is within the
  depth, whatever the order of the map; with containers it is not (`cluster_component`).
  `ComputeEnds` says that Compute comes to its end on every diagram: with each step a list of six numbers,
  what it has still before it, gets smaller (phases to come, nodes outside, hops left, nodes in line,
  neighbours to look at, descent or climb under way; the first difference decides), and no sequence of such
  lists gets smaller for ever (`NoEndlessDescent`). It does
  not use that parents form a forest: the check that a node is not included yet ends a descent or climb in
  a cycle.
* `OrganisationProofs`. `OrgInv` adds to the properties what handlers remember (`Remembered`): a row they
  have seen is still what it was or is gone, for ids are not used twice; and that nobody knows a company
  before its creator is a member (`NotYetKnown`). That is what makes an insert after an old check
  harmless once the foreign key has agreed.
* `ElementSharesProofs`. `ShareInv` says what is true of each share (`Sound`) and what each handler knows
  of the share it works on (`Knows`). Most steps only read (`ReadingStep`); of the others the lemma
  `KnowledgeStays` shows that they keep what the other handlers know: a row stays, keeps its audience,
  once revoked stays so. `InboxAgrees` needs no invariant: the two decisions agree for all values.
  `Implements` is the refinement of `Grants`: a step that changes `given`, `closed` or `holding` is one of
  its steps, the others stutter; that a step which makes a request a holder finds the row there and not
  revoked comes from the guards, that the row was given from the invariant.
* `ShareLinksProofs`. `LinkInv` is inductive: what is true of each link (`Sound`: its diagram is there, its
  token and its row agree or its diagram was deleted, an answered revocation is on the denylist, the role
  "edit" was asked for) and what each handler knows (`Knows`: the link of a late request is on the
  denylist, what was let in is not late, the claims of a link made but not answered are those in its row).
  `RevokedOpensNothing` is not inductive by itself: that a late request finds its link on the denylist rests
  on both. `Implements` is the refinement of `Admission`. The read of the denylist is seen by nobody; `Name`
  and `Open` are where something is got, and that the request had asked in time comes from `LinkInv`, not from
  a guard: neither action looks at the denylist any more. `OneIsSeen` says that a step of one handler changes
  its own pairs only. `OnlyEditorsUpdate` is about `updateDAG` alone.

The induction theorems of the library take an operator as a parameter, which the provers cannot instantiate.
Where a proof needs induction over the naturals, `ClusterProofs` has it for a set of numbers instead
(`SetInduction`: a set with 0 and with n + 1 for each of its n holds all naturals, since the least number
missing would follow one that is there). That a recursive function has the values its definition gives it
is proved there as well: such a function exists (`Iterates`), and so the definition speaks of it
(`ReachSteps`, `ReachTopSteps`).

Every invariant and action property of the passing runs and every refinement is a theorem. Only
model-checked are the liveness properties (`OverflowIsPruned`, `ConnectionsEnd`, `SavesAreAnswered`), since
the prover has no rule for fairness, and that the three properties above are violated.

## 6. Not modelled

* The directory connection of `ldap.go`, which all logins share: a bind of one login can be replaced by that
  of another before its search runs. What the search then answers is decided by the access rules of the
  directory, which the repository does not hold; a model would have to invent them. The groups that follow
  from whatever it answered are in `Organisation`.
* Share links composed with open sockets: a socket that was let in before a revocation stays in the room, as
  `Admission` allows on the side of the link. Beside the instances of `hub` the product is too large
  for TLC.
* Several instances of the server, whose hubs know nothing of each other: no code handles it.
* Local login and OAuth compare a password or call an outside service and keep no state. Configuration,
  wiring, CORS and the prune script of images have no behaviour over time that a model could add to.
* The number of days of a share link is not bounded by the code or a document: `ShareLinks!Create` may make
  a link that has run out, and no property says it may not.
* A save of white space puts a NULL snapshot in the history, whose restore then fails: `DagHistory!RestoreRead`
  has this in its guard, and nothing says what such a restore should do.
* A save, restore or publish of a row that is gone answers 200, although the comment on ErrNotFound
  (`postgres.go:26`) and the 404 branch of `updateDAG` expect an error: `DagHistory!Update` models it, and
  `HistoryOwned` says that nothing of such a save stays.
