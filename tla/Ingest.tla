-------------------------------- MODULE Ingest --------------------------------
(***************************************************************************)
(* How what an agent observes reaches the database and the live stream:    *)
(* the main loop of the agent (agent/main.go), the registration and        *)
(* ingestion handlers of the backend (internal/api/handlers.go) and the    *)
(* rows they write (internal/db/postgres.go).                              *)
(*                                                                         *)
(* An agent runs one request at a time with a client timeout; a handler    *)
(* whose client has given up goes on running and may overtake, or be       *)
(* overtaken by, the next one.  Every database call may fail.  Backend and *)
(* agent may stop at any step, a signal's graceful shutdown included, and  *)
(* are restarted by docker; the database keeps what was committed.         *)
(*                                                                         *)
(* A post is one batch of metrics or one snapshot.  The posts of an agent  *)
(* are numbered in the order in which they were collected, which is the    *)
(* order of their timestamps.  The messages a batch of metrics is streamed *)
(* as are taken together.                                                  *)
(***************************************************************************)
EXTENDS Naturals, Sequences, FiniteSets

CONSTANTS Agents,         \* one per hostname
          VolumeColumns,  \* columns of the servers table found on the database
                          \* volume, {} if the volume has no such table
          MaxPosts        \* bound of the model: posts an agent makes

ASSUME AgentsAssumption == IsFiniteSet(Agents)

ASSUME MaxPostsAssumption == MaxPosts \in Nat

VARIABLES
  backend,   \* "up" or "down"
  servers,   \* servers[a]: id of the row with a's hostname, 0 if there is none
  seen,      \* posts that have refreshed servers.last_seen
  stored,    \* committed posts (metrics and snapshot rows), in commit order
  streamed,  \* posts put on WSHub.Broadcast, in that order
  serverID,  \* serverID[a]: Agent.ServerID, 0 before registration
  step,      \* step[a]: what the agent's main is at
  reg,       \* reg[a]: the registration the agent waits for
  answer,    \* answer[a]: the id in the answer to it, 0 while there is none
  late,      \* late[a]: a registration that a gave up on still runs
  posts,     \* posts[a]: number of posts a has made
  waiting,   \* waiting[a]: the post whose answer a waits for, 0 if none
  kind,      \* kind[p]: what the post carries
  target,    \* target[p]: the server id the post carries
  stage,     \* stage[p]: where the handler of the post is
  acked,     \* posts whose success the agent has seen
  forsaken   \* posts whose answer the agent did not wait for

databaseVars == <<servers, seen, stored>>
regVars      == <<reg, answer, late>>
loopVars     == <<posts, waiting, acked, forsaken>>
agentVars    == <<serverID, step, regVars, loopVars>>
postVars     == <<kind, target, stage>>
vars         == <<backend, databaseVars, streamed, agentVars, postVars>>

-----------------------------------------------------------------------------
Kinds == {"metrics", "processes", "containers"}

Posts == Agents \X (1 .. MaxPosts)

RangeOf(s) == {s[i] : i \in DOMAIN s}

\* The one type invariant; a hostname never takes a second row.
TypeOK ==
  /\ backend \in {"up", "down"}
  /\ servers \in [Agents -> 0 .. Cardinality(Agents)]
  /\ seen \subseteq Posts
  /\ stored \in Seq(Posts)
  /\ streamed \in Seq(Posts)
  /\ serverID \in [Agents -> Nat]
  /\ step \in [Agents -> {"register", "rest"} \cup Kinds]
  /\ reg \in [Agents -> {"none", "upsert", "created", "error", "lost"}]
  /\ answer \in [Agents -> Nat]
  /\ late \in [Agents -> BOOLEAN]
  /\ posts \in [Agents -> 0 .. MaxPosts]
  /\ waiting \in [Agents -> 0 .. MaxPosts]
  /\ kind \in [Posts -> Kinds]
  /\ target \in [Posts -> Nat]
  /\ stage \in [Posts -> {"unsent", "touch", "insert", "broadcast", "ok", "error", "over"}]
  /\ acked \subseteq Posts
  /\ forsaken \subseteq Posts

Init ==
  /\ backend = "down"
  /\ servers = [a \in Agents |-> 0]
  /\ seen = {}
  /\ stored = <<>>
  /\ streamed = <<>>
  /\ serverID = [a \in Agents |-> 0]
  /\ step = [a \in Agents |-> "register"]
  /\ reg = [a \in Agents |-> "none"]
  /\ answer = [a \in Agents |-> 0]
  /\ late = [a \in Agents |-> FALSE]
  /\ posts = [a \in Agents |-> 0]
  /\ waiting = [a \in Agents |-> 0]
  /\ kind = [p \in Posts |-> "metrics"]
  /\ target = [p \in Posts |-> 0]
  /\ stage = [p \in Posts |-> "unsent"]
  /\ acked = {}
  /\ forsaken = {}

-----------------------------------------------------------------------------
(* The servers table.                                                      *)

\* Columns of the CREATE TABLE IF NOT EXISTS and of the two ALTER TABLEs in
\* Database.Init.
CreatedColumns == {"id", "hostname", "ip_address", "os", "cpu_model", "total_ram",
                   "labels", "agent_version", "last_seen", "created_at", "updated_at"}
AddedColumns == {"cpu_model", "total_ram"}

\* The table after Database.Init.
Columns == IF VolumeColumns = {} THEN CreatedColumns ELSE VolumeColumns \cup AddedColumns

\* The columns that RegisterServer writes and returns.
RegisterColumns == {"id", "hostname", "ip_address", "os", "cpu_model", "total_ram",
                    "kernel_version", "uptime", "labels", "agent_version",
                    "last_seen", "created_at", "updated_at"}

\* gen_random_uuid: an id no server has.
NewID == Cardinality({a \in Agents : servers[a] # 0}) + 1

\* Mutant of UpsertedID: the row of a known hostname is replaced.
ReplacedID(a) == IF servers[a] = 0 THEN NewID ELSE servers[a] + NewID

\* INSERT ... ON CONFLICT (hostname) DO UPDATE ... RETURNING id.
UpsertedID(a) == IF servers[a] = 0 THEN NewID ELSE servers[a]

\* The statement can be executed at all.
CanUpsert == RegisterColumns \subseteq Columns

\* Mutant of Upsert: no ON CONFLICT clause.
InsertOnly(a) ==
  CanUpsert /\ servers[a] = 0 /\ servers' = [servers EXCEPT ![a] = UpsertedID(a)]

Upsert(a) == CanUpsert /\ servers' = [servers EXCEPT ![a] = UpsertedID(a)]

-----------------------------------------------------------------------------
(* Registration: Agent.Register and the loop around it, RegisterServer.    *)

\* The registration request reaches the backend.  With the backend down the
\* request fails at once, the agent sleeps and tries again: nothing changes.
Register(a) ==
  /\ step[a] = "register"
  /\ reg[a] = "none"
  /\ backend = "up"
  /\ reg' = [reg EXCEPT ![a] = "upsert"]
  /\ UNCHANGED <<backend, databaseVars, streamed, serverID, step, answer, late, loopVars, postVars>>

RegisterUpsert(a) ==
  /\ reg[a] = "upsert"
  /\ Upsert(a)
  /\ reg' = [reg EXCEPT ![a] = "created"]
  /\ answer' = [answer EXCEPT ![a] = UpsertedID(a)]
  /\ UNCHANGED <<backend, seen, stored, streamed, serverID, step, late, loopVars, postVars>>

\* The statement fails, on a table without its columns every time; or it is
\* committed and its result does not arrive.
RegisterError(a) ==
  /\ reg[a] = "upsert"
  /\ Upsert(a) \/ UNCHANGED servers
  /\ reg' = [reg EXCEPT ![a] = "error"]
  /\ UNCHANGED <<backend, seen, stored, streamed, serverID, step, answer, late, loopVars, postVars>>

\* The agent no longer waits for a registration.
Unregistering(a) ==
  /\ reg' = [reg EXCEPT ![a] = "none"]
  /\ answer' = [answer EXCEPT ![a] = 0]

\* 201: the agent takes its ServerID from the body and enters its main loop.
Registered(a) ==
  /\ reg[a] = "created"
  /\ Unregistering(a)
  /\ serverID' = [serverID EXCEPT ![a] = answer[a]]
  /\ step' = [step EXCEPT ![a] = "rest"]
  /\ UNCHANGED <<backend, databaseVars, streamed, late, loopVars, postVars>>

\* 500, or the connection is gone: retry in 5 s.
RegisterFailed(a) ==
  /\ reg[a] \in {"error", "lost"}
  /\ Unregistering(a)
  /\ UNCHANGED <<backend, databaseVars, streamed, serverID, step, late, loopVars, postVars>>

\* The client gives up after 10 s; its handler may go on.
RegisterTimeout(a) ==
  /\ reg[a] # "none"
  /\ Unregistering(a)
  /\ late' = [late EXCEPT ![a] = @ \/ reg[a] = "upsert"]
  /\ UNCHANGED <<backend, databaseVars, streamed, serverID, step, loopVars, postVars>>

\* A handler whose client has given up ends, with or without its upsert.
\* There may be several.
LateRegister(a) ==
  /\ late[a]
  /\ \E more \in BOOLEAN : late' = [late EXCEPT ![a] = more]
  /\ Upsert(a) \/ UNCHANGED servers
  /\ UNCHANGED <<backend, seen, stored, streamed, serverID, step, reg, answer, loopVars, postVars>>

-----------------------------------------------------------------------------
(* The agent's main loop.                                                  *)

\* case <-ticker.C
Tick(a) ==
  /\ step[a] = "rest"
  /\ posts[a] < MaxPosts
  /\ step' = [step EXCEPT ![a] = "metrics"]
  /\ UNCHANGED <<backend, databaseVars, streamed, serverID, regVars, posts,
                 waiting, acked, forsaken, postVars>>

\* What main turns to after a step, whether the step succeeded or not.
After == [metrics |-> "processes", processes |-> "containers", containers |-> "rest"]

\* Mutant of Number: a post that was given up on is sent again.
NumberAgain(a) == IF <<a, posts[a]>> \in forsaken THEN posts[a] ELSE posts[a] + 1

\* Every post carries what has just been collected; nothing is sent twice.
Number(a) == posts[a] + 1

\* Mutant of Free: metrics are posted without waiting for the last answer.
AlwaysFree(a) == waiting[a] = 0 \/ step[a] = "metrics"

\* main is not inside a send.
Free(a) == waiting[a] = 0

\* Collecting fails or is not possible (no docker client), or the request does
\* not reach the backend: the error is logged.
Skip(a) ==
  /\ step[a] \in Kinds
  /\ Free(a)
  /\ step' = [step EXCEPT ![a] = After[step[a]]]
  /\ UNCHANGED <<backend, databaseVars, streamed, serverID, regVars, posts,
                 waiting, acked, forsaken, postVars>>

\* Only IngestMetrics refreshes last_seen.
FirstStage(k) == IF k = "metrics" THEN "touch" ELSE "insert"

\* SendMetrics, SendProcesses, SendContainers: the request reaches its
\* handler.
Post(a) ==
  LET p == <<a, Number(a)>> IN
  /\ step[a] \in Kinds
  /\ Free(a)
  /\ p \in Posts
  /\ backend = "up"
  /\ posts' = [posts EXCEPT ![a] = Number(a)]
  /\ waiting' = [waiting EXCEPT ![a] = Number(a)]
  /\ kind' = [kind EXCEPT ![p] = step[a]]
  /\ target' = [target EXCEPT ![p] = serverID[a]]
  /\ stage' = [stage EXCEPT ![p] = FirstStage(step[a])]
  /\ UNCHANGED <<backend, databaseVars, streamed, serverID, step, regVars,
                 acked, forsaken>>

\* The main loop goes on to its next step; nothing is ever sent again.
MoveOn(a) ==
  /\ waiting' = [waiting EXCEPT ![a] = 0]
  /\ step' = [step EXCEPT ![a] = After[step[a]]]

\* The answer is 200 or 201.
Acknowledged(a) ==
  LET p == <<a, waiting[a]>> IN
  /\ waiting[a] # 0
  /\ stage[p] = "ok"
  /\ stage' = [stage EXCEPT ![p] = "over"]
  /\ acked' = acked \cup {p}
  /\ MoveOn(a)
  /\ UNCHANGED <<backend, databaseVars, streamed, serverID, regVars, posts,
                 forsaken, kind, target>>

\* The answer is 500, or the connection is gone.
PostFailed(a) ==
  LET p == <<a, waiting[a]>> IN
  /\ waiting[a] # 0
  /\ stage[p] \in {"error", "over"}
  /\ stage' = [stage EXCEPT ![p] = "over"]
  /\ MoveOn(a)
  /\ UNCHANGED <<backend, databaseVars, streamed, serverID, regVars, posts,
                 acked, forsaken, kind, target>>

\* Nobody waits for the answer to p any longer; its handler may go on.
Forsake(p) ==
  /\ forsaken' = forsaken \cup ({p} \cap Posts)
  /\ stage' = [stage EXCEPT ![p] = IF @ \in {"ok", "error"} THEN "over" ELSE @]

\* Mutant of PostTimeout: an http.Client without a Timeout.
NoTimeout(a) == waiting[a] > MaxPosts /\ UNCHANGED vars

\* The client gives up after 10 s.
PostTimeout(a) ==
  /\ waiting[a] # 0
  /\ Forsake(<<a, waiting[a]>>)
  /\ MoveOn(a)
  /\ UNCHANGED <<backend, databaseVars, streamed, serverID, regVars, posts,
                 acked, kind, target>>

\* The agent stops and is started again, with the same hostname.
AgentRestart(a) ==
  /\ step' = [step EXCEPT ![a] = "register"]
  /\ serverID' = [serverID EXCEPT ![a] = 0]
  /\ Unregistering(a)
  /\ late' = [late EXCEPT ![a] = @ \/ reg[a] = "upsert"]
  /\ waiting' = [waiting EXCEPT ![a] = 0]
  /\ Forsake(<<a, waiting[a]>>)
  /\ UNCHANGED <<backend, databaseVars, streamed, posts, acked, kind, target>>

-----------------------------------------------------------------------------
(* IngestMetrics, IngestProcessSnapshot, IngestContainerSnapshot.          *)

GoTo(p, s) == stage' = [stage EXCEPT ![p] = s]

\* The handler ends with an answer, which nobody reads if p is forsaken.
Answer(p, s) == GoTo(p, IF p \in forsaken THEN "over" ELSE s)

\* UPDATE servers SET last_seen: committed on its own, before the rows.  No
\* row to update is no error.
Touch(p) ==
  /\ stage[p] = "touch"
  /\ GoTo(p, "insert")
  /\ seen' = seen \cup {p}
  /\ UNCHANGED <<backend, servers, stored, streamed, agentVars, kind, target>>

\* A database call fails: no connection, no partition, the request's context
\* is cancelled because its client has gone.  It may have been committed.
TouchError(p) ==
  /\ stage[p] = "touch"
  /\ Answer(p, "error")
  /\ seen' = seen \cup {p} \/ UNCHANGED seen
  /\ UNCHANGED <<backend, servers, stored, streamed, agentVars, kind, target>>

\* BulkInsertMetrics, CreateProcessSnapshot, CreateContainerSnapshot: all rows
\* of the post in one statement.  server_id REFERENCES servers(id).
Commit(p) ==
  /\ \E a \in Agents : servers[a] # 0 /\ servers[a] = target[p]
  /\ stored' = Append(stored, p)

Insert(p) ==
  /\ stage[p] = "insert"
  /\ Commit(p)
  /\ GoTo(p, "broadcast")
  /\ UNCHANGED <<backend, servers, seen, streamed, agentVars, kind, target>>

\* Mutant of AfterInsertError: the handler does not return on the error.
AfterInsertErrorGoOn == "broadcast"

AfterInsertError == "error"

InsertError(p) ==
  /\ stage[p] = "insert"
  /\ Commit(p) \/ UNCHANGED stored
  /\ Answer(p, AfterInsertError)
  /\ UNCHANGED <<backend, servers, seen, streamed, agentVars, kind, target>>

\* The non-blocking send to the hub, which drops the message when Broadcast
\* is full.
Broadcast(p) ==
  /\ stage[p] = "broadcast"
  /\ Answer(p, "ok")
  /\ streamed' = Append(streamed, p) \/ UNCHANGED streamed
  /\ UNCHANGED <<backend, databaseVars, agentVars, kind, target>>

-----------------------------------------------------------------------------
(* The backend process.                                                    *)

\* Every handler is cut off where it is; what is committed stays.
BackendStops ==
  /\ backend = "up"
  /\ backend' = "down"
  /\ stage' = [p \in Posts |-> IF stage[p] = "unsent" THEN "unsent" ELSE "over"]
  /\ reg' = [a \in Agents |-> IF reg[a] = "none" THEN "none" ELSE "lost"]
  /\ answer' = [a \in Agents |-> 0]
  /\ late' = [a \in Agents |-> FALSE]
  /\ UNCHANGED <<databaseVars, streamed, serverID, step, posts, waiting, acked,
                 forsaken, kind, target>>

\* docker starts it again and Database.Init finds the tables it needs.
BackendStarts ==
  /\ backend = "down"
  /\ backend' = "up"
  /\ UNCHANGED <<databaseVars, streamed, agentVars, postVars>>

-----------------------------------------------------------------------------
Registration(a) ==
  \/ Register(a) \/ RegisterUpsert(a) \/ RegisterError(a) \/ Registered(a)
  \/ RegisterFailed(a) \/ RegisterTimeout(a) \/ LateRegister(a)

Loop(a) ==
  \/ Tick(a) \/ Skip(a) \/ Post(a)
  \/ Acknowledged(a) \/ PostFailed(a) \/ PostTimeout(a)

Handler(p) ==
  \/ Touch(p) \/ TouchError(p) \/ Insert(p) \/ InsertError(p)
  \/ Broadcast(p)

Next ==
  \/ \E a \in Agents : Registration(a)
  \/ \E a \in Agents : Loop(a)
  \/ \E a \in Agents : AgentRestart(a)
  \/ \E p \in Posts : Handler(p)
  \/ BackendStops
  \/ BackendStarts

Spec == Init /\ [][Next]_vars

(***************************************************************************)
(* docker restarts the backend, and what is tried again and again (a       *)
(* connection, a statement that can succeed, an answer in time) succeeds   *)
(* some time.  In the main loop only the agent's own clock is relied on:   *)
(* handlers and database may hang for ever.                                *)
(***************************************************************************)
Fairness ==
  /\ WF_vars(BackendStarts)
  /\ \A a \in Agents :
       /\ SF_vars(Register(a)) /\ SF_vars(RegisterUpsert(a)) /\ SF_vars(Registered(a))
       /\ WF_vars(RegisterUpsert(a) \/ RegisterError(a)) /\ WF_vars(RegisterFailed(a))
       /\ WF_vars(PostTimeout(a))

FairSpec == Spec /\ Fairness

-----------------------------------------------------------------------------
(* Safety                                                                  *)

\* A hostname keeps its server id for ever, across lost answers, late
\* upserts and restarts of either side, and shares it with no other: what an
\* agent posts is filed under the row that it registered.
Identity ==
  /\ \A a \in Agents : serverID[a] \in {0, servers[a]}
  /\ \A p \in Posts : stage[p] # "unsent" => target[p] = servers[p[1]] /\ target[p] # 0
  /\ \A a, b \in Agents : servers[a] = servers[b] => a = b \/ servers[a] = 0

\* No post is stored, or streamed, twice, whatever times out or restarts.
AtMostOnce ==
  /\ \A i, j \in DOMAIN stored : stored[i] = stored[j] => i = j
  /\ \A i, j \in DOMAIN streamed : streamed[i] = streamed[j] => i = j

\* The agent is told of success only if the rows are in the database, and
\* they survive every later failure.
AckedIsStored == acked \subseteq RangeOf(stored)

\* What a dashboard is shown live, a dashboard that loads afterwards finds:
\* the rows are there, and the server's last_seen is not older than them.
StreamedIsStored ==
  \A p \in RangeOf(streamed) :
    /\ p \in RangeOf(stored)
    /\ kind[p] = "metrics" => p \in seen

\* The posts of an agent are stored, and streamed, in the order in which they
\* were collected, except that one the agent gave up on may come late.
OvertakenWasForsaken ==
  \A s \in {stored, streamed} : \A i, j \in DOMAIN s :
    i < j /\ s[i][1] = s[j][1] /\ s[j][2] < s[i][2] => s[j] \in forsaken

\* Numbers of the container snapshots of a that are stored.
ContainerPosts(a) ==
  {n \in 1 .. MaxPosts : <<a, n>> \in RangeOf(stored) /\ kind[<<a, n>>] = "containers"}

\* Mutant of IsLatest: ORDER BY id, the order of insertion.
IsLastInserted(a, n) ==
  \E i \in DOMAIN stored :
    /\ stored[i] = <<a, n>>
    /\ \A j \in DOMAIN stored :
         j > i => stored[j][1] # a \/ stored[j][2] \notin ContainerPosts(a)

\* ORDER BY timestamp DESC LIMIT 1 in GetLatestContainerSnapshot.
IsLatest(a, n) == \A m \in ContainerPosts(a) : m <= n

\* GET /containers answers with no snapshot older than one that was
\* acknowledged, even when a forsaken one is inserted late.
NewestServed ==
  \A a \in Agents, n, m \in 1 .. MaxPosts :
    /\ n \in ContainerPosts(a) /\ IsLatest(a, n)
    /\ <<a, m>> \in acked /\ kind[<<a, m>>] = "containers"
    => m <= n

-----------------------------------------------------------------------------
(* Liveness, under FairSpec                                                *)

\* An agent that (re)starts enters its main loop.
Registers == \A a \in Agents : step[a] = "register" ~> step[a] = "rest"

\* An agent never waits for ever for the backend, though nothing bounds the
\* time a handler or the database takes.
MovesOn == \A a \in Agents : waiting[a] # 0 ~> waiting[a] = 0
=============================================================================
