------------------------------ MODULE Dashboard -------------------------------
(***************************************************************************)
(* The page (web/app.js) that shows one server: it asks for the servers    *)
(* once, then feeds its gauges from two sources at the same time: the live *)
(* stream, on a WebSocket that it opens again when it closes, and polls of *)
(* GetMetrics, one every five seconds whether or not the last was answered.*)
(*                                                                         *)
(* A gauge is one figure of one partition (metric_type disk_usage, the one *)
(* that is polled).  Its values are told apart by the batch they were      *)
(* collected in: a row is <<gauge, time of collection>>, and a gauge shows *)
(* the time of the row it got its value from.  The rows of a batch have    *)
(* one timestamp.  The other side of the connections is here what Ingest   *)
(* and Hub say of it: batches are stored, late ones too, and then their    *)
(* rows go to the stream, or are dropped, or cost a slow page its          *)
(* connection.                                                             *)
(***************************************************************************)
EXTENDS Naturals, Sequences, FiniteSets

CONSTANTS Gauges,
          Limit,      \* LIMIT 100 of GetMetrics
          StreamCap,  \* messages between the hub and the page (Send holds 256)
          Polls,      \* bound of the model: polls under way at the same time
          MaxTime     \* bound of the model: batches

ASSUME LimitAssumption == Limit \in Nat \ {0} /\ StreamCap \in Nat /\ MaxTime \in Nat
ASSUME GaugesAssumption == IsFiniteSet(Gauges)

Times == 1 .. MaxTime
Rows  == Gauges \X Times

VARIABLES
  page,    \* loadInitialData: "loading" "loaded" "over" (no server, or it failed)
  ws,      \* state.ws as the page sees it: "none" "connecting" "open" (isConnected)
  timers,  \* pending setTimeouts of onclose
  link,    \* the other end: "none" "upgraded" "served" (by the hub) "cut"
  stream,  \* rows sent to the page and not yet handled, in order
  poll,    \* poll[i]: a fetchAllMetrics, "idle" "asked" "answered" "short"
  answer,  \* answer[i][g]: the time g shows once the answer is applied, or 0
  shown,   \* shown[g]: the time of the row that g shows, or 0
  metrics, \* rows of the table
  fresh,   \* rows of the table still to be offered to the stream
  behind   \* history: rows out of reach when the page was loaded

pageVars   == <<page, ws, timers, shown, behind>>
pollVars   == <<poll, answer>>
tableVars  == <<metrics, fresh>>
vars       == <<pageVars, link, stream, pollVars, tableVars>>

-----------------------------------------------------------------------------
TypeOK ==
  /\ page \in {"loading", "loaded", "over"}
  /\ ws \in {"none", "connecting", "open"}
  /\ timers \in Nat
  /\ link \in {"none", "upgraded", "served", "cut"}
  /\ stream \in Seq(Rows) /\ Len(stream) <= StreamCap
  /\ poll \in [Polls -> {"idle", "asked", "answered", "short"}]
  /\ answer \in [Polls -> [Gauges -> 0 .. MaxTime]]
  /\ shown \in [Gauges -> 0 .. MaxTime]
  /\ metrics \subseteq Rows
  /\ fresh \subseteq metrics
  /\ behind \subseteq Rows

\* No gauge is touched by a poll.
Nothing == [g \in Gauges |-> 0]

Init ==
  /\ page = "loading"
  /\ ws = "none" /\ timers = 0 /\ link = "none" /\ stream = <<>>
  /\ poll = [i \in Polls |-> "idle"]
  /\ answer = [i \in Polls |-> Nothing]
  /\ shown = Nothing
  /\ metrics = {} /\ fresh = {} /\ behind = {}

-----------------------------------------------------------------------------
(* The backend: IngestMetrics and the hub, as the page sees them.          *)

\* The batch of time t is stored.  A partition that cannot be read is left out
\* of it.
Insert(t, batch) ==
  /\ \A r \in metrics : r[2] # t
  /\ metrics' = metrics \cup (batch \X {t})
  /\ fresh' = fresh \cup (batch \X {t})
  /\ UNCHANGED <<pageVars, link, stream, pollVars>>

\* Mutant of HasRoom: an unbounded channel.
AlwaysRoom == Len(stream) >= 0

HasRoom == Len(stream) < StreamCap

\* A row is offered to the stream: it reaches a page that is served, or costs
\* it its connection; at a full Broadcast it reaches nobody.
Offer(r) ==
  /\ r \in fresh
  /\ fresh' = fresh \ {r}
  /\ \/ UNCHANGED <<link, stream>>
     \/ /\ link = "served"
        /\ IF HasRoom THEN stream' = Append(stream, r) /\ UNCHANGED link
           ELSE link' = "cut" /\ UNCHANGED stream
  /\ UNCHANGED <<pageVars, pollVars, metrics>>

\* The hub registers the page.
Join ==
  /\ link = "upgraded"
  /\ link' = "served"
  /\ UNCHANGED <<pageVars, stream, pollVars, tableVars>>

\* The backend stops, or the network drops the connection.
Cut ==
  /\ link \in {"upgraded", "served"}
  /\ link' = "cut"
  /\ UNCHANGED <<pageVars, stream, pollVars, tableVars>>

-----------------------------------------------------------------------------
(* loadInitialData: once, when the page is opened.                         *)

\* Rows of the table with at least Limit newer ones, the stream done with them.
Behind ==
  {r \in metrics \ fresh : Cardinality({s \in metrics : s[2] > r[2]}) >= Limit}

\* connectWebSocket: new WebSocket.
Connect == ws' = "connecting"

\* The answer lists a server: it is shown from now on, its stream is opened
\* and its gauges are polled.
Load ==
  /\ page = "loading"
  /\ page' = "loaded"
  /\ Connect
  /\ \E i \in Polls : poll' = [poll EXCEPT ![i] = "asked"]
  /\ behind' = Behind
  /\ UNCHANGED <<timers, link, stream, answer, shown, tableVars>>

\* The list is empty, as no agent has registered yet, or the request fails:
\* it is not tried again.
LoadNothing ==
  /\ page = "loading"
  /\ page' = "over"
  /\ UNCHANGED <<ws, timers, link, stream, pollVars, shown, behind, tableVars>>

-----------------------------------------------------------------------------
(* connectWebSocket and its callbacks.                                     *)

\* onopen
Open ==
  /\ ws = "connecting"
  /\ ws' = "open"
  /\ link' = "upgraded"
  /\ UNCHANGED <<page, timers, shown, behind, stream, pollVars, tableVars>>

\* Mutant of AfterClose: a connection that was lost is not opened again.
AfterCloseNothing == timers

\* onclose: setTimeout(() => this.connectWebSocket(), 3000)
AfterClose == timers + 1

\* onclose, of a connection that was not made or that is over.  What was still
\* on its way is lost.
Close ==
  /\ ws = "connecting" \/ (ws = "open" /\ link = "cut")
  /\ ws' = "none"
  /\ timers' = AfterClose
  /\ link' = "none"
  /\ stream' = <<>>
  /\ UNCHANGED <<page, shown, behind, pollVars, tableVars>>

\* Mutant of AfterTimeout: setInterval in place of setTimeout.
AfterTimeoutAgain == timers

AfterTimeout == timers - 1

\* The timer of onclose.
Reconnect ==
  /\ timers > 0
  /\ timers' = AfterTimeout
  /\ Connect
  /\ UNCHANGED <<page, shown, behind, link, stream, pollVars, tableVars>>

\* handleDiskUsage, for each gauge that has a value: what is shown is replaced,
\* and how old either is is not looked at.
HandleDiskUsage(values) ==
  shown' = [g \in Gauges |-> IF values[g] = 0 THEN shown[g] ELSE values[g]]

\* onmessage: handleWebSocketMessage, handleMetricUpdate.
Message ==
  /\ ws = "open"
  /\ stream # <<>>
  /\ stream' = Tail(stream)
  /\ HandleDiskUsage([Nothing EXCEPT ![Head(stream)[1]] = Head(stream)[2]])
  /\ UNCHANGED <<page, ws, timers, behind, link, pollVars, tableVars>>

-----------------------------------------------------------------------------
(* fetchAllMetrics.                                                        *)

\* Mutant of Poll: only loadInitialData polls.
NoPoll(i) == i \notin Polls /\ UNCHANGED vars

\* setInterval: every five seconds, be the last poll answered or not.
Poll(i) ==
  /\ page = "loaded"
  /\ poll[i] = "idle"
  /\ poll' = [poll EXCEPT ![i] = "asked"]
  /\ UNCHANGED <<pageVars, link, stream, answer, tableVars>>

\* Mutant of IsAnswer: ORDER BY timestamp, without DESC.
IsAnswerAscending(R) ==
  /\ R \subseteq metrics
  /\ Cardinality(R) <= Limit
  /\ R = {} => metrics = {}
  /\ \A r \in R, s \in metrics \ R : r[2] <= s[2]

\* ORDER BY timestamp DESC LIMIT 100: rows of one time come in any order, and
\* the end of an answer may be missing.  (One of which all is missing changes
\* nothing, like a poll that fails.)
IsAnswer(R) ==
  /\ R \subseteq metrics
  /\ Cardinality(R) <= Limit
  /\ R = {} => metrics = {}
  /\ \A r \in R, s \in metrics \ R : r[2] >= s[2]

IsWhole(R) == R # metrics => Cardinality(R) = Limit

\* diskMetrics.metrics.forEach applies the newest row first, so that of several
\* rows of a gauge the oldest stays.
LastApplied(R, g) ==
  LET oldest == {t \in Times : <<g, t>> \in R /\ \A r \in R : r[1] = g => t <= r[2]}
  IN  IF oldest = {} THEN 0 ELSE CHOOSE t \in oldest : TRUE

\* GetMetrics reads the table; its answer may come later.  rows.Err() is not
\* looked at: if the rows break off, those read so far are answered with a 200.
GetMetrics(i) ==
  /\ poll[i] = "asked"
  /\ UNCHANGED <<pageVars, link, stream, tableVars>>
  /\ \E R \in SUBSET metrics :
       /\ IsAnswer(R)
       /\ answer' = [answer EXCEPT ![i] = [g \in Gauges |-> LastApplied(R, g)]]
       /\ poll' = [poll EXCEPT ![i] = IF IsWhole(R) THEN "answered" ELSE "short"]

\* The request fails, or its answer is lost.
PollFails(i) ==
  /\ poll[i] # "idle"
  /\ poll' = [poll EXCEPT ![i] = "idle"]
  /\ answer' = [answer EXCEPT ![i] = Nothing]
  /\ UNCHANGED <<pageVars, link, stream, tableVars>>

\* The answer to poll i is there.
Apply(i) ==
  /\ poll[i] \in {"answered", "short"}
  /\ HandleDiskUsage(answer[i])
  /\ poll' = [poll EXCEPT ![i] = "idle"]
  /\ answer' = [answer EXCEPT ![i] = Nothing]
  /\ UNCHANGED <<page, ws, timers, behind, link, stream, tableVars>>

-----------------------------------------------------------------------------
Backend ==
  \/ \E t \in Times, batch \in SUBSET Gauges \ {{}} : Insert(t, batch)
  \/ \E r \in Rows : Offer(r)
  \/ Join
  \/ Cut

Next ==
  \/ Backend
  \/ Load \/ LoadNothing
  \/ Open \/ Close \/ Reconnect \/ Message
  \/ \E i \in Polls : Poll(i) \/ GetMetrics(i) \/ PollFails(i) \/ Apply(i)

Spec == Init /\ [][Next]_vars

(***************************************************************************)
(* The browser runs timers and callbacks: it goes on polling and applies   *)
(* what it gets, whole or not; a closed connection is noticed; a connection*)
(* or a poll that is tried again and again succeeds some time, the poll    *)
(* with a whole answer.                                                    *)
(***************************************************************************)
Fairness ==
  /\ WF_vars(Close) /\ WF_vars(Reconnect) /\ SF_vars(Open) /\ SF_vars(Join)
  /\ WF_vars(\E i \in Polls : Poll(i) \/ Apply(i))
  /\ SF_vars(\E i \in Polls : GetMetrics(i) /\ poll'[i] = "answered")
  /\ SF_vars(\E i \in Polls : Apply(i) /\ poll[i] = "answered")

FairSpec == Spec /\ Fairness

-----------------------------------------------------------------------------
(* Safety                                                                  *)

\* A loaded page has one WebSocket or one timer that will make one, never
\* both: two streams would write the same gauges, and a page with neither
\* would stay dark.
OneSocket ==
  page = "loaded" => timers \in {0, 1} /\ (timers = 0 <=> ws # "none")

\* A row that no poll could reach when the page was loaded is never shown,
\* whatever comes late, fails or is overtaken: polls go back in history, but no
\* further than the first one could.
NoHistory == \A g \in Gauges : <<g, shown[g]>> \notin behind


-----------------------------------------------------------------------------
(* Liveness, under FairSpec                                                *)

\* A loaded page is served by the hub again some time, however often it loses
\* its connection, at any stage of it.
Resumes == page = "loaded" ~> ws = "open" /\ link = "served"

\* g is in the newest batch, and a poll can carry that batch.
InNewest(g) ==
  \E t \in Times :
    /\ <<g, t>> \in metrics
    /\ \A r \in metrics : r[2] <= t
    /\ Cardinality({r \in metrics : r[2] = t}) <= Limit

\* A loaded page has, again and again, a value for every gauge of the newest
\* batch at once, even if the stream dropped all of it.
Populates == page = "loaded" ~> \A g \in Gauges : InNewest(g) => shown[g] # 0
===============================================================================
