------------------------------- MODULE Figures --------------------------------
(***************************************************************************)
(* From the host to the page: what the agent collects (Collect) and what   *)
(* the page (web/app.js) makes of it, the figures that only the stream     *)
(* brings.  Agent and page are written apart and share nothing but the     *)
(* names of the rows; the page computes rates from counters that start     *)
(* again, with a clock of its own, from rows that may be missing.          *)
(*                                                                         *)
(* A batch is what one tick sends: rows, processes, containers.  Its       *)
(* messages are handled one after the other.  The gauges of the partitions *)
(* are written by the polls of the page as well, between the messages and  *)
(* after them: they are those of Dashboard, and no place of this module.   *)
(* Nothing but the stream writes the other places, the histories and the   *)
(* tables (fetchAllMetrics asks for disk_usage alone), so that here a      *)
(* batch is one step.  On the way a row, a snapshot or all of a batch may  *)
(* get lost, and a batch may be overtaken by the next (Ingest, Hub).  By   *)
(* the clock of the page a batch may come later than the one before, at    *)
(* the same time, or earlier.                                              *)
(***************************************************************************)
EXTENDS Collect, FiniteSets

CONSTANTS Window,      \* 65 s of history
          MaxTicks,    \* bound of the model: ticks of the agent
          MaxTroubles  \* bound of the model: what goes wrong

ASSUME FiguresAssumption == Window \in Nat /\ MaxTicks \in Nat /\ MaxTroubles \in Nat

VARIABLES
  host,      \* what the host answers, with what is true of it
  agent,     \* "up" or "down"
  ticks,     \* batches collected
  troubles,  \* things that went wrong
  wire,      \* batches on their way, oldest first: the hosts they come from
  clock,     \* Date.now() of the page
  values,    \* state.metrics: the values of the rows, with the batch of each
  text,      \* text[p]: the batches of the values that place p shows
  history,   \* networkHistory: points, by interface and counter
  prev,      \* prevProcesses, by pid
  table,     \* the table of the processes
  boxes,     \* the table of the containers
  last,      \* history: the last batch handled, and whether it came whole
  listings,  \* history: the hosts of the last two process snapshots, newest first
  overtaken  \* history: a batch was overtaken

page == <<values, text, history, prev, table, boxes>>
past == <<last, listings, overtaken>>
vars == <<host, agent, ticks, troubles, wire, clock, page, past>>

Larger(m, n) == IF m < n THEN n ELSE m

-----------------------------------------------------------------------------
(* The host                                                                *)

Counters == {"bytes_recv", "bytes_sent"}
CounterKeys == {<<"network_interface", c, "eth0">> : c \in Counters}

\* A container, whose statistics may fail.
Box(stats) ==
  [stats |-> stats, networks |-> <<1, 1>>, usage |-> 2, cache |-> 1,
   blkio |-> <<[op |-> "Read", value |-> 1], [op |-> "Write", value |-> 2]>>]

\* A host; io is its interface.  truth: what the interface really moved since the
\* start, and how often its counters started again.  Of a process, born tells
\* which of those with its pid it is.
Host(time, fails, swapUsed, truth, io, processes, stats) ==
  [time |-> time, fails |-> fails, vcpus |-> <<"vcpu_0">>, swapUsed |-> swapUsed,
   mounts |-> <<"/", "/data">>, disks |-> <<"sda">>, truth |-> truth,
   interfaces |-> <<io>>, processes |-> processes, containers |-> <<Box(stats)>>]

Quiet ==
  Host(0, {}, Some, [moved |-> [c \in Counters |-> 0], resets |-> 0],
       [name |-> "eth0", sent |-> 0, recv |-> 0],
       [i \in 1 .. 3 |-> [pid |-> i, born |-> 0, named |-> TRUE, io |-> TRUE, read |-> 1]],
       TRUE)

\* What may be wrong at a tick, beside a source that fails.
Oddities == {"none", "drained", "reset", "reused", "unnamed", "noio", "nostats"}
Faults == Sources \cup {"/", "/data", "processes", "docker"}

\* The host after it received d bytes and sent one; each process read d.
After(d, odd, fails) ==
  LET io == host.interfaces[1]
      p  == host.processes
      again(i) == odd = "reused" /\ i = 1
  IN  Host(ticks + 1, fails, IF odd = "drained" THEN 0 ELSE Some,
        [moved  |-> [c \in Counters |-> host.truth.moved[c] + IF c = "bytes_recv" THEN d ELSE 1],
         resets |-> host.truth.resets + IF odd = "reset" THEN 1 ELSE 0],
        [name |-> "eth0",
         sent |-> IF odd = "reset" THEN 0 ELSE io.sent + 1,
         recv |-> IF odd = "reset" THEN d ELSE io.recv + d],
        [i \in 1 .. 3 |->
          [pid   |-> i,
           born  |-> IF again(i) THEN ticks + 1 ELSE p[i].born,
           named |-> ~ (odd = "unnamed" /\ i = 1),
           io    |-> ~ (odd = "noio" /\ i = 1),
           read  |-> IF again(i) THEN d ELSE p[i].read + d]],
        odd # "nostats")

-----------------------------------------------------------------------------
(* The places of the page that only the stream writes: the figures that a  *)
(* place shows are those with its type, its key and one of its names.      *)

Place(type, key, names) == [type |-> type, key |-> key, names |-> names]

Ram  == Place("memory_usage", "", {"memory_used", "memory_total"})
Swap == Place("swap_usage", "", {"swap_used", "swap_total"})
Load == Place("load_average", "", {"load1", "load5", "load15"})

Places ==
  { Place("cpu_usage", "", {"cpu_total"}), Place("vcpu_usage", "", {"vcpu_0"}), Load,
    Place("memory_usage", "", {"memory_used_percent"}), Ram,
    Place("swap_usage", "", {"swap_used_percent"}), Swap,
    Place("network_latency", "", {"latency_ms"}) }

\* disk_usage is left to Dashboard.
Types == {p.type : p \in Places} \cup {"network_interface"}
Keys == UNION {{<<p.type, n, p.key>> : n \in p.names} : p \in Places}

Truth == [moved : [Counters -> Nat], resets : Nat]
Point == [ts : Int, val : Nat, gain : Nat, truth : Truth]

TypeOK ==
  /\ host.time = ticks /\ ticks \in 0 .. MaxTicks
  /\ agent \in {"up", "down"}
  /\ troubles \in 0 .. MaxTroubles
  /\ Len(wire) <= MaxTicks
  /\ clock \in Int
  /\ values \in [Keys -> [time : 0 .. MaxTicks, val : Nat]]
  /\ text \in [Places -> SUBSET (0 .. MaxTicks)]
  /\ history \in [Counters -> Seq(Point)]
  /\ \A i \in DOMAIN table : table[i].gain \in Nat /\ table[i].pid \in DOMAIN prev
  /\ Len(table) <= MaxListed /\ Cardinality(DOMAIN prev) <= MaxListed
  /\ \A i \in DOMAIN boxes : boxes[i].memory \in 0 .. Words - 1
  /\ overtaken \in BOOLEAN

Init ==
  /\ host = Quiet /\ agent = "up" /\ ticks = 0 /\ troubles = 0
  /\ wire = <<>> /\ clock = 0
  /\ values = [k \in Keys |-> [time |-> 0, val |-> 0]]
  /\ text = [p \in Places |-> {}]
  /\ history = [c \in Counters |-> <<>>]
  /\ prev = <<>> /\ table = <<>> /\ boxes = <<>>
  /\ last = [host |-> Quiet, whole |-> FALSE]
  /\ listings = <<Quiet, Quiet>>
  /\ overtaken = FALSE

Trouble(n) == troubles' = troubles + n /\ troubles' <= MaxTroubles

-----------------------------------------------------------------------------
(* The agent                                                               *)

\* case <-ticker.C
Tick(d, odd, fails) ==
  /\ agent = "up" /\ ticks < MaxTicks
  /\ Trouble(Cardinality(fails) + IF odd = "none" THEN 0 ELSE 1)
  /\ host' = After(d, odd, fails)
  /\ ticks' = ticks + 1
  /\ IF Panics(host') THEN agent' = "down" /\ UNCHANGED wire
     ELSE wire' = Append(wire, host') /\ UNCHANGED agent
  /\ UNCHANGED <<clock, page, past>>

\* restart: unless-stopped.  The agent registers again, under the id it had.
AgentRestart ==
  /\ agent = "down"
  /\ agent' = "up"
  /\ UNCHANGED <<host, ticks, troubles, wire, clock, page, past>>

\* A batch is refused, dropped, or has no connection to travel on.
Lose ==
  /\ wire # <<>>
  /\ Trouble(1)
  /\ wire' = Tail(wire)
  /\ UNCHANGED <<host, agent, ticks, clock, page, past>>

-----------------------------------------------------------------------------
(* handleMetricUpdate                                                      *)

KeyOf(m) == <<m.type, m.name, m.key>>

\* values, with row m of batch t.
Stored(v, m, t) ==
  IF KeyOf(m) \in Keys THEN [v EXCEPT ![KeyOf(m)] = [time |-> t, val |-> m.val]] ELSE v

\* Row m makes the page write place p again.  The percentages are written by
\* their own rows, the others by every row of their type; and "used / total"
\* only if neither is zero or missing.
Writes(m, p, v) ==
  /\ m.type = p.type
  /\ m.type = "network_latency" \/ Cardinality(p.names) > 1 \/ m.name \in p.names
  /\ p \in {Ram, Swap} => \A n \in p.names : v[<<p.type, n, p.key>>].val # 0

\* text, after the values became v by row m.
Written(tx, m, v) ==
  [p \in Places |->
     IF Writes(m, p, v) THEN {v[<<p.type, n, p.key>>].time : n \in p.names} ELSE tx[p]]

\* Math.max(0, rate), times the interval.
Gain(val, lastVal) == Larger(0, val - lastVal)

\* Points are shifted out until the first is not older than Window.
Pruned(points, now) ==
  SubSeq(points, Min({i \in DOMAIN points : now - points[i].ts <= Window}), Len(points))

\* Mutant of UpdateInterfaceHistory: a value that comes at the time of the last
\* point takes its place.
UpdateInPlace(points, val, now, truth) ==
  IF points # <<>> /\ Last(points).ts >= now
  THEN [points EXCEPT ![Len(points)].val = val, ![Len(points)].truth = truth]
  ELSE Append(points, [ts |-> now, val |-> val, truth |-> truth,
                       gain |-> IF points = <<>> THEN 0 ELSE Gain(val, Last(points).val)])

\* updateInterfaceHistory: no rate without time.
UpdateInterfaceHistory(points, val, now, truth) ==
  IF points = <<>> THEN <<[ts |-> now, val |-> val, gain |-> 0, truth |-> truth]>>
  ELSE IF now > Last(points).ts
  THEN Pruned(Append(points, [ts |-> now, val |-> val, truth |-> truth,
                              gain |-> Gain(val, Last(points).val)]), now)
  ELSE points

HandleNetworkInterface(h, m, now, truth) ==
  IF m.type = "network_interface" /\ m.name \in Counters
  THEN [h EXCEPT ![m.name] = UpdateInterfaceHistory(@, m.val, now, truth)] ELSE h

HandleMetricUpdate(pg, m, h, now) ==
  LET v == Stored(pg.values, m, h.time)
  IN  [values  |-> v,
       text    |-> Written(pg.text, m, v),
       history |-> HandleNetworkInterface(pg.history, m, now, h.truth)]

\* A row that arrives, and that one of these places has a use for: switch (type).
Used(m, lost) == KeyOf(m) \notin lost /\ m.type \in Types

\* The page after the rows of host h without those in lost, one after the other.
AfterRows(h, lost, now) ==
  LET rows == CollectMetrics(h)
      pg[i \in 0 .. Len(rows)] ==
        IF i = 0 THEN [values |-> values, text |-> text, history |-> history]
        ELSE IF Used(rows[i], lost) THEN HandleMetricUpdate(pg[i - 1], rows[i], h, now)
        ELSE pg[i - 1]
  IN  pg[Len(rows)]

-----------------------------------------------------------------------------
(* handleProcessSnapshot, handleContainerSnapshot                          *)

\* Mutant of Reads: a process that is new to the page starts from zero.
ReadsAll(p, now) ==
  IF p.pid \notin DOMAIN prev THEN p.read
  ELSE IF now > prev[p.pid].ts THEN Gain(p.read, prev[p.pid].read) ELSE 0

\* What a process has read more than at the last snapshot; nothing if it was
\* not in it, or no time has passed.
Reads(p, now) ==
  IF p.pid \in DOMAIN prev /\ now > prev[p.pid].ts THEN Gain(p.read, prev[p.pid].read) ELSE 0

Pids(processes) == {processes[i].pid : i \in DOMAIN processes}

\* Mutant of Kept: prevProcesses is not pruned.
KeptAll(processes) == DOMAIN prev \cup Pids(processes)

\* The pids of prevProcesses, those of the snapshot.
Kept(processes) == Pids(processes)

HandleProcessSnapshot(processes, now) ==
  /\ table' = [i \in DOMAIN processes |->
                 [pid |-> processes[i].pid, gain |-> Reads(processes[i], now)]]
  /\ prev' = [pid \in Kept(processes) |->
                IF pid \in Pids(processes)
                THEN [ts |-> now,
                      read |-> (CHOOSE p \in Range(processes) : p.pid = pid).read]
                ELSE prev[pid]]

\* The snapshots of a batch; one whose list fails is not sent.
Snapshots(h) == {"processes", "docker"} \ h.fails

\* The batch of host h arrives, without the rows in lost, and with some of its
\* snapshots.
Arrive(h, lost, snapshots) ==
  /\ clock' \in clock - 1 .. clock + 1
  /\ LET pg == AfterRows(h, lost, clock')
     IN  values' = pg.values /\ text' = pg.text /\ history' = pg.history
  /\ IF "processes" \in snapshots
     THEN /\ HandleProcessSnapshot(CollectProcesses(h), clock')
          /\ listings' = <<h, listings[1]>>
     ELSE UNCHANGED <<table, prev, listings>>
  /\ boxes' = IF "docker" \in snapshots THEN CollectContainers(h) ELSE boxes
  /\ last' = [host |-> h, whole |-> lost = {}]
  /\ UNCHANGED <<host, agent, ticks>>

\* In order, perhaps with a loss.
ArriveNext(lost, snapshots) ==
  /\ wire # <<>>
  /\ snapshots \subseteq Snapshots(Head(wire))
  /\ Trouble(Cardinality(lost) + Cardinality(Snapshots(Head(wire)) \ snapshots))
  /\ Arrive(Head(wire), lost, snapshots)
  /\ wire' = Tail(wire)
  /\ UNCHANGED overtaken

\* The handler of a post that the agent gave up on is slower than the next one.
Overtake ==
  /\ Len(wire) > 1
  /\ Trouble(1)
  /\ Arrive(wire[2], {}, Snapshots(wire[2]))
  /\ wire' = RemoveAt(wire, 2)
  /\ overtaken' = TRUE

-----------------------------------------------------------------------------
Next ==
  \/ \E d \in 1 .. 2, odd \in Oddities, fails \in {{}} \cup {{f} : f \in Faults} :
       Tick(d, odd, fails)
  \/ AgentRestart
  \/ \E lost \in {{}} \cup {{k} : k \in Keys \cup CounterKeys},
        snapshots \in SUBSET {"processes", "docker"} : ArriveNext(lost, snapshots)
  \/ Lose
  \/ Overtake

Spec == Init /\ [][Next]_vars

-----------------------------------------------------------------------------
\* The source that the figures of a type come from, if the agent outlives the
\* loss of it.
SourceOf ==
  [cpu_usage |-> "cpu", vcpu_usage |-> "vcpus", network_latency |-> "latency"]

Answers(p, h) == p.type \in DOMAIN SourceOf => SourceOf[p.type] \notin h.fails

\* After all rows of a batch, every place that only the stream writes shows the
\* values of that batch and no others, though some sources failed, rows were
\* lost before, or the agent panicked in between.  The names of the agent are
\* the names of the page.  Except for the swap: "used / total" stays as it was
\* when used is zero.  (The gauges of the partitions have no such property: a
\* poll takes them back, PollKeepsNewer of Dashboard.)
Current ==
  last.whole => \A p \in Places :
    Answers(p, last.host) => \/ text[p] = {last.host.time}
                             \/ p = Swap /\ last.host.swapUsed = 0

\* Unless a batch is overtaken, no rate shows bytes that the interface did not
\* move, and if its counters did not start again none is missing: whatever rows
\* are lost, and however the clock of the page stands still or is set back.
RatesAreReal ==
  overtaken \/ \A c \in Counters : \A i \in 2 .. Len(history[c]) :
    LET p == history[c][i - 1].truth
        q == history[c][i].truth
    IN  /\ history[c][i].gain <= q.moved[c] - p.moved[c]
        /\ q.resets = p.resets => history[c][i].gain = q.moved[c] - p.moved[c]

\* What p has read since the snapshot of host h.
ReadSince(p, h) ==
  LET q == h.processes[p.pid] IN IF q.born = p.born THEN p.read - q.read ELSE p.read

\* Unless a batch is overtaken, a process is not shown with more than it has
\* read since the last snapshot: not when it was left out of that one, not when
\* it took over a pid.  Except when its counters could not be read before: the
\* agent sends zeros then, and the page takes all it ever read for a rate.
ReadsAreReal ==
  overtaken \/ \A i \in DOMAIN table :
    LET p == listings[1].processes[table[i].pid] IN
      \/ table[i].gain <= ReadSince(p, listings[2])
      \/ ~ listings[2].processes[table[i].pid].io
=============================================================================
