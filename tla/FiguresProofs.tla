---------------------------- MODULE FiguresProofs -----------------------------
(***************************************************************************)
(* Proofs about Figures: for any number of ticks and troubles and any      *)
(* window, the figures of the page are those of the host.                  *)
(***************************************************************************)
EXTENDS Figures, CollectProofs, FiniteSetTheorems

-----------------------------------------------------------------------------
(* Hosts, and how they follow each other.                                  *)

Process == [pid : Nat, born : Nat, named : BOOLEAN, io : BOOLEAN, read : Nat]

IO == [name : {"eth0"}, sent : Nat, recv : Nat]

\* The hosts that a batch may come from.
Hosts ==
  {h \in [time : Nat, fails : SUBSET Faults, vcpus : {<<"vcpu_0">>}, swapUsed : {0, Some},
          mounts : {<<"/", "/data">>}, disks : {<<"sda">>}, truth : Truth,
          interfaces : Seq(IO), processes : [1 .. 3 -> Process], containers : {<<Box(b)>> : b \in BOOLEAN}] :
     /\ Len(h.interfaces) = 1
     /\ \A i \in 1 .. 3 : h.processes[i].pid = i /\ h.processes[i].born <= h.time}

\* A counter of the interface.
Counter(h, c) == IF c = "bytes_sent" THEN h.interfaces[1].sent ELSE h.interfaces[1].recv

\* The value v of a counter was read when t was true, and h comes later: what
\* the counter misses of the bytes moved is more if it started again in between,
\* and the same if it did not.
Told(v, t, c, h) ==
  /\ t.moved[c] <= h.truth.moved[c]
  /\ t.resets <= h.truth.resets
  /\ t.moved[c] - v <= h.truth.moved[c] - Counter(h, c)
  /\ t.resets = h.truth.resets => t.moved[c] - v = h.truth.moved[c] - Counter(h, c)

\* Process q is p, later, or a later one with its pid.
Succeeds(p, q) == p.born <= q.born /\ (p.born = q.born => p.read <= q.read)

Before(g, h) ==
  /\ \A c \in Counters : Told(Counter(g, c), g.truth, c, h)
  /\ \A i \in 1 .. 3 : Succeeds(g.processes[i], h.processes[i])

\* The hosts whose batches may still arrive, and the host that the next ones
\* come from.
Future == Range(wire) \cup {host}

WireInv ==
  /\ host \in Hosts /\ host.time = ticks
  /\ wire \in Seq(Hosts) /\ Len(wire) <= ticks
  /\ \A h \in Range(wire) : h.time <= ticks
  /\ overtaken \/ \A i \in DOMAIN wire :
       Before(wire[i], host) /\ \A j \in i + 1 .. Len(wire) : Before(wire[i], wire[j])

PastInv ==
  /\ last.host \in Hosts
  /\ listings \in [1 .. 2 -> Hosts]
  /\ overtaken \/ \A h \in Future : Before(listings[1], h)

PointsInv ==
  overtaken \/ \A c \in Counters : history[c] # <<>> =>
    \A h \in Future : Told(Last(history[c]).val, Last(history[c]).truth, c, h)

\* What the agent sends of a process.
ReadOf(p) == IF p.io THEN p.read ELSE 0

PrevInv ==
  /\ DOMAIN prev \subseteq 1 .. 3
  /\ \A pid \in DOMAIN prev : prev[pid].read = ReadOf(listings[1].processes[pid])

IInv ==
  TypeOK /\ WireInv /\ PastInv /\ PointsInv /\ PrevInv
  /\ Current /\ RatesAreReal /\ ReadsAreReal

-----------------------------------------------------------------------------
(* Facts about hosts.                                                      *)

LEMMA Limits ==
  Window \in Nat /\ MaxTicks \in Nat /\ MaxTroubles \in Nat /\ MaxListed \in Nat /\ Words \in Nat \ {0}
BY FiguresAssumption, CollectAssumption

LEMMA HostTyped ==
  ASSUME NEW t \in Nat, NEW f \in SUBSET Faults, NEW u \in {0, Some}, NEW truth \in Truth,
         NEW io \in IO, NEW p \in [1 .. 3 -> Process], NEW b \in BOOLEAN,
         \A i \in 1 .. 3 : p[i].pid = i /\ p[i].born <= t
  PROVE  Host(t, f, u, truth, io, p, b) \in Hosts
<1>1. <<io>> \in Seq(IO) /\ Len(<<io>>) = 1
  OBVIOUS
<1>2. <<Box(b)>> \in {<<Box(x)>> : x \in BOOLEAN}
  OBVIOUS
<1> QED
  BY <1>1, <1>2 DEF Host, Hosts

LEMMA QuietIsHost ==
  Quiet \in Hosts /\ Quiet.time = 0
<1>1. Quiet.time = 0
  BY DEF Quiet, Host
<1> DEFINE truth == [moved |-> [c \in Counters |-> 0], resets |-> 0]
           io == [name |-> "eth0", sent |-> 0, recv |-> 0]
           p == [i \in 1 .. 3 |-> [pid |-> i, born |-> 0, named |-> TRUE, io |-> TRUE, read |-> 1]]
<1>2. truth \in Truth /\ io \in IO /\ Some \in {0, Some} /\ {} \in SUBSET Faults
  BY DEF Truth, IO
<1>3. p \in [1 .. 3 -> Process] /\ \A i \in 1 .. 3 : p[i].pid = i /\ p[i].born <= 0
  BY DEF Process
<1>4. Quiet = Host(0, {}, Some, truth, io, p, TRUE)
  BY DEF Quiet
<1> HIDE DEF truth, io, p
<1>5. Host(0, {}, Some, truth, io, p, TRUE) \in Hosts
  BY <1>2, <1>3, HostTyped
<1> QED
  BY <1>1, <1>4, <1>5

LEMMA HostFields ==
  ASSUME NEW h \in Hosts
  PROVE  /\ h.time \in Nat /\ h.fails \subseteq Faults /\ h.swapUsed \in {0, Some}
         /\ h.vcpus = <<"vcpu_0">> /\ h.mounts = <<"/", "/data">> /\ h.disks = <<"sda">>
         /\ h.truth \in Truth
         /\ h.truth.resets \in Nat /\ \A c \in Counters : h.truth.moved[c] \in Nat
         /\ h.interfaces \in Seq(IO) /\ Len(h.interfaces) = 1 /\ h.interfaces[1].name = "eth0"
         /\ h.interfaces[1].sent \in Nat /\ h.interfaces[1].recv \in Nat
         /\ h.processes \in [1 .. 3 -> Process]
         /\ \A i \in 1 .. 3 : h.processes[i].pid = i /\ h.processes[i].born <= h.time
         /\ \E b \in BOOLEAN : h.containers = <<Box(b)>>
<1>1. /\ h.time \in Nat /\ h.fails \subseteq Faults /\ h.swapUsed \in {0, Some}
      /\ h.vcpus = <<"vcpu_0">> /\ h.mounts = <<"/", "/data">> /\ h.disks = <<"sda">>
      /\ h.truth \in Truth /\ h.interfaces \in Seq(IO) /\ Len(h.interfaces) = 1
      /\ h.processes \in [1 .. 3 -> Process] /\ \E b \in BOOLEAN : h.containers = <<Box(b)>>
      /\ \A i \in 1 .. 3 : h.processes[i].pid = i /\ h.processes[i].born <= h.time
  BY DEF Hosts
<1>2. h.truth.resets \in Nat /\ \A c \in Counters : h.truth.moved[c] \in Nat
  BY <1>1 DEF Truth
<1>3. h.interfaces[1] \in IO
  BY <1>1
<1>4. h.interfaces[1].name = "eth0" /\ h.interfaces[1].sent \in Nat /\ h.interfaces[1].recv \in Nat
  BY <1>3 DEF IO
<1> QED
  BY <1>1, <1>2, <1>4

LEMMA BeforeTransitive ==
  ASSUME NEW f \in Hosts, NEW g \in Hosts, NEW h \in Hosts, Before(f, g), Before(g, h)
  PROVE  Before(f, h)
<1>1. ASSUME NEW c \in Counters PROVE Told(Counter(f, c), f.truth, c, h)
  <2>1. Told(Counter(f, c), f.truth, c, g) /\ Told(Counter(g, c), g.truth, c, h)
    BY DEF Before
  <2>2. /\ f.truth.moved[c] \in Nat /\ g.truth.moved[c] \in Nat /\ h.truth.moved[c] \in Nat
        /\ f.truth.resets \in Nat /\ g.truth.resets \in Nat /\ h.truth.resets \in Nat
        /\ Counter(f, c) \in Nat /\ Counter(g, c) \in Nat /\ Counter(h, c) \in Nat
    BY HostFields DEF Counter
  <2> QED
    BY <2>1, <2>2 DEF Told
<1>2. ASSUME NEW i \in 1 .. 3 PROVE Succeeds(f.processes[i], h.processes[i])
  <2>1. Succeeds(f.processes[i], g.processes[i]) /\ Succeeds(g.processes[i], h.processes[i])
    BY DEF Before
  <2>2. /\ f.processes[i] \in Process /\ g.processes[i] \in Process /\ h.processes[i] \in Process
    BY HostFields
  <2> QED
    BY <2>1, <2>2 DEF Succeeds, Process
<1> QED
  BY <1>1, <1>2 DEF Before

LEMMA AfterIsHost ==
  ASSUME NEW d \in 1 .. 2, NEW odd \in Oddities, NEW fails \in SUBSET Faults,
         host \in Hosts, host.time = ticks, ticks \in Nat
  PROVE  /\ After(d, odd, fails) \in Hosts
         /\ After(d, odd, fails).time = ticks + 1
         /\ Before(host, After(d, odd, fails))
<1> DEFINE h == After(d, odd, fails)
           io == host.interfaces[1]
           p == host.processes
           again(i) == odd = "reused" /\ i = 1
           u == IF odd = "drained" THEN 0 ELSE Some
           moved == [c \in Counters |-> host.truth.moved[c] + IF c = "bytes_recv" THEN d ELSE 1]
           truth == [moved |-> moved,
                     resets |-> host.truth.resets + IF odd = "reset" THEN 1 ELSE 0]
           jo == [name |-> "eth0",
                  sent |-> IF odd = "reset" THEN 0 ELSE io.sent + 1,
                  recv |-> IF odd = "reset" THEN d ELSE io.recv + d]
           q == [i \in 1 .. 3 |->
                  [pid   |-> i,
                   born  |-> IF again(i) THEN ticks + 1 ELSE p[i].born,
                   named |-> ~ (odd = "unnamed" /\ i = 1),
                   io    |-> ~ (odd = "noio" /\ i = 1),
                   read  |-> IF again(i) THEN d ELSE p[i].read + d]]
<1>1. /\ host.truth.resets \in Nat
      /\ \A c \in Counters : host.truth.moved[c] \in Nat
      /\ io.sent \in Nat /\ io.recv \in Nat
      /\ p \in [1 .. 3 -> Process] /\ \A i \in 1 .. 3 : p[i].pid = i /\ p[i].born <= ticks
  BY HostFields
<1>2. h = Host(ticks + 1, fails, u, truth, jo, q, odd # "nostats")
  BY DEF After
<1>3. /\ h.time = ticks + 1 /\ h.truth = truth /\ h.processes = q /\ h.interfaces[1] = jo
  BY <1>2 DEF Host
<1>4. /\ truth \in Truth /\ jo \in IO /\ u \in {0, Some} /\ (odd # "nostats") \in BOOLEAN
  BY <1>1 DEF Truth, IO
<1>5. ASSUME NEW i \in 1 .. 3
      PROVE  q[i] \in Process /\ q[i].pid = i /\ q[i].born <= ticks + 1 /\ Succeeds(p[i], q[i])
  BY <1>1 DEF Process, Succeeds
<1>6. q \in [1 .. 3 -> Process]
  BY <1>5
<1>7. ASSUME NEW c \in Counters PROVE Told(Counter(host, c), host.truth, c, h)
  <2>1. CASE c = "bytes_sent"
    BY <1>1, <1>3, <2>1 DEF Told, Counter
  <2>2. CASE c = "bytes_recv"
    BY <1>1, <1>3, <2>2 DEF Told, Counter
  <2> QED
    BY <2>1, <2>2 DEF Counters
<1> HIDE DEF h, u, truth, jo, q
<1>8. h \in Hosts
  <2>1. ticks + 1 \in Nat /\ \A i \in 1 .. 3 : q[i].pid = i /\ q[i].born <= ticks + 1
    BY <1>5
  <2> QED
    BY <1>2, <1>4, <1>6, <2>1, HostTyped
<1>9. Before(host, h)
  BY <1>3, <1>5, <1>7 DEF Before
<1> QED
  BY <1>3, <1>8, <1>9 DEF h

-----------------------------------------------------------------------------
(* The rows of a batch.                                                    *)

LEMMA OneListed ==
  ASSUME NEW S, NEW s \in Seq(S), Len(s) = 1
  PROVE  Lists(s, {s[1]})
<1>1. s \in [1 .. 1 -> S] /\ DOMAIN s = 1 .. 1
  BY LenProperties
<1>2. PICK T : T = {s[1]}
  OBVIOUS
<1>3. s \in [1 .. 1 -> T]
  BY <1>1, <1>2
<1>4. s \in Seq(T) /\ Range(s) = T
  BY <1>1, <1>2, <1>3, SeqDef DEF Range
<1> QED
  BY <1>2, <1>4 DEF Lists

LEMMA HostReadable ==
  ASSUME NEW h \in Hosts
  PROVE  /\ Readable(h)
         /\ Range(h.vcpus) = {"vcpu_0"} /\ Range(h.mounts) = {"/", "/data"}
         /\ Range(h.interfaces) = {h.interfaces[1]}
<1>1. Lists(h.vcpus, {"vcpu_0"}) /\ Lists(h.mounts, {"/", "/data"}) /\ Lists(h.disks, {"sda"})
  BY HostFields DEF Lists, Range
<1>2. Lists(h.interfaces, {h.interfaces[1]})
  BY HostFields, OneListed
<1> QED
  BY <1>1, <1>2 DEF Readable, Lists

\* What the rows of a batch say: counters, and values other than zero except
\* for the use of the swap.
Says(h, m) ==
  /\ m.val \in Nat
  /\ m.type = "network_interface" /\ m.name \in Counters => m.val = Counter(h, m.name)
  /\ m.type = "memory_usage" => m.val = Some
  /\ m.type = "swap_usage" => m.val = Some \/ m.val = h.swapUsed

LEMMA RowsSay ==
  ASSUME NEW h \in Hosts, NEW m \in CollectedSet(h)
  PROVE  Says(h, m)
<1>1. /\ h.swapUsed \in Nat /\ h.interfaces[1].sent \in Nat /\ h.interfaces[1].recv \in Nat
      /\ Range(h.interfaces) = {h.interfaces[1]}
  <2>1. /\ h.swapUsed \in {0, Some}
        /\ h.interfaces[1].sent \in Nat /\ h.interfaces[1].recv \in Nat
    BY HostFields
  <2>2. Range(h.interfaces) = {h.interfaces[1]}
    BY HostReadable
  <2> QED
    BY <2>1, <2>2 DEF Some
<1>2. ASSUME NEW type, type \notin {"network_interface", "swap_usage"},
             NEW N, NEW key, m \in RowSet(type, N, key)
      PROVE  Says(h, m)
  BY <1>2 DEF Says, RowSet, Row, Some
<1>3. CASE m \in CpuSet(h)
  BY <1>2, <1>3 DEF CpuSet, Answer
<1>4. CASE m \in RowSet("load_average", Loads, "") \/ m \in RowSet("memory_usage", Memory, "")
  BY <1>2, <1>4
<1>5. CASE m \in SwapSet(h)
  <2>1. m.type = "swap_usage" /\ (m.val = Some \/ m.val = h.swapUsed)
    <3>1. PICK n, v : v \in {Some, h.swapUsed} /\ m = Row("swap_usage", n, "", v)
      BY <1>5, Zenon DEF SwapSet
    <3> QED
      BY <3>1 DEF Row
  <2> QED
    BY <1>1, <2>1 DEF Says, Some
<1>6. CASE m \in DiskSet(h)
  BY <1>2, <1>6 DEF DiskSet, MountSet, Answer
<1>7. CASE m \in DiskIOSet(h)
  BY <1>2, <1>7 DEF DiskIOSet, Answer
<1>8. CASE m \in NetworkSet(h) \/ m \in LatencySet(h)
  BY <1>2, <1>8 DEF NetworkSet, LatencySet, Answer
<1>9. CASE m \in InterfaceSet(h)
  <2>1. m \in IOSet(h.interfaces[1])
    BY <1>1, <1>9 DEF InterfaceSet, Answer
  <2> QED
    BY <1>1, <2>1 DEF IOSet, Row, Says, Counter, Counters, Some
<1> QED
  BY <1>3, <1>4, <1>5, <1>6, <1>7, <1>8, <1>9 DEF CollectedSet

\* Every figure of a place is in the rows of a batch, if the source of the
\* place answered: the names of the page are those of the agent.
Shown(p, h) == \A n \in p.names : \E m \in CollectedSet(h) : KeyOf(m) = <<p.type, n, p.key>>

LEMMA PlacesServed ==
  ASSUME NEW h \in Hosts, NEW p \in Places, Answers(p, h)
  PROVE  Shown(p, h)
<1>1. ASSUME NEW type, NEW N, NEW key, RowSet(type, N, key) \subseteq CollectedSet(h),
             NEW names, names \subseteq N
      PROVE  Shown(Place(type, key, names), h)
  <2> SUFFICES ASSUME NEW n \in names
               PROVE  \E m \in CollectedSet(h) : KeyOf(m) = <<type, n, key>>
    BY DEF Shown, Place
  <2>1. Row(type, n, key, Some) \in CollectedSet(h)
    BY <1>1 DEF RowSet
  <2> QED
    BY <2>1 DEF Row, KeyOf
<1>2. CASE p = Place("cpu_usage", "", {"cpu_total"})
  <2>1. "cpu" \notin h.fails
    BY <1>2 DEF Answers, SourceOf, Place
  <2>2. RowSet("cpu_usage", {"cpu_total"}, "") \subseteq CollectedSet(h)
    BY <2>1 DEF CollectedSet, CpuSet, Answer
  <2> QED
    BY <1>1, <1>2, <2>2
<1>3. CASE p = Place("vcpu_usage", "", {"vcpu_0"})
  <2>1. "vcpus" \notin h.fails
    BY <1>3 DEF Answers, SourceOf, Place
  <2>2. RowSet("vcpu_usage", {"vcpu_0"}, "") \subseteq CollectedSet(h)
    BY <2>1, HostReadable DEF CollectedSet, CpuSet, Answer
  <2> QED
    BY <1>1, <1>3, <2>2
<1>4. CASE p = Load
  <2>1. RowSet("load_average", Loads, "") \subseteq CollectedSet(h)
    BY DEF CollectedSet
  <2> QED
    BY <1>1, <1>4, <2>1 DEF Load, Loads
<1>5. CASE p = Ram \/ p = Place("memory_usage", "", {"memory_used_percent"})
  <2>1. RowSet("memory_usage", Memory, "") \subseteq CollectedSet(h)
    BY DEF CollectedSet
  <2>2. {"memory_used", "memory_total"} \subseteq Memory /\ {"memory_used_percent"} \subseteq Memory
    BY DEF Memory
  <2> QED
    BY <1>1, <1>5, <2>1, <2>2 DEF Ram
<1>6. CASE p = Swap \/ p = Place("swap_usage", "", {"swap_used_percent"})
  <2>1. ASSUME NEW n \in {"swap_used_percent", "swap_used", "swap_total"}
        PROVE  \E m \in CollectedSet(h) : KeyOf(m) = <<"swap_usage", n, "">>
    <3>1. SwapSet(h) \subseteq CollectedSet(h)
      BY DEF CollectedSet
    <3>2. PICK v : Row("swap_usage", n, "", v) \in SwapSet(h)
      BY Zenon DEF SwapSet
    <3> QED
      BY <3>1, <3>2 DEF KeyOf, Row
  <2>2. /\ p.type = "swap_usage" /\ p.key = ""
        /\ \A n \in p.names : n \in {"swap_used_percent", "swap_used", "swap_total"}
    <3>1. CASE p = Swap
      BY <3>1 DEF Swap, Place
    <3>2. CASE p = Place("swap_usage", "", {"swap_used_percent"})
      BY <3>2 DEF Place
    <3> QED
      BY <1>6, <3>1, <3>2
  <2> QED
    BY <2>1, <2>2 DEF Shown
<1>7. CASE p = Place("network_latency", "", {"latency_ms"})
  <2>1. "latency" \notin h.fails
    BY <1>7 DEF Answers, SourceOf, Place
  <2>2. RowSet("network_latency", {"latency_ms"}, "") \subseteq CollectedSet(h)
    BY <2>1 DEF CollectedSet, LatencySet, Answer
  <2> QED
    BY <1>1, <1>7, <2>2
<1> QED
  BY <1>2, <1>3, <1>4, <1>5, <1>6, <1>7 DEF Places

-----------------------------------------------------------------------------
(* A row (HandleMetricUpdate).                                             *)

Stamped == [time : 0 .. MaxTicks, val : Nat]

Pages ==
  [values : [Keys -> Stamped], text : [Places -> SUBSET (0 .. MaxTicks)],
   history : [Counters -> Seq(Point)]]

\* The rates of a counter are real (RatesAreReal).
RealRates(points, c) ==
  \A i \in 2 .. Len(points) :
    LET p == points[i - 1].truth
        q == points[i].truth
    IN  /\ points[i].gain <= q.moved[c] - p.moved[c]
        /\ q.resets = p.resets => points[i].gain = q.moved[c] - p.moved[c]

\* The last point was read before the hosts in F.
Precede(points, c, F) ==
  points # <<>> => \A h \in F : Told(Last(points).val, Last(points).truth, c, h)

LEMMA PlaceKeys ==
  ASSUME NEW p \in Places, NEW n \in p.names
  PROVE  <<p.type, n, p.key>> \in Keys
BY DEF Keys

LEMMA StoredTyped ==
  ASSUME NEW v \in [Keys -> Stamped], NEW m, m.val \in Nat, NEW t \in 0 .. MaxTicks
  PROVE  /\ Stored(v, m, t) \in [Keys -> Stamped]
         /\ KeyOf(m) \in Keys => Stored(v, m, t)[KeyOf(m)] = [time |-> t, val |-> m.val]
         /\ \A k \in Keys : k # KeyOf(m) => Stored(v, m, t)[k] = v[k]
<1>1. [time |-> t, val |-> m.val] \in Stamped
  BY DEF Stamped
<1> QED
  BY <1>1 DEF Stored

LEMMA WrittenTyped ==
  ASSUME NEW tx \in [Places -> SUBSET (0 .. MaxTicks)], NEW m, NEW v \in [Keys -> Stamped]
  PROVE  Written(tx, m, v) \in [Places -> SUBSET (0 .. MaxTicks)]
<1>1. ASSUME NEW p \in Places
      PROVE  {v[<<p.type, n, p.key>>].time : n \in p.names} \in SUBSET (0 .. MaxTicks)
  BY PlaceKeys DEF Stamped
<1> QED
  BY <1>1 DEF Written

\* Pruned keeps the points from some point on.
LEMMA PrunedIsRest ==
  ASSUME NEW points \in Seq(Point), NEW now \in Int, points # <<>>, Last(points).ts = now
  PROVE  \E i \in 1 .. Len(points) : Pruned(points, now) = SubSeq(points, i, Len(points))
<1> DEFINE S == {i \in DOMAIN points : now - points[i].ts <= Window}
<1>1. Len(points) \in Nat \ {0} /\ DOMAIN points = 1 .. Len(points)
  BY LenProperties, EmptySeq
<1>2. Len(points) \in S
  BY <1>1, Limits DEF Last
<1>3. S \subseteq Nat
  BY <1>1
<1>4. Min(S) \in S
  <2> HIDE DEF S
  <2>1. \E x \in S : \A y \in S : x <= y
    BY <1>2, <1>3, Least
  <2> QED
    BY <2>1 DEF Min
<1> QED
  BY <1>1, <1>4 DEF Pruned

\* A value makes no point, or one at the end of what is kept.
Continues(new, points, val, truth) ==
  \E i \in 1 .. Len(points) + 1, point \in Point :
    /\ new = SubSeq(Append(points, point), i, Len(points) + 1)
    /\ point.val = val /\ point.truth = truth
    /\ points # <<>> => point.gain = Gain(val, Last(points).val)

LEMMA Updated ==
  ASSUME NEW points \in Seq(Point), NEW val \in Nat, NEW now \in Int, NEW truth \in Truth,
         NEW new, new = UpdateInterfaceHistory(points, val, now, truth), new # points
  PROVE  Continues(new, points, val, truth)
<1>1. Len(points) \in Nat /\ DOMAIN points = 1 .. Len(points)
  BY LenProperties
<1>2. CASE points = <<>>
  <2> DEFINE point == [ts |-> now, val |-> val, gain |-> 0, truth |-> truth]
  <2>1. point \in Point /\ point.val = val /\ point.truth = truth
    BY DEF Point
  <2>2. new = <<point>>
    BY <1>2 DEF UpdateInterfaceHistory
  <2> HIDE DEF point
  <2>3. <<point>> = SubSeq(Append(points, point), 1, Len(points) + 1) /\ 1 \in 1 .. Len(points) + 1
    <3>1. Append(points, point) = <<point>> /\ Len(points) = 0
      BY <1>2
    <3>2. <<point>> \in Seq(Point) /\ Len(<<point>>) = 1
      BY <2>1
    <3> QED
      BY <3>1, <3>2, SubSeqFull
  <2> QED
    BY <1>2, <2>1, <2>2, <2>3 DEF Continues
<1>3. CASE points # <<>>
  <2> DEFINE point == [ts |-> now, val |-> val, truth |-> truth, gain |-> Gain(val, Last(points).val)]
             more == Append(points, point)
  <2>1. Last(points) \in Point
    BY <1>1, <1>3, EmptySeq, ElementOfSeq DEF Last
  <2>2. Gain(val, Last(points).val) \in Nat
    BY <2>1 DEF Gain, Larger, Point
  <2>3. /\ point \in Point /\ point.val = val /\ point.truth = truth /\ point.ts = now
        /\ point.gain = Gain(val, Last(points).val)
    BY <2>2 DEF Point
  <2>4. new = Pruned(more, now)
    BY <1>3 DEF UpdateInterfaceHistory
  <2> HIDE DEF point
  <2>5. /\ more \in Seq(Point) /\ Len(more) = Len(points) + 1 /\ more # <<>>
        /\ Last(more) = point
    BY <2>3, AppendProperties DEF Last
  <2> HIDE DEF more
  <2>6. PICK i \in 1 .. Len(more) : Pruned(more, now) = SubSeq(more, i, Len(more))
    BY <2>3, <2>5, PrunedIsRest
  <2> QED
    BY <2>3, <2>4, <2>5, <2>6 DEF more, Continues
<1> QED
  BY <1>2, <1>3

\* The rate between two values of a counter is real.
LEMMA RateIsReal ==
  ASSUME NEW v \in Nat, NEW t \in Truth, NEW c \in Counters, NEW h \in Hosts, Told(v, t, c, h)
  PROVE  /\ Gain(Counter(h, c), v) <= h.truth.moved[c] - t.moved[c]
         /\ h.truth.resets = t.resets =>
              Gain(Counter(h, c), v) = h.truth.moved[c] - t.moved[c]
<1>1. /\ t.moved[c] \in Nat /\ t.resets \in Nat
  BY DEF Truth
<1>2. h.truth.moved[c] \in Nat /\ h.truth.resets \in Nat /\ Counter(h, c) \in Nat
  BY HostFields DEF Counter
<1> QED
  BY <1>1, <1>2 DEF Told, Gain, Larger

LEMMA UpdateIsReal ==
  ASSUME NEW points \in Seq(Point), NEW c \in Counters, NEW h \in Hosts, NEW now \in Int,
         NEW F, F \subseteq Hosts, h \in F, \A g \in F : Told(Counter(h, c), h.truth, c, g),
         RealRates(points, c), Precede(points, c, F)
  PROVE  LET new == UpdateInterfaceHistory(points, Counter(h, c), now, h.truth)
         IN  new \in Seq(Point) /\ RealRates(new, c) /\ Precede(new, c, F)
<1> DEFINE new == UpdateInterfaceHistory(points, Counter(h, c), now, h.truth)
<1> SUFFICES ASSUME new # points
             PROVE  new \in Seq(Point) /\ RealRates(new, c) /\ Precede(new, c, F)
  OBVIOUS
<1>1. Counter(h, c) \in Nat /\ h.truth \in Truth
  BY HostFields DEF Counter
<1>2. PICK i \in 1 .. Len(points) + 1, point \in Point :
        /\ new = SubSeq(Append(points, point), i, Len(points) + 1)
        /\ point.val = Counter(h, c) /\ point.truth = h.truth
        /\ points # <<>> => point.gain = Gain(Counter(h, c), Last(points).val)
  <2>1. Continues(new, points, Counter(h, c), h.truth)
    BY <1>1, Updated
  <2> QED
    BY <2>1 DEF Continues
<1> DEFINE more == Append(points, point)
           n == Len(points) + 1
<1>3. /\ Len(points) \in Nat /\ n \in Nat /\ i \in 1 .. n
      /\ more \in Seq(Point) /\ Len(more) = n
      /\ more[n] = point /\ \A j \in 1 .. Len(points) : more[j] = points[j]
  BY AppendProperties, LenProperties
<1> HIDE DEF more, n
<1>4. /\ new \in Seq(Point) /\ Len(new) = n - i + 1
      /\ \A j \in 1 .. n - i + 1 : new[j] = more[i + j - 1]
  <2>1. \A j \in i .. n : more[j] \in Point
    BY <1>3, ElementOfSeq
  <2>2. new = SubSeq(more, i, n) /\ i \in Int /\ n \in Int /\ i <= n
    BY <1>2, <1>3 DEF more, n
  <2> HIDE DEF new
  <2> QED
    BY <1>3, <2>1, <2>2, SubSeqProperties
<1>5. RealRates(more, c)
  <2> SUFFICES ASSUME NEW j \in 2 .. n
               PROVE  LET p == more[j - 1].truth
                          q == more[j].truth
                      IN  /\ more[j].gain <= q.moved[c] - p.moved[c]
                          /\ q.resets = p.resets => more[j].gain = q.moved[c] - p.moved[c]
    BY <1>3 DEF RealRates
  <2>1. CASE j <= Len(points)
    <3>1. j \in 2 .. Len(points) /\ more[j] = points[j] /\ more[j - 1] = points[j - 1]
      BY <1>3, <2>1
    <3> QED
      BY <3>1 DEF RealRates
  <2>2. CASE j = n
    <3>1. points # <<>> /\ Len(points) = j - 1 /\ j - 1 \in 1 .. Len(points)
      BY <1>3, <2>2 DEF n
    <3>2. more[j - 1] = Last(points) /\ Last(points) \in Point
      BY <1>3, <3>1, ElementOfSeq DEF Last
    <3>3. Last(points).val \in Nat /\ Last(points).truth \in Truth
      BY <3>2 DEF Point
    <3>4. Told(Last(points).val, Last(points).truth, c, h)
      BY <3>1 DEF Precede
    <3>5. point.gain = Gain(Counter(h, c), Last(points).val)
      BY <1>2, <3>1
    <3>6. more[j].truth = h.truth /\ more[j].gain = point.gain
      BY <1>2, <1>3, <2>2
    <3> QED
      BY <3>2, <3>3, <3>4, <3>5, <3>6, RateIsReal
  <2> QED
    BY <1>3, <2>1, <2>2 DEF n
<1>6. RealRates(new, c)
  <2> SUFFICES ASSUME NEW j \in 2 .. n - i + 1
               PROVE  LET p == new[j - 1].truth
                          q == new[j].truth
                      IN  /\ new[j].gain <= q.moved[c] - p.moved[c]
                          /\ q.resets = p.resets => new[j].gain = q.moved[c] - p.moved[c]
    BY <1>3, <1>4 DEF RealRates
  <2>1. PICK k : k = i + j - 1
    OBVIOUS
  <2>2. k \in 2 .. n /\ new[j] = more[k] /\ new[j - 1] = more[k - 1]
    <3>1. j \in 1 .. n - i + 1 /\ j - 1 \in 1 .. n - i + 1 /\ i + (j - 1) - 1 = k - 1
      BY <1>3, <2>1
    <3>2. k \in 2 .. n
      BY <1>3, <2>1
    <3> HIDE DEF new
    <3> QED
      BY <1>4, <2>1, <3>1, <3>2
  <2> HIDE DEF new
  <2> QED
    BY <1>3, <1>5, <2>2 DEF RealRates
<1>7. Precede(new, c, F)
  <2>1. Last(new) = point
    <3>1. n - i + 1 \in 1 .. n - i + 1 /\ i + (n - i + 1) - 1 = n
      BY <1>3
    <3> HIDE DEF new
    <3> QED
      BY <1>3, <1>4, <3>1 DEF Last
  <2> QED
    BY <1>2, <2>1 DEF Precede
<1> QED
  BY <1>4, <1>6, <1>7

LEMMA UpdateTyped ==
  ASSUME NEW points \in Seq(Point), NEW val \in Nat, NEW now \in Int, NEW truth \in Truth
  PROVE  UpdateInterfaceHistory(points, val, now, truth) \in Seq(Point)
<1> DEFINE new == UpdateInterfaceHistory(points, val, now, truth)
<1> SUFFICES ASSUME new # points PROVE new \in Seq(Point)
  OBVIOUS
<1>1. Continues(new, points, val, truth)
  BY Updated
<1> HIDE DEF new
<1>2. PICK i \in 1 .. Len(points) + 1, point \in Point :
        new = SubSeq(Append(points, point), i, Len(points) + 1)
  BY <1>1 DEF Continues
<1> DEFINE more == Append(points, point)
<1>3. more \in Seq(Point) /\ Len(more) = Len(points) + 1 /\ Len(points) \in Nat
  BY AppendProperties, LenProperties
<1> HIDE DEF more
<1>4. \A j \in i .. Len(more) : more[j] \in Point
  BY <1>3, ElementOfSeq
<1>5. SubSeq(more, i, Len(more)) \in Seq(Point)
  BY <1>3, <1>4, SubSeqProperties
<1> QED
  BY <1>2, <1>3, <1>5 DEF more

\* A row leaves a page, and what it shows real.
LEMMA Handled ==
  ASSUME NEW pg \in Pages, NEW h \in Hosts, h.time \in 0 .. MaxTicks,
         NEW m, Says(h, m), NEW now \in Int
  PROVE  HandleMetricUpdate(pg, m, h, now) \in Pages
<1> DEFINE v == Stored(pg.values, m, h.time)
           hist == HandleNetworkInterface(pg.history, m, now, h.truth)
<1>1. /\ pg.values \in [Keys -> Stamped] /\ pg.history \in [Counters -> Seq(Point)]
      /\ pg.text \in [Places -> SUBSET (0 .. MaxTicks)]
      /\ m.val \in Nat /\ h.truth \in Truth
  BY HostFields DEF Pages, Says
<1>2. v \in [Keys -> Stamped]
  BY <1>1, StoredTyped
<1>3. Written(pg.text, m, v) \in [Places -> SUBSET (0 .. MaxTicks)]
  BY <1>1, <1>2, WrittenTyped
<1>4. hist \in [Counters -> Seq(Point)]
  <2>1. \A c \in Counters :
          UpdateInterfaceHistory(pg.history[c], m.val, now, h.truth) \in Seq(Point)
    BY <1>1, UpdateTyped
  <2> QED
    BY <1>1, <2>1 DEF HandleNetworkInterface
<1> HIDE DEF v, hist
<1> QED
  BY <1>2, <1>3, <1>4 DEF HandleMetricUpdate, Pages, v, hist

PageReal(pg, F) ==
  \A c \in Counters : RealRates(pg.history[c], c) /\ Precede(pg.history[c], c, F)

\* No host in F comes before h.
NoneBefore(F, h) ==
  /\ F \subseteq Hosts /\ h \in F
  /\ \A c \in Counters, g \in F : Told(Counter(h, c), h.truth, c, g)

LEMMA HandledReal ==
  ASSUME NEW pg \in Pages, NEW h \in Hosts, NEW m, Says(h, m), NEW now \in Int,
         NEW F, NoneBefore(F, h), PageReal(pg, F)
  PROVE  PageReal(HandleMetricUpdate(pg, m, h, now), F)
<1> DEFINE hist == HandleNetworkInterface(pg.history, m, now, h.truth)
<1>1. ASSUME NEW c \in Counters PROVE RealRates(hist[c], c) /\ Precede(hist[c], c, F)
  <2>1. /\ RealRates(pg.history[c], c) /\ Precede(pg.history[c], c, F)
        /\ pg.history \in [Counters -> Seq(Point)] /\ pg.history[c] \in Seq(Point)
    BY DEF PageReal, Pages
  <2>2. CASE m.type = "network_interface" /\ m.name = c
    <3> DEFINE new == UpdateInterfaceHistory(pg.history[c], Counter(h, c), now, h.truth)
    <3>1. RealRates(new, c) /\ Precede(new, c, F)
      <4>1. F \subseteq Hosts /\ h \in F /\ \A g \in F : Told(Counter(h, c), h.truth, c, g)
        BY DEF NoneBefore
      <4> QED
        BY <2>1, <4>1, UpdateIsReal
    <3>2. hist[c] = new
      BY <2>1, <2>2 DEF HandleNetworkInterface, Says
    <3> QED
      BY <3>1, <3>2
  <2>3. CASE ~ (m.type = "network_interface" /\ m.name = c)
    <3>1. hist[c] = pg.history[c]
      BY <2>1, <2>3 DEF HandleNetworkInterface
    <3> QED
      BY <2>1, <3>1
  <2> QED
    BY <2>2, <2>3
<1>2. HandleMetricUpdate(pg, m, h, now).history = hist
  BY DEF HandleMetricUpdate
<1> HIDE DEF hist
<1> QED
  BY <1>1, <1>2 DEF PageReal

-----------------------------------------------------------------------------
(* The rows of a batch, one after the other (AfterRows).                   *)

Shows == [values |-> values, text |-> text, history |-> history]

\* pg[i] is the page after the first i rows of h.
Passes(pg, h, lost, now) ==
  LET rows == CollectMetrics(h)
  IN  /\ pg \in [0 .. Len(rows) -> Pages]
      /\ pg[0] = Shows
      /\ \A i \in 1 .. Len(rows) :
           pg[i] = IF Used(rows[i], lost) THEN HandleMetricUpdate(pg[i - 1], rows[i], h, now)
                   ELSE pg[i - 1]
      /\ AfterRows(h, lost, now) = pg[Len(rows)]

LEMMA RowsAre ==
  ASSUME NEW h \in Hosts
  PROVE  /\ Len(CollectMetrics(h)) \in Nat
         /\ DOMAIN CollectMetrics(h) = 1 .. Len(CollectMetrics(h))
         /\ \A i \in 1 .. Len(CollectMetrics(h)) : Says(h, CollectMetrics(h)[i])
         /\ \A m \in CollectedSet(h) :
              \E i \in 1 .. Len(CollectMetrics(h)) : CollectMetrics(h)[i] = m
<1> DEFINE rows == CollectMetrics(h)
<1>1. rows \in Seq(CollectedSet(h)) /\ Range(rows) = CollectedSet(h)
  BY HostReadable, RowsListed DEF Lists
<1> HIDE DEF rows
<1>2. Len(rows) \in Nat /\ DOMAIN rows = 1 .. Len(rows)
  BY <1>1, LenProperties
<1>3. \A i \in 1 .. Len(rows) : Says(h, rows[i])
  BY <1>1, ElementOfSeq, RowsSay
<1>4. \A m \in CollectedSet(h) : \E i \in 1 .. Len(rows) : rows[i] = m
  BY <1>1, <1>2 DEF Range
<1> QED
  BY <1>2, <1>3, <1>4 DEF rows

LEMMA Batch ==
  ASSUME NEW h \in Hosts, h.time \in 0 .. MaxTicks, NEW lost, NEW now \in Int, Shows \in Pages
  PROVE  \E pg : Passes(pg, h, lost, now)
<1> DEFINE rows == CollectMetrics(h)
           N == Len(rows)
           Step(i, x) == IF Used(rows[i], lost) THEN HandleMetricUpdate(x, rows[i], h, now) ELSE x
           Rec(f) == f = [i \in 0 .. Len(rows) |->
             IF i = 0 THEN [values |-> values, text |-> text, history |-> history]
             ELSE IF Used(rows[i], lost) THEN HandleMetricUpdate(f[i - 1], rows[i], h, now)
             ELSE f[i - 1]]
           pg[i \in 0 .. Len(rows)] ==
             IF i = 0 THEN [values |-> values, text |-> text, history |-> history]
             ELSE IF Used(rows[i], lost) THEN HandleMetricUpdate(pg[i - 1], rows[i], h, now)
             ELSE pg[i - 1]
<1>1. N \in Nat /\ \A i \in 1 .. N : Says(h, rows[i])
  BY RowsAre
<1>2. AfterRows(h, lost, now) = pg[N]
  BY DEF AfterRows
<1>3. \E f : f \in [0 .. N -> Pages] /\ Rec(f)
  <2> HIDE DEF rows
  <2> DEFINE F == [i \in 1 .. N |-> [x \in Pages |-> Step(i, x)]]
  <2>1. F \in [1 .. N -> [Pages -> Pages]]
    <3>1. ASSUME NEW i \in 1 .. N, NEW x \in Pages PROVE Step(i, x) \in Pages
      BY <1>1, Handled
    <3> QED
      BY <3>1
  <2>2. ASSUME NEW i \in 1 .. N, NEW x \in Pages PROVE F[i][x] = Step(i, x)
    OBVIOUS
  <2> HIDE DEF F, N, Rec
  <2>3. PICK f \in [0 .. N -> Pages] : Follows(f, N, Shows, F)
    BY <1>1, <2>1, Recursion
  <2>4. ASSUME NEW i \in 0 .. N PROVE f[i] = IF i = 0 THEN Shows ELSE Step(i, f[i - 1])
    <3>1. CASE i = 0
      BY <2>3, <3>1 DEF Follows
    <3>2. CASE i # 0
      <4>1. i \in 1 .. N /\ i - 1 \in 0 .. N /\ f[i - 1] \in Pages
        BY <1>1, <3>2
      <4> QED
        BY <2>2, <2>3, <3>2, <4>1 DEF Follows
    <3> QED
      BY <3>1, <3>2
  <2>5. Rec(f)
    BY <2>4 DEF Rec, N, Shows
  <2> QED
    BY <2>5
<1>4. pg = CHOOSE f : Rec(f)
  OBVIOUS
<1>5. Rec(pg)
  <2> HIDE DEF Rec, pg
  <2> QED
    BY <1>3, <1>4
<1>6. /\ pg[0] = Shows
      /\ \A i \in 1 .. N : pg[i] = Step(i, pg[i - 1])
  <2> HIDE DEF pg, rows
  <2>1. ASSUME NEW i \in 0 .. N PROVE pg[i] = IF i = 0 THEN Shows ELSE Step(i, pg[i - 1])
    BY <1>5 DEF Shows
  <2> QED
    BY <1>1, <2>1
<1>7. pg \in [0 .. N -> Pages]
  <2>1. DOMAIN pg = 0 .. N /\ pg = [i \in 0 .. N |-> pg[i]]
    <3> HIDE DEF pg
    <3>1. \A g : Rec(g) => DOMAIN g = 0 .. N /\ g = [i \in 0 .. N |-> g[i]]
      OBVIOUS
    <3> QED
      BY <1>5, <3>1
  <2> DEFINE Good == {i \in 0 .. N : pg[i] \in Pages}
  <2> HIDE DEF pg, rows, N
  <2>2. 0 \in Good
    BY <1>1, <1>6
  <2>3. \A i \in 1 .. N : i - 1 \in Good => i \in Good
    BY <1>1, <1>6, Handled
  <2>4. \A i \in 0 .. N : i \in Good
    <3> HIDE DEF Good
    <3> QED
      BY <1>1, <2>2, <2>3, UpTo
  <2> QED
    BY <2>1, <2>4
<1> HIDE DEF pg
<1> QED
  BY <1>2, <1>6, <1>7 DEF Passes

\* Rates stay real over a batch, whatever rows of it are lost.
LEMMA BatchReal ==
  ASSUME NEW h \in Hosts, NEW lost, NEW now \in Int, NEW pg, Passes(pg, h, lost, now),
         NEW F, NoneBefore(F, h), PageReal(Shows, F)
  PROVE  PageReal(AfterRows(h, lost, now), F)
<1> DEFINE rows == CollectMetrics(h)
           Good == {i \in 0 .. Len(rows) : PageReal(pg[i], F)}
<1>1. Len(rows) \in Nat /\ \A i \in 1 .. Len(rows) : Says(h, rows[i])
  BY RowsAre
<1>2. 0 \in Good
  BY <1>1 DEF Passes
<1>3. ASSUME NEW i \in 1 .. Len(rows), i - 1 \in Good PROVE i \in Good
  <2>1. /\ i - 1 \in 0 .. Len(rows) /\ pg[i - 1] \in Pages /\ PageReal(pg[i - 1], F)
        /\ Says(h, rows[i]) /\ i \in 0 .. Len(rows)
        /\ pg[i] = IF Used(rows[i], lost) THEN HandleMetricUpdate(pg[i - 1], rows[i], h, now)
                   ELSE pg[i - 1]
    BY <1>1, <1>3 DEF Passes
  <2> HIDE DEF rows
  <2> QED
    BY <2>1, HandledReal
<1>4. \A i \in 0 .. Len(rows) : i \in Good
  <2> HIDE DEF rows, Good
  <2> QED
    BY <1>1, <1>2, <1>3, UpTo
<1> QED
  BY <1>1, <1>4 DEF Passes

-----------------------------------------------------------------------------
(* What a batch shows.                                                     *)

Key(p, n) == <<p.type, n, p.key>>

\* The rows with keys S were handled.
Reflects(pg, S, h) ==
  /\ \A k \in S \cap Keys : \E m \in CollectedSet(h) :
       KeyOf(m) = k /\ pg.values[k] = [time |-> h.time, val |-> m.val]
  /\ \A p \in Places :
       (\A n \in p.names : Key(p, n) \in S) =>
         pg.text[p] = {h.time} \/ (p = Swap /\ h.swapUsed = 0)

LEMMA PlaceTypes ==
  ASSUME NEW p \in Places
  PROVE  /\ p.names # {} /\ p.type \in Types
         /\ p \in {Ram, Swap} => p.type \in {"memory_usage", "swap_usage"}
         /\ p = Ram => p.type = "memory_usage"
         /\ p = Swap => p.type = "swap_usage"
<1>1. p.type \in Types
  BY DEF Types
<1>2. \A type, key, names : Place(type, key, names).type = type /\ Place(type, key, names).names = names
  BY DEF Place
<1>3. p.names # {}
  <2>1. PICK names : names # {} /\ \E type, key : p = Place(type, key, names)
    <3>1. ASSUME NEW type, NEW key, NEW names, NEW n \in names, p = Place(type, key, names)
          PROVE  \E N : N # {} /\ \E t, k : p = Place(t, k, N)
      BY <3>1
    <3>2. CASE p \in {Load, Ram, Swap}
      BY <3>1, <3>2 DEF Load, Ram, Swap
    <3>3. CASE p \notin {Load, Ram, Swap}
      BY <3>1, <3>3 DEF Places
    <3> QED
      BY <3>2, <3>3
  <2> QED
    BY <1>2, <2>1
<1>4. Ram.type = "memory_usage" /\ Swap.type = "swap_usage"
  BY <1>2 DEF Ram, Swap
<1> QED
  BY <1>1, <1>3, <1>4

LEMMA RowKept ==
  ASSUME NEW pg \in Pages, NEW h \in Hosts, h.time \in 0 .. MaxTicks,
         NEW m \in CollectedSet(h), NEW now \in Int, NEW S, Reflects(pg, S, h)
  PROVE  Reflects(HandleMetricUpdate(pg, m, h, now), S \cup {KeyOf(m)}, h)
<1> DEFINE v == Stored(pg.values, m, h.time)
           T == S \cup {KeyOf(m)}
           tx == Written(pg.text, m, v)
<1>1. /\ pg.values \in [Keys -> Stamped] /\ m.val \in Nat /\ Says(h, m)
  BY RowsSay DEF Pages, Says
<1>2. /\ v \in [Keys -> Stamped]
      /\ KeyOf(m) \in Keys => v[KeyOf(m)] = [time |-> h.time, val |-> m.val]
      /\ \A k \in Keys : k # KeyOf(m) => v[k] = pg.values[k]
  BY <1>1, StoredTyped
<1> HIDE DEF v
<1>3. ASSUME NEW k \in T \cap Keys
      PROVE  \E x \in CollectedSet(h) : KeyOf(x) = k /\ v[k] = [time |-> h.time, val |-> x.val]
  <2>1. CASE k = KeyOf(m)
    BY <1>2, <2>1
  <2>2. CASE k # KeyOf(m)
    <3>1. k \in S \cap Keys /\ v[k] = pg.values[k]
      BY <1>2, <2>2
    <3> QED
      BY <3>1 DEF Reflects
  <2> QED
    BY <2>1, <2>2
<1>4. ASSUME NEW p \in Places, \A n \in p.names : Key(p, n) \in T
      PROVE  tx[p] = {h.time} \/ (p = Swap /\ h.swapUsed = 0)
  <2>1. ASSUME NEW n \in p.names
        PROVE  \E x \in CollectedSet(h) :
                 KeyOf(x) = Key(p, n) /\ v[Key(p, n)] = [time |-> h.time, val |-> x.val]
    <3>1. Key(p, n) \in T \cap Keys
      BY <1>4, PlaceKeys DEF Key
    <3> QED
      BY <1>3, <3>1
  <2>2. CASE Writes(m, p, v)
    <3>1. tx[p] = {v[Key(p, n)].time : n \in p.names}
      BY <2>2 DEF Written, Key
    <3>2. ASSUME NEW n \in p.names PROVE v[Key(p, n)].time = h.time
      <4>1. PICK x : v[Key(p, n)] = [time |-> h.time, val |-> x.val]
        BY <2>1
      <4> QED
        BY <4>1
    <3> QED
      BY <3>1, <3>2, PlaceTypes
  <2>3. CASE ~ Writes(m, p, v)
    <3>1. tx[p] = pg.text[p]
      BY <2>3 DEF Written
    <3>2. CASE \A n \in p.names : Key(p, n) \in S
      BY <3>1, <3>2 DEF Reflects
    <3>3. CASE \E n \in p.names : Key(p, n) \notin S
      <4>1. PICK n \in p.names : KeyOf(m) = Key(p, n)
        BY <1>4, <3>3
      <4>2. m.type = p.type /\ m.name \in p.names
        BY <4>1 DEF KeyOf, Key
      <4>3. p \in {Ram, Swap} /\ \E x \in p.names : v[Key(p, x)].val = 0
        BY <2>3, <4>2 DEF Writes, Key
      <4>4. PICK x \in CollectedSet(h) : x.type = p.type /\ x.val = 0
        <5>1. PICK y \in p.names : v[Key(p, y)].val = 0
          BY <4>3
        <5>2. PICK x \in CollectedSet(h) :
                KeyOf(x) = Key(p, y) /\ v[Key(p, y)] = [time |-> h.time, val |-> x.val]
          BY <2>1
        <5> QED
          BY <5>1, <5>2 DEF KeyOf, Key
      <4>5. Says(h, x)
        BY RowsSay
      <4>6. p = Swap /\ h.swapUsed = 0
        BY <4>3, <4>4, <4>5, PlaceTypes DEF Says, Some
      <4> QED
        BY <4>6
    <3> QED
      BY <3>2, <3>3
  <2> QED
    BY <2>2, <2>3
<1>5. /\ HandleMetricUpdate(pg, m, h, now).values = v
      /\ HandleMetricUpdate(pg, m, h, now).text = tx
  BY DEF HandleMetricUpdate, v
<1> HIDE DEF tx, T
<1>6. Reflects(HandleMetricUpdate(pg, m, h, now), T, h)
  BY <1>3, <1>4, <1>5 DEF Reflects
<1> QED
  BY <1>6 DEF T

\* A row that the page has no use for is none of a place.
LEMMA RowIgnored ==
  ASSUME NEW pg, NEW h, NEW m, ~ Used(m, {}), NEW S, Reflects(pg, S, h)
  PROVE  Reflects(pg, S \cup {KeyOf(m)}, h)
<1>1. m.type \notin Types
  BY DEF Used
<1>2. ASSUME NEW p \in Places, NEW n PROVE Key(p, n) # KeyOf(m)
  BY <1>1, PlaceTypes DEF Key, KeyOf
<1>3. KeyOf(m) \notin Keys
  BY <1>2 DEF Keys, Key
<1> QED
  BY <1>2, <1>3 DEF Reflects

\* A whole batch shows the values of its host at every place it serves.
LEMMA BatchShown ==
  ASSUME NEW h \in Hosts, h.time \in 0 .. MaxTicks, NEW now \in Int,
         NEW pg, Passes(pg, h, {}, now),
         NEW p \in Places, Answers(p, h)
  PROVE  AfterRows(h, {}, now).text[p] = {h.time} \/ (p = Swap /\ h.swapUsed = 0)
<1> DEFINE rows == CollectMetrics(h)
           N == Len(rows)
           Seen(i) == {KeyOf(rows[j]) : j \in 1 .. i}
           Good == {i \in 0 .. N : Reflects(pg[i], Seen(i), h)}
<1>1. N \in Nat /\ \A i \in 1 .. N : rows[i] \in CollectedSet(h)
  <2>1. rows \in Seq(CollectedSet(h))
    BY HostReadable, RowsListed DEF Lists
  <2> HIDE DEF rows
  <2> QED
    BY <2>1, LenProperties, ElementOfSeq
<1>2. 0 \in Good
  <2>1. Seen(0) = {}
    OBVIOUS
  <2>2. Reflects(pg[0], {}, h)
    BY PlaceTypes DEF Reflects
  <2>3. 0 \in 0 .. N
    BY <1>1
  <2> HIDE DEF Seen, N
  <2> QED
    BY <2>1, <2>2, <2>3
<1>3. ASSUME NEW i \in 1 .. N, i - 1 \in Good PROVE i \in Good
  <2>1. /\ i - 1 \in 0 .. N /\ pg[i - 1] \in Pages
        /\ rows[i] \in CollectedSet(h) /\ i \in 0 .. N
        /\ pg[i] = IF Used(rows[i], {}) THEN HandleMetricUpdate(pg[i - 1], rows[i], h, now)
                   ELSE pg[i - 1]
    BY <1>1, <1>3 DEF Passes
  <2>2. Reflects(pg[i - 1], Seen(i - 1), h)
    BY <1>3
  <2>3. Seen(i) = Seen(i - 1) \cup {KeyOf(rows[i])}
    <3>1. 1 .. i = (1 .. i - 1) \cup {i}
      BY <1>1
    <3> HIDE DEF rows
    <3> QED
      BY <3>1
  <2> HIDE DEF rows, Seen
  <2>4. Reflects(pg[i], Seen(i - 1) \cup {KeyOf(rows[i])}, h)
    BY <2>1, <2>2, RowKept, RowIgnored
  <2> QED
    BY <2>1, <2>3, <2>4
<1>4. \A i \in 0 .. N : i \in Good
  <2> HIDE DEF N, Good
  <2> QED
    BY <1>1, <1>2, <1>3, UpTo
<1>5. Reflects(AfterRows(h, {}, now), Seen(N), h)
  BY <1>1, <1>4 DEF Passes
<1>6. ASSUME NEW n \in p.names PROVE Key(p, n) \in Seen(N)
  <2>1. PICK m \in CollectedSet(h) : KeyOf(m) = Key(p, n)
    BY PlacesServed DEF Shown, Key
  <2>2. PICK i \in 1 .. N : rows[i] = m
    BY RowsAre
  <2> QED
    BY <2>1, <2>2
<1> QED
  BY <1>5, <1>6 DEF Reflects

-----------------------------------------------------------------------------
(* The snapshots of a batch.                                               *)

LEMMA SnapshotSays ==
  ASSUME NEW h \in Hosts
  PROVE  LET list == CollectProcesses(h)
         IN  /\ Len(list) \in Nat /\ Len(list) <= MaxListed /\ DOMAIN list = 1 .. Len(list)
             /\ \A i \in DOMAIN list :
                  list[i].pid \in 1 .. 3 /\ list[i].read = ReadOf(h.processes[list[i].pid])
<1> DEFINE list == CollectProcesses(h)
           Entries(n) == {Listed(h.processes[i]) : i \in {j \in 1 .. n : h.processes[j].named}}
<1>1. h.processes \in Seq(Process) /\ Len(h.processes) = 3
  <2>1. h.processes \in [1 .. 3 -> Process]
    BY HostFields
  <2>2. ASSUME NEW P, NEW f \in [1 .. 3 -> P] PROVE f \in Seq(P) /\ Len(f) = 3
    <3>1. f \in Seq(P)
      BY SeqDef
    <3> QED
      BY <3>1, LenProperties
  <2> QED
    BY <2>1, <2>2
<1>2. PICK n \in 0 .. Len(h.processes) : Lists(list, Entries(n)) /\ Len(list) <= MaxListed
  BY <1>1, FirstListed
<1>3. ASSUME NEW e \in Entries(n) PROVE e.pid \in 1 .. 3 /\ e.read = ReadOf(h.processes[e.pid])
  <2>1. PICK i \in 1 .. n : e = Listed(h.processes[i])
    OBVIOUS
  <2>2. i \in 1 .. 3 /\ h.processes[i].pid = i
    BY <1>1, HostFields
  <2> QED
    BY <2>1, <2>2 DEF Listed, ReadOf
<1>4. PICK E : E = Entries(n)
  OBVIOUS
<1> HIDE DEF list, Entries
<1>5. list \in Seq(E)
  BY <1>2, <1>4 DEF Lists
<1>6. Len(list) \in Nat /\ DOMAIN list = 1 .. Len(list)
  BY <1>5, LenProperties
<1>7. \A i \in DOMAIN list : list[i] \in E
  BY <1>5, <1>6, ElementOfSeq
<1> QED
  BY <1>2, <1>3, <1>4, <1>6, <1>7 DEF list

\* A list has no more elements than places.
LEMMA PidsBounded ==
  ASSUME NEW list, NEW n \in Nat, DOMAIN list = 1 .. n
  PROVE  IsFiniteSet(Pids(list)) /\ Cardinality(Pids(list)) <= n
<1> DEFINE f == [i \in 1 .. n |-> list[i].pid]
<1>1. f \in Surjection(1 .. n, Pids(list))
  BY DEF Surjection, Pids
<1>2. IsFiniteSet(1 .. n) /\ Cardinality(1 .. n) = n
  <2>1. 1 \in Int /\ n \in Int
    OBVIOUS
  <2>2. Cardinality(1 .. n) = IF 1 > n THEN 0 ELSE n - 1 + 1
    BY <2>1, FS_Interval, Zenon
  <2> QED
    BY <2>1, <2>2, FS_Interval
<1> HIDE DEF f
<1> QED
  BY <1>1, <1>2, FS_Surjection

LEMMA ContainersTyped ==
  ASSUME NEW h \in Hosts
  PROVE  \A i \in DOMAIN CollectContainers(h) : CollectContainers(h)[i].memory \in 0 .. Words - 1
<1>1. PICK b \in BOOLEAN : h.containers = <<Box(b)>>
  BY HostFields
<1>2. DOMAIN h.containers = {1} /\ h.containers[1] = Box(b)
  BY <1>1
<1>3. Container(Box(b)).memory \in 0 .. Words - 1
  <2>1. MemUsage(2, 1) \in 0 .. Words - 1
    <3>1. 2 - 1 \in Int /\ Words \in Nat \ {0}
      BY Limits
    <3> QED
      BY <3>1 DEF MemUsage
  <2>2. Container(Box(b)).memory = IF b THEN MemUsage(2, 1) ELSE 0
    BY DEF Container, Box
  <2> QED
    BY <2>1, <2>2, Limits
<1> QED
  BY <1>2, <1>3 DEF CollectContainers

\* The figures of the processes: no more than they have read (ReadsAreReal).
LEMMA ReadIsReal ==
  ASSUME NEW p \in Process, NEW q \in Process, Succeeds(q, p), q.io, NEW h \in Hosts,
         h.processes[p.pid] = q
  PROVE  Gain(ReadOf(p), ReadOf(q)) <= ReadSince(p, h) /\ 0 <= ReadSince(p, h)
BY DEF Process, Succeeds, ReadOf, ReadSince, Gain, Larger

LEMMA SnapshotHandled ==
  ASSUME NEW h \in Hosts, NEW now \in Int, listings[1] \in Hosts, PrevInv,
         HandleProcessSnapshot(CollectProcesses(h), now)
  PROVE  /\ \A i \in DOMAIN table' : table'[i].gain \in Nat /\ table'[i].pid \in DOMAIN prev'
         /\ Len(table') <= MaxListed /\ Cardinality(DOMAIN prev') <= MaxListed
         /\ DOMAIN prev' \subseteq 1 .. 3
         /\ \A pid \in DOMAIN prev' : prev'[pid].read = ReadOf(h.processes[pid])
         /\ Before(listings[1], h) => \A i \in DOMAIN table' :
              LET p == h.processes[table'[i].pid] IN
                \/ table'[i].gain <= ReadSince(p, listings[1])
                \/ ~ listings[1].processes[table'[i].pid].io
<1> DEFINE list == CollectProcesses(h)
<1>1. /\ Len(list) \in Nat /\ Len(list) <= MaxListed /\ DOMAIN list = 1 .. Len(list)
      /\ \A i \in DOMAIN list :
           list[i].pid \in 1 .. 3 /\ list[i].read = ReadOf(h.processes[list[i].pid])
  BY SnapshotSays
<1>2. /\ table' = [i \in DOMAIN list |-> [pid |-> list[i].pid, gain |-> Reads(list[i], now)]]
      /\ DOMAIN prev' = Pids(list)
      /\ \A pid \in Pids(list) :
           prev'[pid].read = (CHOOSE p \in Range(list) : p.pid = pid).read
  BY DEF HandleProcessSnapshot, Kept
<1> HIDE DEF list
<1>3. /\ \A i \in 1 .. 3 : h.processes[i] \in Process /\ h.processes[i].pid = i
      /\ \A i \in 1 .. 3 : listings[1].processes[i] \in Process
  BY HostFields
<1>4. ASSUME NEW i \in 1 .. 3 PROVE ReadOf(h.processes[i]) \in Nat /\ ReadOf(listings[1].processes[i]) \in Nat
  BY <1>3 DEF ReadOf, Process
<1>5. ASSUME NEW i \in DOMAIN list
      PROVE  /\ Reads(list[i], now) \in Nat
             /\ Reads(list[i], now) # 0 =>
                  Reads(list[i], now) = Gain(ReadOf(h.processes[list[i].pid]),
                                             ReadOf(listings[1].processes[list[i].pid]))
  <2>1. CASE list[i].pid \in DOMAIN prev
    <3>1. prev[list[i].pid].read = ReadOf(listings[1].processes[list[i].pid])
      BY <2>1 DEF PrevInv
    <3>2. /\ list[i].read = ReadOf(h.processes[list[i].pid])
          /\ list[i].read \in Nat /\ prev[list[i].pid].read \in Nat
      BY <1>1, <1>4, <3>1
    <3>3. Gain(list[i].read, prev[list[i].pid].read) \in Nat
      BY <3>2 DEF Gain, Larger
    <3> QED
      BY <3>1, <3>2, <3>3 DEF Reads
  <2>2. CASE list[i].pid \notin DOMAIN prev
    BY <2>2 DEF Reads
  <2> QED
    BY <2>1, <2>2
<1>6. /\ \A i \in DOMAIN table' : table'[i].gain \in Nat /\ table'[i].pid \in DOMAIN prev'
      /\ Len(table') <= MaxListed
  <2>1. DOMAIN table' = 1 .. Len(list) /\ Len(table') = Len(list)
    BY <1>1, <1>2
  <2>2. ASSUME NEW i \in DOMAIN list
        PROVE  table'[i].gain \in Nat /\ table'[i].pid \in DOMAIN prev'
    BY <1>2, <1>5 DEF Pids
  <2> QED
    BY <1>1, <2>1, <2>2
<1>7. DOMAIN prev' \subseteq 1 .. 3 /\ Cardinality(DOMAIN prev') <= MaxListed
  <2>1. IsFiniteSet(Pids(list)) /\ Cardinality(Pids(list)) <= Len(list)
    BY <1>1, PidsBounded
  <2>2. Cardinality(Pids(list)) \in Nat
    BY <2>1, FS_CardinalityType
  <2>3. Pids(list) \subseteq 1 .. 3
    BY <1>1 DEF Pids
  <2> QED
    BY <1>1, <1>2, <2>1, <2>2, <2>3, Limits
<1>8. ASSUME NEW pid \in DOMAIN prev' PROVE prev'[pid].read = ReadOf(h.processes[pid])
  <2>1. \E p \in Range(list) : p.pid = pid
    BY <1>2 DEF Pids, Range
  <2>2. PICK p \in Range(list) : p.pid = pid /\ prev'[pid].read = p.read
    BY <1>2, <2>1
  <2> QED
    BY <1>1, <2>2 DEF Range
<1>9. ASSUME Before(listings[1], h), NEW i \in DOMAIN table'
      PROVE  \/ table'[i].gain <= ReadSince(h.processes[table'[i].pid], listings[1])
             \/ ~ listings[1].processes[table'[i].pid].io
  <2>1. /\ i \in DOMAIN list /\ table'[i].pid = list[i].pid
        /\ table'[i].gain = Reads(list[i], now)
    BY <1>2
  <2> DEFINE p == h.processes[list[i].pid]
             q == listings[1].processes[list[i].pid]
  <2>2. /\ list[i].pid \in 1 .. 3 /\ p \in Process /\ q \in Process
        /\ p.pid = list[i].pid /\ Succeeds(q, p)
    BY <1>1, <1>3, <1>9, <2>1 DEF Before
  <2> SUFFICES ASSUME q.io PROVE Reads(list[i], now) <= ReadSince(p, listings[1])
    BY <2>1
  <2> HIDE DEF p, q
  <2>3. /\ Gain(ReadOf(p), ReadOf(q)) <= ReadSince(p, listings[1])
        /\ 0 <= ReadSince(p, listings[1])
    BY <2>2, ReadIsReal DEF q
  <2> QED
    BY <1>5, <2>1, <2>3 DEF p, q
<1> QED
  BY <1>6, <1>7, <1>8, <1>9

-----------------------------------------------------------------------------
(* The batches on their way.                                               *)

LEMMA BeforeReflexive ==
  ASSUME NEW h \in Hosts
  PROVE  Before(h, h)
<1>1. h.truth.resets \in Nat /\ \A c \in Counters : h.truth.moved[c] \in Nat /\ Counter(h, c) \in Nat
  BY HostFields DEF Counter
<1>2. \A i \in 1 .. 3 : h.processes[i] \in Process
  BY HostFields
<1> QED
  BY <1>1, <1>2 DEF Before, Told, Succeeds, Process

\* What comes before a host comes before a later one.
LEMMA ToldLater ==
  ASSUME NEW v \in Nat, NEW t \in Truth, NEW c \in Counters, NEW g \in Hosts, NEW h \in Hosts,
         Told(v, t, c, g), Before(g, h)
  PROVE  Told(v, t, c, h)
<1>1. /\ t.moved[c] \in Nat /\ t.resets \in Nat
  BY DEF Truth
<1>2. /\ g.truth.moved[c] \in Nat /\ g.truth.resets \in Nat /\ Counter(g, c) \in Nat
      /\ h.truth.moved[c] \in Nat /\ h.truth.resets \in Nat /\ Counter(h, c) \in Nat
  BY HostFields DEF Counter
<1> QED
  BY <1>1, <1>2 DEF Told, Before

LEMMA FutureHosts ==
  ASSUME WireInv
  PROVE  Future \subseteq Hosts /\ \A h \in Future : h.time \in Nat /\ h.time <= ticks
<1>1. /\ host \in Hosts /\ host.time = ticks /\ wire \in Seq(Hosts)
      /\ \A h \in Range(wire) : h.time <= ticks
  BY DEF WireInv
<1>2. Range(wire) \subseteq Hosts
  BY <1>1, RangeOfSeq
<1>3. \A h \in Hosts : h.time \in Nat
  BY HostFields
<1> QED
  BY <1>1, <1>2, <1>3 DEF Future

LEMMA TailKept ==
  ASSUME WireInv, ticks \in Nat, wire # <<>>, wire' = Tail(wire), UNCHANGED <<host, ticks>>,
         overtaken' = overtaken
  PROVE  /\ WireInv' /\ Future' \subseteq Future /\ Head(wire) \in Future
         /\ overtaken \/ \A g \in Future' : Before(Head(wire), g)
<1>1. /\ host \in Hosts /\ host.time = ticks /\ wire \in Seq(Hosts) /\ Len(wire) <= ticks
      /\ \A h \in Range(wire) : h.time <= ticks
      /\ overtaken \/ \A i \in DOMAIN wire :
           Before(wire[i], host) /\ \A j \in i + 1 .. Len(wire) : Before(wire[i], wire[j])
  BY DEF WireInv
<1>2. /\ wire' \in Seq(Hosts) /\ Len(wire') = Len(wire) - 1 /\ Len(wire) \in Nat \ {0}
      /\ \A i \in 1 .. Len(wire') : wire'[i] = wire[i + 1]
      /\ DOMAIN wire = 1 .. Len(wire) /\ DOMAIN wire' = 1 .. Len(wire')
  <2>1. wire' \in Seq(Hosts) /\ Len(wire') = Len(wire) - 1
    BY <1>1, HeadTailProperties
  <2> QED
    BY <1>1, <2>1, HeadTailProperties, LenProperties, EmptySeq
<1>3. \A i \in DOMAIN wire' : i + 1 \in DOMAIN wire /\ wire'[i] = wire[i + 1]
  BY <1>2
<1>4. Range(wire') \subseteq Range(wire)
  BY <1>3 DEF Range
<1>5. ASSUME ~ overtaken, NEW i \in DOMAIN wire'
      PROVE  Before(wire'[i], host') /\ \A j \in i + 1 .. Len(wire') : Before(wire'[i], wire'[j])
  <2>1. Before(wire'[i], host')
    BY <1>1, <1>3, <1>5
  <2>2. ASSUME NEW j \in i + 1 .. Len(wire') PROVE Before(wire'[i], wire'[j])
    <3>1. j + 1 \in (i + 1) + 1 .. Len(wire) /\ wire'[j] = wire[j + 1]
      BY <1>2, <1>3
    <3> QED
      BY <1>1, <1>3, <1>5, <3>1
  <2> QED
    BY <2>1, <2>2
<1>6. WireInv'
  BY <1>1, <1>2, <1>4, <1>5 DEF WireInv
<1>7. Head(wire) = wire[1] /\ 1 \in DOMAIN wire /\ Head(wire) \in Range(wire)
  BY <1>1, <1>2 DEF Range
<1>8. ASSUME ~ overtaken, NEW g \in Future' PROVE Before(Head(wire), g)
  <2>1. CASE g = host'
    BY <1>1, <1>7, <1>8, <2>1
  <2>2. CASE g \in Range(wire')
    <3>1. PICK i \in DOMAIN wire' : g = wire'[i]
      BY <2>2 DEF Range
    <3>2. i + 1 \in 1 + 1 .. Len(wire) /\ g = wire[i + 1]
      BY <1>2, <1>3, <3>1
    <3> QED
      BY <1>1, <1>7, <1>8, <3>2
  <2> QED
    BY <2>1, <2>2 DEF Future
<1> QED
  BY <1>4, <1>6, <1>7, <1>8 DEF Future

-----------------------------------------------------------------------------
(* The arrival of a batch.                                                 *)

\* The part of TypeOK that is about the page.
PageTyped ==
  /\ values \in [Keys -> [time : 0 .. MaxTicks, val : Nat]]
  /\ text \in [Places -> SUBSET (0 .. MaxTicks)]
  /\ history \in [Counters -> Seq(Point)]
  /\ \A i \in DOMAIN table : table[i].gain \in Nat /\ table[i].pid \in DOMAIN prev
  /\ Len(table) <= MaxListed /\ Cardinality(DOMAIN prev) <= MaxListed
  /\ \A i \in DOMAIN boxes : boxes[i].memory \in 0 .. Words - 1

LEMMA ShowsTyped ==
  ASSUME PageTyped PROVE Shows \in Pages
BY DEF PageTyped, Shows, Pages, Stamped

LEMMA ArriveTyped ==
  ASSUME NEW h \in Hosts, h.time \in 0 .. MaxTicks, NEW lost, NEW snapshots,
         Arrive(h, lost, snapshots), clock \in Int, PageTyped, PrevInv,
         listings \in [1 .. 2 -> Hosts]
  PROVE  /\ clock' \in Int /\ PageTyped' /\ PrevInv' /\ Current'
         /\ last'.host \in Hosts /\ listings' \in [1 .. 2 -> Hosts]
<1> DEFINE pg == AfterRows(h, lost, clock')
<1>1. clock' \in Int
  BY DEF Arrive
<1>2. /\ values' = pg.values /\ text' = pg.text /\ history' = pg.history
      /\ last' = [host |-> h, whole |-> lost = {}]
      /\ boxes' = CollectContainers(h) \/ boxes' = boxes
  BY DEF Arrive
<1>3. PICK f : Passes(f, h, lost, clock')
  BY <1>1, Batch, ShowsTyped
<1>4. pg \in Pages
  <2>1. Len(CollectMetrics(h)) \in Nat
    BY RowsAre
  <2> QED
    BY <1>3, <2>1 DEF Passes
<1>5. Current'
  <2> SUFFICES ASSUME lost = {}, NEW p \in Places, Answers(p, h)
               PROVE  text'[p] = {h.time} \/ (p = Swap /\ h.swapUsed = 0)
    BY <1>2 DEF Current
  <2>1. Passes(f, h, {}, clock')
    BY <1>3
  <2> QED
    BY <1>1, <1>2, <2>1, BatchShown
<1>6. /\ \A i \in DOMAIN table' : table'[i].gain \in Nat /\ table'[i].pid \in DOMAIN prev'
      /\ Len(table') <= MaxListed /\ Cardinality(DOMAIN prev') <= MaxListed
      /\ PrevInv' /\ listings' \in [1 .. 2 -> Hosts]
  <2>1. CASE "processes" \in snapshots
    <3>1. /\ HandleProcessSnapshot(CollectProcesses(h), clock')
          /\ listings' = <<h, listings[1]>>
      BY <2>1 DEF Arrive
    <3>2. listings[1] \in Hosts
      OBVIOUS
    <3>3. listings' \in [1 .. 2 -> Hosts] /\ listings'[1] = h
      BY <3>1, <3>2
    <3> QED
      BY <1>1, <3>1, <3>2, <3>3, SnapshotHandled DEF PrevInv
  <2>2. CASE "processes" \notin snapshots
    <3>1. UNCHANGED <<table, prev, listings>>
      BY <2>2 DEF Arrive
    <3> QED
      BY <3>1 DEF PageTyped, PrevInv
  <2> QED
    BY <2>1, <2>2
<1>7. \A i \in DOMAIN boxes' : boxes'[i].memory \in 0 .. Words - 1
  BY <1>2, ContainersTyped DEF PageTyped
<1> HIDE DEF pg
<1>8. /\ values' \in [Keys -> [time : 0 .. MaxTicks, val : Nat]]
      /\ text' \in [Places -> SUBSET (0 .. MaxTicks)]
      /\ history' \in [Counters -> Seq(Point)]
  BY <1>2, <1>4 DEF Pages, Stamped
<1> QED
  BY <1>1, <1>2, <1>5, <1>6, <1>7, <1>8 DEF PageTyped

\* In order, what the page shows stays real, and comes before what may arrive.
LEMMA ArriveReal ==
  ASSUME NEW h \in Hosts, h.time \in 0 .. MaxTicks, NEW lost, NEW snapshots,
         Arrive(h, lost, snapshots), clock \in Int, PageTyped, PrevInv,
         listings \in [1 .. 2 -> Hosts],
         NEW F, NoneBefore(F, h), PageReal(Shows, F), Before(listings[1], h), ReadsAreReal,
         ~ overtaken
  PROVE  PageReal(Shows', F) /\ ReadsAreReal'
<1>1. clock' \in Int
  BY DEF Arrive
<1>2. PICK f : Passes(f, h, lost, clock')
  BY <1>1, Batch, ShowsTyped
<1>3. PageReal(AfterRows(h, lost, clock'), F)
  BY <1>1, <1>2, BatchReal
<1>4. PageReal(Shows', F)
  <2>1. Shows'.history = AfterRows(h, lost, clock').history
    BY DEF Arrive, Shows
  <2> QED
    BY <1>3, <2>1 DEF PageReal
<1>5. ReadsAreReal'
  <2>1. CASE "processes" \in snapshots
    <3>1. /\ HandleProcessSnapshot(CollectProcesses(h), clock')
          /\ listings' = <<h, listings[1]>> /\ listings[1] \in Hosts
      BY <2>1 DEF Arrive
    <3>2. listings'[1] = h /\ listings'[2] = listings[1]
      BY <3>1
    <3>3. \A i \in DOMAIN table' :
            LET p == h.processes[table'[i].pid] IN
              \/ table'[i].gain <= ReadSince(p, listings[1])
              \/ ~ listings[1].processes[table'[i].pid].io
      BY <1>1, <3>1, SnapshotHandled
    <3> QED
      BY <3>2, <3>3 DEF ReadsAreReal
  <2>2. CASE "processes" \notin snapshots
    <3>1. UNCHANGED <<table, listings>>
      BY <2>2 DEF Arrive
    <3> QED
      BY <3>1 DEF ReadsAreReal
  <2> QED
    BY <2>1, <2>2
<1> QED
  BY <1>4, <1>5

-----------------------------------------------------------------------------
(* IInv is inductive.                                                      *)

LEMMA Typed ==
  TypeOK <=> /\ host.time = ticks /\ ticks \in 0 .. MaxTicks /\ agent \in {"up", "down"}
             /\ troubles \in 0 .. MaxTroubles /\ Len(wire) <= MaxTicks /\ clock \in Int
             /\ PageTyped /\ overtaken \in BOOLEAN
BY DEF TypeOK, PageTyped

\* The rates are real, and the last points come before the hosts in F.
LEMMA PageIsReal ==
  ASSUME NEW F
  PROVE  PageReal(Shows, F) <=>
           \A c \in Counters : RealRates(history[c], c) /\ Precede(history[c], c, F)
BY DEF PageReal, Shows

LEMMA RealPage ==
  /\ PointsInv <=> overtaken \/ \A c \in Counters : Precede(history[c], c, Future)
  /\ RatesAreReal <=> overtaken \/ \A c \in Counters : RealRates(history[c], c)
BY DEF PointsInv, RatesAreReal, Precede, RealRates

LEMMA Troubled ==
  ASSUME NEW n \in Nat, Trouble(n), troubles \in 0 .. MaxTroubles
  PROVE  troubles' \in 0 .. MaxTroubles
BY Limits DEF Trouble

LEMMA EmptyOrOne ==
  ASSUME NEW S, NEW T \in {{}} \cup {{x} : x \in S}
  PROVE  IsFiniteSet(T) /\ Cardinality(T) \in Nat
<1>1. CASE T = {}
  BY <1>1, FS_EmptySet
<1>2. CASE T # {}
  <2>1. PICK x \in S : T = {x}
    BY <1>2
  <2> QED
    BY <2>1, FS_Singleton
<1> QED
  BY <1>1, <1>2

LEMMA InitInv == Init => IInv
<1> SUFFICES ASSUME Init PROVE IInv
  OBVIOUS
<1> USE DEF Init
<1>1. Quiet \in Hosts /\ Quiet.time = 0 /\ Before(Quiet, Quiet)
  BY QuietIsHost, BeforeReflexive
<1>2. Future = {Quiet} /\ Range(wire) = {} /\ Len(wire) = 0 /\ wire \in Seq(Hosts)
  BY DEF Future, Range
<1>3. PageTyped
  <2>1. DOMAIN prev = {} /\ Cardinality({}) = 0 /\ Len(table) = 0
    BY FS_EmptySet
  <2>2. values \in [Keys -> [time : 0 .. MaxTicks, val : Nat]]
    BY Limits
  <2> QED
    BY <2>1, <2>2, Limits DEF PageTyped
<1>4. TypeOK
  <2>1. /\ host.time = ticks /\ ticks \in 0 .. MaxTicks /\ agent \in {"up", "down"}
        /\ troubles \in 0 .. MaxTroubles /\ clock \in Int /\ overtaken \in BOOLEAN
    <3>1. 0 \in 0 .. MaxTicks /\ 0 \in 0 .. MaxTroubles /\ 0 \in Int
      BY Limits
    <3>2. host.time = ticks
      BY <1>1
    <3> QED
      BY <3>1, <3>2
  <2>2. Len(wire) <= MaxTicks
    BY <1>2, Limits
  <2> QED
    BY <1>3, <2>1, <2>2, Typed
<1>5. WireInv
  BY <1>1, <1>2 DEF WireInv
<1>6. PastInv
  BY <1>1, <1>2 DEF PastInv
<1>7. PointsInv /\ PrevInv
  BY DEF PointsInv, PrevInv
<1>8. Current /\ RatesAreReal /\ ReadsAreReal
  BY DEF Current, RatesAreReal, ReadsAreReal
<1> QED
  BY <1>4, <1>5, <1>6, <1>7, <1>8 DEF IInv

\* A step that leaves the page alone.
LEMMA PageKept ==
  ASSUME IInv, UNCHANGED <<page, past>>
  PROVE  PageTyped' /\ PrevInv' /\ Current' /\ RatesAreReal' /\ ReadsAreReal'
<1>1. UNCHANGED <<values, text, history, prev, table, boxes, last, listings, overtaken>>
  BY DEF page, past
<1>2. PageTyped
  BY Typed DEF IInv
<1> QED
  BY <1>1, <1>2 DEF IInv, PageTyped, PrevInv, Current, RatesAreReal, ReadsAreReal, ReadSince

\* A step that leaves the page alone, and brings no batch that was not to come.
LEMMA FutureKept ==
  ASSUME IInv, UNCHANGED <<page, past>>, Future' \subseteq Future
  PROVE  PastInv' /\ PointsInv'
<1>1. UNCHANGED <<history, last, listings, overtaken>>
  BY DEF page, past
<1>2. PastInv /\ PointsInv
  BY DEF IInv
<1>3. PastInv'
  BY <1>1, <1>2 DEF PastInv
<1>4. PointsInv'
  BY <1>1, <1>2 DEF PointsInv
<1> QED
  BY <1>3, <1>4

LEMMA TickInv ==
  ASSUME IInv, NEW d \in 1 .. 2, NEW odd \in Oddities,
         NEW fails \in {{}} \cup {{f} : f \in Faults}, Tick(d, odd, fails)
  PROVE  IInv'
<1>1. /\ TypeOK /\ WireInv /\ PastInv /\ PointsInv
      /\ ticks' = ticks + 1 /\ ticks < MaxTicks /\ ticks \in Nat /\ UNCHANGED <<clock, page, past>>
      /\ host' = After(d, odd, fails) /\ agent' \in {"up", "down"}
      /\ Trouble(Cardinality(fails) + IF odd = "none" THEN 0 ELSE 1)
  BY Limits, Typed DEF IInv, Tick
<1>2. wire' = wire \/ wire' = Append(wire, host')
  BY DEF Tick
<1>3. /\ host \in Hosts /\ host.time = ticks /\ wire \in Seq(Hosts) /\ Len(wire) <= ticks
      /\ \A h \in Range(wire) : h.time <= ticks
      /\ overtaken \/ \A i \in DOMAIN wire :
           Before(wire[i], host) /\ \A j \in i + 1 .. Len(wire) : Before(wire[i], wire[j])
  BY <1>1 DEF WireInv
<1>4. host' \in Hosts /\ host'.time = ticks' /\ Before(host, host')
  <2>1. fails \in SUBSET Faults
    OBVIOUS
  <2> QED
    BY <1>1, <1>3, <2>1, AfterIsHost
<1>5. /\ UNCHANGED <<history, listings, last, overtaken>>
      /\ PageTyped' /\ PrevInv' /\ Current' /\ RatesAreReal' /\ ReadsAreReal'
  BY <1>1, PageKept DEF page, past
<1>6. troubles' \in 0 .. MaxTroubles
  <2>1. Cardinality(fails) \in Nat
    BY EmptyOrOne
  <2>2. (Cardinality(fails) + IF odd = "none" THEN 0 ELSE 1) \in Nat
    BY <2>1
  <2>3. troubles \in 0 .. MaxTroubles
    BY <1>1, Typed
  <2> QED
    BY <1>1, <2>2, <2>3, Troubled
<1>7. /\ wire' \in Seq(Hosts) /\ Len(wire') <= ticks' /\ Len(wire) \in Nat
      /\ DOMAIN wire = 1 .. Len(wire) /\ DOMAIN wire' = 1 .. Len(wire')
      /\ Len(wire') = Len(wire) \/ Len(wire') = Len(wire) + 1
      /\ \A i \in DOMAIN wire' :
           (i \in DOMAIN wire /\ wire'[i] = wire[i]) \/ (i = Len(wire) + 1 /\ wire'[i] = host')
  <2>1. Len(wire) \in Nat /\ DOMAIN wire = 1 .. Len(wire)
    BY <1>3, LenProperties
  <2>2. CASE wire' = wire
    BY <1>1, <1>3, <2>1, <2>2
  <2>3. CASE wire' = Append(wire, host')
    <3>1. /\ wire' \in Seq(Hosts) /\ Len(wire') = Len(wire) + 1
          /\ \A i \in 1 .. Len(wire) : wire'[i] = wire[i]
          /\ wire'[Len(wire) + 1] = host'
      BY <1>3, <1>4, <2>3, AppendProperties
    <3> QED
      BY <1>1, <1>3, <2>1, <3>1
  <2> QED
    BY <1>2, <2>2, <2>3
<1>8. Future' \subseteq Future \cup {host'} /\ Range(wire') \subseteq Range(wire) \cup {host'}
  BY <1>7 DEF Future, Range
<1>9. WireInv'
  <2>1. \A h \in Range(wire') : h.time <= ticks'
    <3>1. ASSUME NEW h \in Range(wire) PROVE h.time <= ticks'
      <4>1. h.time \in Nat /\ h.time <= ticks
        BY <1>1, FutureHosts DEF Future
      <4> QED
        BY <1>1, <4>1
    <3>2. host'.time <= ticks'
      BY <1>1, <1>4
    <3> QED
      BY <1>8, <3>1, <3>2
  <2>2. ASSUME ~ overtaken, NEW i \in DOMAIN wire'
        PROVE  Before(wire'[i], host') /\ \A j \in i + 1 .. Len(wire') : Before(wire'[i], wire'[j])
    <3>0. /\ i \in 1 .. Len(wire') /\ Len(wire) \in Nat /\ Len(wire') \in Nat
          /\ Len(wire') <= Len(wire) + 1
      <4>1. Len(wire') \in Nat
        BY <1>7, LenProperties
      <4>2. i \in 1 .. Len(wire') /\ Len(wire) \in Nat
        BY <1>7
      <4>3. Len(wire') = Len(wire) \/ Len(wire') = Len(wire) + 1
        BY <1>7
      <4> QED
        BY <4>1, <4>2, <4>3
    <3>1. CASE i = Len(wire) + 1 /\ wire'[i] = host'
      <4>1. i + 1 .. Len(wire') = {}
        BY <3>0, <3>1
      <4> QED
        BY <1>4, <3>1, <4>1, BeforeReflexive
    <3>2. CASE i \in DOMAIN wire /\ wire'[i] = wire[i]
      <4>1. wire[i] \in Hosts /\ Before(wire[i], host)
        BY <1>3, <1>7, <2>2, <3>2, ElementOfSeq
      <4>2. Before(wire'[i], host')
        BY <1>3, <1>4, <3>2, <4>1, BeforeTransitive
      <4>3. ASSUME NEW j \in i + 1 .. Len(wire') PROVE Before(wire'[i], wire'[j])
        <5>1. j \in DOMAIN wire'
          <6>1. j \in 1 .. Len(wire')
            BY <3>0
          <6> QED
            BY <1>7, <6>1
        <5>2. CASE j \in DOMAIN wire /\ wire'[j] = wire[j]
          <6>1. j \in i + 1 .. Len(wire)
            <7>1. j \in 1 .. Len(wire)
              BY <1>7, <5>2
            <7> QED
              BY <3>0, <7>1
          <6> QED
            BY <1>3, <2>2, <3>2, <5>2, <6>1
        <5>3. CASE wire'[j] = host'
          BY <4>2, <5>3
        <5> QED
          BY <1>7, <5>1, <5>2, <5>3
      <4> QED
        BY <4>2, <4>3
    <3> QED
      BY <1>7, <3>1, <3>2
  <2>3. overtaken' \/ \A i \in DOMAIN wire' :
          Before(wire'[i], host') /\ \A j \in i + 1 .. Len(wire') : Before(wire'[i], wire'[j])
    BY <1>5, <2>2
  <2> QED
    BY <1>4, <1>7, <2>1, <2>3 DEF WireInv
<1>10. PastInv'
  <2>1. last.host \in Hosts /\ listings \in [1 .. 2 -> Hosts]
        /\ (overtaken \/ \A h \in Future : Before(listings[1], h))
    BY <1>1 DEF PastInv
  <2>2. ASSUME ~ overtaken, NEW h \in Future' PROVE Before(listings[1], h)
    <3>1. host \in Future /\ listings[1] \in Hosts
      BY <2>1 DEF Future
    <3>2. Before(listings[1], host')
      BY <1>3, <1>4, <2>1, <2>2, <3>1, BeforeTransitive
    <3> QED
      BY <1>8, <2>1, <2>2, <3>2
  <2> QED
    BY <1>5, <2>1, <2>2 DEF PastInv
<1>11. PointsInv'
  <2>1. ASSUME ~ overtaken, NEW c \in Counters, history[c] # <<>>, NEW h \in Future'
        PROVE  Told(Last(history[c]).val, Last(history[c]).truth, c, h)
    <3>1. \A g \in Future : Told(Last(history[c]).val, Last(history[c]).truth, c, g)
      BY <1>1, <2>1 DEF PointsInv
    <3>2. Last(history[c]).val \in Nat /\ Last(history[c]).truth \in Truth
      <4>1. history[c] \in Seq(Point)
        BY <1>1, Typed DEF PageTyped
      <4>2. Last(history[c]) \in Point
        BY <2>1, <4>1, EmptySeq, ElementOfSeq DEF Last
      <4> QED
        BY <4>2 DEF Point
    <3>3. host \in Future
      BY DEF Future
    <3>4. Told(Last(history[c]).val, Last(history[c]).truth, c, host')
      BY <1>3, <1>4, <3>1, <3>2, <3>3, ToldLater
    <3> QED
      BY <1>8, <3>1, <3>4
  <2> QED
    BY <1>5, <2>1 DEF PointsInv
<1>12. TypeOK'
  <2>1. /\ ticks' \in 0 .. MaxTicks /\ Len(wire') <= MaxTicks /\ clock' \in Int
        /\ overtaken' \in BOOLEAN
    <3>1. /\ ticks \in Nat /\ ticks < MaxTicks /\ ticks' = ticks + 1 /\ UNCHANGED clock
          /\ Len(wire') \in Nat /\ Len(wire') <= ticks'
      <4>1. Len(wire') \in Nat
        BY <1>7, LenProperties
      <4> QED
        BY <1>1, <1>7, <4>1
    <3>2. clock \in Int /\ overtaken \in BOOLEAN
      BY <1>1 DEF TypeOK
    <3> QED
      BY <1>5, <3>1, <3>2, Limits
  <2> QED
    BY <1>1, <1>4, <1>5, <1>6, <2>1 DEF TypeOK, PageTyped
<1> QED
  BY <1>5, <1>9, <1>10, <1>11, <1>12 DEF IInv

LEMMA AgentRestartInv ==
  ASSUME IInv, AgentRestart
  PROVE  IInv'
<1>1. /\ agent' = "up" /\ UNCHANGED <<host, ticks, troubles, wire, clock, page, past>>
      /\ TypeOK /\ WireInv
  BY DEF AgentRestart, IInv
<1>2. /\ PageTyped' /\ PrevInv' /\ Current' /\ RatesAreReal' /\ ReadsAreReal'
      /\ PastInv' /\ PointsInv' /\ overtaken' = overtaken
  BY <1>1, PageKept, FutureKept DEF Future, past
<1>3. TypeOK'
  BY <1>1, <1>2 DEF TypeOK, PageTyped
<1>4. WireInv'
  BY <1>1, <1>2 DEF WireInv
<1> QED
  BY <1>2, <1>3, <1>4 DEF IInv

LEMMA LoseInv ==
  ASSUME IInv, Lose
  PROVE  IInv'
<1>1. /\ wire # <<>> /\ wire' = Tail(wire) /\ UNCHANGED <<host, agent, ticks, clock, page, past>>
      /\ Trouble(1) /\ TypeOK /\ WireInv /\ ticks \in Nat /\ troubles \in 0 .. MaxTroubles
      /\ overtaken' = overtaken
  BY Limits DEF Lose, IInv, TypeOK, past
<1>2. WireInv' /\ Future' \subseteq Future
  BY <1>1, TailKept
<1>3. /\ PageTyped' /\ PrevInv' /\ Current' /\ RatesAreReal' /\ ReadsAreReal'
      /\ PastInv' /\ PointsInv'
  BY <1>1, <1>2, PageKept, FutureKept
<1>4. TypeOK'
  <2>1. troubles' \in 0 .. MaxTroubles
    BY <1>1, Troubled
  <2>2. Len(wire') <= MaxTicks
    <3>1. Len(wire') <= ticks /\ wire' \in Seq(Hosts)
      BY <1>1, <1>2 DEF WireInv
    <3>2. Len(wire') \in Nat
      BY <3>1, LenProperties
    <3> QED
      BY <1>1, <3>1, <3>2, Limits DEF TypeOK
  <2> QED
    BY <1>1, <1>3, <2>1, <2>2 DEF TypeOK, PageTyped
<1> QED
  BY <1>2, <1>3, <1>4 DEF IInv

LEMMA ArriveNextInv ==
  ASSUME IInv, NEW lost \in {{}} \cup {{k} : k \in Keys \cup CounterKeys},
         NEW snapshots \in SUBSET {"processes", "docker"}, ArriveNext(lost, snapshots)
  PROVE  IInv'
<1> DEFINE h == Head(wire)
<1>1. /\ TypeOK /\ WireInv /\ PastInv /\ PointsInv /\ PrevInv /\ RatesAreReal /\ ReadsAreReal
      /\ wire # <<>> /\ wire' = Tail(wire) /\ overtaken' = overtaken
      /\ Arrive(h, lost, snapshots) /\ UNCHANGED <<host, agent, ticks>>
      /\ Trouble(Cardinality(lost) + Cardinality(Snapshots(h) \ snapshots))
  BY DEF ArriveNext, Arrive, IInv
<1>2. /\ ticks \in Nat /\ ticks <= MaxTicks /\ troubles \in 0 .. MaxTroubles /\ clock \in Int
      /\ PageTyped /\ overtaken \in BOOLEAN /\ agent \in {"up", "down"}
  <2>1. /\ ticks \in 0 .. MaxTicks /\ troubles \in 0 .. MaxTroubles /\ clock \in Int
        /\ PageTyped /\ overtaken \in BOOLEAN /\ agent \in {"up", "down"}
    BY <1>1, Typed
  <2> QED
    BY <2>1, Limits
<1>3. /\ WireInv' /\ Future' \subseteq Future /\ h \in Future
      /\ overtaken \/ \A g \in Future' : Before(h, g)
  BY <1>1, <1>2, TailKept
<1>4. Future \subseteq Hosts /\ h \in Hosts /\ h.time \in 0 .. MaxTicks
  <2>1. Future \subseteq Hosts /\ h.time \in Nat /\ h.time <= ticks
    BY <1>1, <1>3, FutureHosts
  <2> QED
    BY <1>2, <1>3, <2>1, Limits
<1>5. /\ listings \in [1 .. 2 -> Hosts]
      /\ overtaken \/ \A g \in Future : Before(listings[1], g)
  BY <1>1 DEF PastInv
<1> HIDE DEF h
<1>6. /\ clock' \in Int /\ PageTyped' /\ PrevInv' /\ Current'
      /\ last'.host \in Hosts /\ listings' \in [1 .. 2 -> Hosts]
  BY <1>1, <1>2, <1>4, <1>5, ArriveTyped
<1>7. PastInv'
  <2>1. listings'[1] = h \/ listings'[1] = listings[1]
    <3>1. listings' = <<h, listings[1]>> \/ listings' = listings
      BY <1>1 DEF Arrive
    <3> QED
      BY <3>1
  <2>2. overtaken' \/ \A g \in Future' : Before(listings'[1], g)
    BY <1>1, <1>3, <1>5, <2>1
  <2> QED
    BY <1>6, <2>2 DEF PastInv
<1>8. PointsInv' /\ RatesAreReal' /\ ReadsAreReal'
  <2>1. CASE overtaken
    BY <1>1, <2>1 DEF PointsInv, RatesAreReal, ReadsAreReal
  <2>2. CASE ~ overtaken
    <3>1. PICK F : F = Future' \cup {h}
      OBVIOUS
    <3>2. F \subseteq Future /\ F \subseteq Hosts /\ h \in F
      BY <1>3, <1>4, <3>1
    <3>3. NoneBefore(F, h)
      <4>1. \A g \in F : Before(h, g)
        BY <1>3, <1>4, <2>2, <3>1, BeforeReflexive
      <4> QED
        BY <3>2, <4>1 DEF NoneBefore, Before
    <3>4. PageReal(Shows, F)
      <4>1. \A c \in Counters : RealRates(history[c], c) /\ Precede(history[c], c, Future)
        BY <1>1, <2>2, RealPage
      <4> QED
        BY <3>2, <4>1, PageIsReal DEF Precede
    <3>5. PageReal(Shows', F) /\ ReadsAreReal'
      BY <1>1, <1>2, <1>3, <1>4, <1>5, <2>2, <3>3, <3>4, ArriveReal
    <3>6. \A c \in Counters : RealRates(history'[c], c) /\ Precede(history'[c], c, F)
      BY <3>5 DEF PageReal, Shows
    <3>7. PointsInv' /\ RatesAreReal'
      BY <3>1, <3>6 DEF PointsInv, RatesAreReal, Precede, RealRates
    <3> QED
      BY <3>5, <3>7
  <2> QED
    BY <2>1, <2>2
<1>9. TypeOK'
  <2>1. troubles' \in 0 .. MaxTroubles
    <3>1. Cardinality(lost) \in Nat
      BY EmptyOrOne
    <3>2. Cardinality(Snapshots(h) \ snapshots) \in Nat
      <4>1. IsFiniteSet({"processes", "docker"})
        <5>1. {"processes", "docker"} = {"processes"} \cup {"docker"} /\ IsFiniteSet({"processes"})
          BY FS_Singleton
        <5> QED
          BY <5>1, FS_AddElement
      <4>2. Snapshots(h) \ snapshots \in SUBSET {"processes", "docker"}
        BY DEF Snapshots
      <4> QED
        BY <4>1, <4>2, FS_Subset, FS_CardinalityType
    <3>3. Cardinality(lost) + Cardinality(Snapshots(h) \ snapshots) \in Nat
      BY <3>1, <3>2
    <3> QED
      BY <1>1, <1>2, <3>3, Troubled
  <2>2. Len(wire') <= MaxTicks
    <3>1. Len(wire') <= ticks' /\ wire' \in Seq(Hosts) /\ ticks' = ticks
      BY <1>1, <1>3 DEF WireInv
    <3>2. Len(wire') \in Nat
      BY <3>1, LenProperties
    <3> QED
      BY <1>2, <3>1, <3>2, Limits
  <2>3. host'.time = ticks' /\ ticks' \in 0 .. MaxTicks
    BY <1>1, <1>2, <1>3, Limits DEF WireInv
  <2> QED
    BY <1>1, <1>2, <1>6, <2>1, <2>2, <2>3 DEF TypeOK, PageTyped
<1> QED
  BY <1>3, <1>6, <1>7, <1>8, <1>9 DEF IInv

LEMMA Removed ==
  ASSUME NEW S, NEW s \in Seq(S), NEW i \in 1 .. Len(s)
  PROVE  RemoveAt(s, i) \in Seq(S) /\ Len(RemoveAt(s, i)) = Len(s) - 1
<1> DEFINE t == SubSeq(s, 1, i - 1)
           u == SubSeq(s, i + 1, Len(s))
<1>1. Len(s) \in Nat /\ \A j \in 1 .. Len(s) : s[j] \in S
  BY LenProperties, ElementOfSeq
<1>2. t \in Seq(S) /\ Len(t) = i - 1
  <2>1. \A j \in 1 .. i - 1 : s[j] \in S
    BY <1>1
  <2> QED
    BY <1>1, <2>1, SubSeqProperties
<1>3. u \in Seq(S) /\ Len(u) = Len(s) - i
  <2>1. \A j \in i + 1 .. Len(s) : s[j] \in S
    BY <1>1
  <2> QED
    BY <1>1, <2>1, SubSeqProperties
<1>4. RemoveAt(s, i) = t \o u
  BY DEF RemoveAt
<1> HIDE DEF t, u
<1>5. t \o u \in Seq(S) /\ Len(t \o u) = Len(t) + Len(u)
  BY <1>2, <1>3, ConcatProperties
<1>6. Len(t) + Len(u) = Len(s) - 1
  BY <1>1, <1>2, <1>3
<1> QED
  BY <1>4, <1>5, <1>6

LEMMA OvertakeInv ==
  ASSUME IInv, Overtake
  PROVE  IInv'
<1> DEFINE h == wire[2]
<1>1. /\ TypeOK /\ WireInv /\ PastInv /\ PrevInv
      /\ Len(wire) > 1 /\ wire' = RemoveAt(wire, 2) /\ overtaken' = TRUE
      /\ Arrive(h, {}, Snapshots(h)) /\ UNCHANGED <<host, agent, ticks>> /\ Trouble(1)
  BY DEF Overtake, Arrive, IInv
<1>2. /\ ticks \in 0 .. MaxTicks /\ troubles \in 0 .. MaxTroubles /\ clock \in Int
      /\ PageTyped /\ agent \in {"up", "down"}
  BY <1>1, Typed
<1>3. /\ wire \in Seq(Hosts) /\ Len(wire) \in Nat /\ DOMAIN wire = 1 .. Len(wire)
      /\ Len(wire) <= ticks /\ 2 \in 1 .. Len(wire)
  <2>1. wire \in Seq(Hosts) /\ Len(wire) <= ticks
    BY <1>1 DEF WireInv
  <2>2. Len(wire) \in Nat /\ DOMAIN wire = 1 .. Len(wire)
    BY <2>1, LenProperties
  <2> QED
    BY <1>1, <2>1, <2>2
<1>4. h \in Hosts /\ h.time \in 0 .. MaxTicks
  <2>1. h \in Future
    BY <1>3 DEF Future, Range
  <2>2. h \in Hosts /\ h.time \in Nat /\ h.time <= ticks
    BY <1>1, <2>1, FutureHosts
  <2> QED
    BY <1>2, <2>2, Limits
<1> HIDE DEF h
<1>5. /\ clock' \in Int /\ PageTyped' /\ PrevInv' /\ Current'
      /\ last'.host \in Hosts /\ listings' \in [1 .. 2 -> Hosts]
  BY <1>1, <1>2, <1>4, ArriveTyped DEF PastInv
<1>6. /\ wire' \in Seq(Hosts) /\ Len(wire') = Len(wire) - 1 /\ Range(wire') \subseteq Range(wire)
  <2>1. wire' \in Seq(Hosts) /\ Len(wire') = Len(wire) - 1
    BY <1>1, <1>3, Removed
  <2>2. PICK R : R = Range(wire)
    OBVIOUS
  <2>3. wire \in Seq(R)
    BY <1>3, <2>2, SeqDef DEF Range
  <2>4. wire' \in Seq(R)
    BY <1>1, <1>3, <2>3, Removed
  <2> QED
    BY <2>1, <2>2, <2>4, RangeOfSeq
<1>7. WireInv'
  <2>1. Len(wire') <= ticks'
    BY <1>1, <1>2, <1>3, <1>6
  <2> QED
    BY <1>1, <1>6, <2>1 DEF WireInv
<1>8. PastInv' /\ PointsInv' /\ RatesAreReal' /\ ReadsAreReal'
  BY <1>1, <1>5 DEF PastInv, PointsInv, RatesAreReal, ReadsAreReal
<1>9. TypeOK'
  <2>1. troubles' \in 0 .. MaxTroubles
    BY <1>1, <1>2, Troubled
  <2>2. Len(wire') <= MaxTicks
    BY <1>2, <1>3, <1>6, Limits
  <2>3. host'.time = ticks'
    BY <1>7 DEF WireInv
  <2> QED
    BY <1>1, <1>2, <1>5, <2>1, <2>2, <2>3 DEF TypeOK, PageTyped
<1> QED
  BY <1>5, <1>7, <1>8, <1>9 DEF IInv

LEMMA Stutter ==
  ASSUME IInv, UNCHANGED vars
  PROVE  IInv'
<1>1. UNCHANGED <<host, agent, ticks, troubles, wire, clock, page, past>>
  BY DEF vars
<1>2. /\ PageTyped' /\ PrevInv' /\ Current' /\ RatesAreReal' /\ ReadsAreReal'
      /\ PastInv' /\ PointsInv' /\ overtaken' = overtaken
  BY <1>1, PageKept, FutureKept DEF Future, past
<1>3. TypeOK' /\ WireInv'
  BY <1>1, <1>2 DEF TypeOK, PageTyped, WireInv, IInv
<1> QED
  BY <1>2, <1>3 DEF IInv

LEMMA NextInv == IInv /\ [Next]_vars => IInv'
BY TickInv, AgentRestartInv, ArriveNextInv, LoseInv, OvertakeInv, Stutter DEF Next

LEMMA Inductive == Spec => []IInv
BY InitInv, NextInv, PTL DEF Spec

-----------------------------------------------------------------------------
(* What the page shows.                                                    *)

\* The variables keep their types; the tables are no longer than the list the
\* agent sends, and the memory of a container is a uint64.
THEOREM TypeCorrect == Spec => []TypeOK
<1>1. IInv => TypeOK
  BY DEF IInv
<1> QED
  BY <1>1, Inductive, PTL

\* After all rows of a batch every place of the page that only the stream writes
\* shows the values of that batch and no others (handleMetricUpdate): for any
\* number of ticks before it, whatever sources failed, and whatever was lost or
\* overtaken.
THEOREM CurrentAlways == Spec => []Current
<1>1. IInv => Current
  BY DEF IInv
<1> QED
  BY <1>1, Inductive, PTL

\* No rate shows bytes that the interface did not move, and without a restart of
\* its counters none is missing (updateInterfaceHistory): for any window, any
\* clock of the page and any losses.
THEOREM RatesAlways == Spec => []RatesAreReal
<1>1. IInv => RatesAreReal
  BY DEF IInv
<1> QED
  BY <1>1, Inductive, PTL

\* No process is shown with more than it has read (handleProcessSnapshot), unless
\* its counters could not be read before: for any length of the list and any
\* losses of snapshots.
THEOREM ReadsAlways == Spec => []ReadsAreReal
<1>1. IInv => ReadsAreReal
  BY DEF IInv
<1> QED
  BY <1>1, Inductive, PTL
===============================================================================
