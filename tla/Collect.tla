------------------------------- MODULE Collect --------------------------------
(***************************************************************************)
(* What the agent collects at a tick (agent/main.go): the rows of          *)
(* CollectMetrics, the list of CollectProcesses and that of                *)
(* CollectContainers, from what its host answers.                          *)
(*                                                                         *)
(* A host is a record: the sources that fail at this tick, and what the    *)
(* others answer.  Every source may fail alone, and errors are ignored.    *)
(* Of the values only those are told apart that matter later: counters,    *)
(* and the use of the swap, which may be zero.  Fixed labels of the hosts  *)
(* (file system, state of an interface) and the texts of a container       *)
(* (names, ports, image) are left out.                                     *)
(***************************************************************************)
EXTENDS Integers, SequencesExt

CONSTANTS MaxListed,  \* processes in a snapshot, 30
          Words       \* values of a uint64, 2^64

ASSUME CollectAssumption == MaxListed \in Nat \ {0} /\ Words \in Nat \ {0}

\* The calls that CollectMetrics makes; a path stands for disk.Usage of it.
Sources == {"cpu", "times", "vcpus", "load", "memory", "swap", "partitions", "io",
            "network", "interfaces", "latency"}

-----------------------------------------------------------------------------
(* CollectMetrics                                                          *)

\* A value other than zero.
Some == 1

Row(type, name, key, val) == [type |-> type, name |-> name, key |-> key, val |-> val]

Rows(type, names, key) == [i \in DOMAIN names |-> Row(type, names[i], key, Some)]

\* The rows of a source that answers.
Of(host, source, rows) == IF source \in host.fails THEN <<>> ELSE rows

\* The rows of each item of a list, in its order.
ForEach(items, RowsOf(_)) == FlattenSeq([i \in DOMAIN items |-> RowsOf(items[i])])

\* Mutant of CpuRows: the loop over the virtual CPUs stands inside the branch
\* of the times.
CpuRowsNested(host) ==
  Of(host, "cpu", Rows("cpu_usage", <<"cpu_total">>, ""))
  \o Of(host, "times", Rows("cpu_times",
         <<"user", "system", "idle", "nice", "iowait", "irq">>, "")
       \o Of(host, "vcpus", Rows("vcpu_usage", host.vcpus, "")))

CpuRows(host) ==
  Of(host, "cpu", Rows("cpu_usage", <<"cpu_total">>, ""))
  \o Of(host, "times", Rows("cpu_times",
         <<"user", "system", "idle", "nice", "iowait", "irq">>, ""))
  \o Of(host, "vcpus", Rows("vcpu_usage", host.vcpus, ""))

\* The results of these three calls are pointers, nil when the call fails, and
\* the error is dropped: the next line panics, and the agent ends.
Panics(host) == host.fails \cap {"load", "memory", "swap"} # {}

LoadRows == Rows("load_average", <<"load1", "load5", "load15">>, "")

MemoryRows ==
  Rows("memory_usage", <<"memory_used_percent", "memory_total", "memory_used",
    "memory_free", "memory_shared", "memory_buffers", "memory_cached">>, "")

SwapRows(host) ==
  << Row("swap_usage", "swap_used_percent", "", host.swapUsed),
     Row("swap_usage", "swap_total", "", Some),
     Row("swap_usage", "swap_used", "", host.swapUsed),
     Row("swap_usage", "swap_free", "", Some) >>

\* A partition that cannot be read is left out.
DiskRows(host) ==
  Of(host, "partitions", ForEach(host.mounts, LAMBDA path :
    Of(host, path, Rows("disk_usage", <<"disk_used_percent", "disk_total", "disk_used">>, path))))

DiskIORows(host) ==
  Of(host, "io", ForEach(host.disks, LAMBDA device :
    Rows("disk_io", <<"read_bytes", "write_bytes", "read_count", "write_count",
                      "read_time", "write_time">>, device)))

NetworkRows(host) ==
  Of(host, "network", Rows("network_usage", <<"bytes_sent", "bytes_recv">>, ""))

InterfaceRows(host) ==
  Of(host, "interfaces", ForEach(host.interfaces, LAMBDA io :
    << Row("network_interface", "bytes_sent", io.name, io.sent),
       Row("network_interface", "bytes_recv", io.name, io.recv),
       Row("network_interface", "packets_sent", io.name, Some),
       Row("network_interface", "packets_recv", io.name, Some) >>))

LatencyRows(host) == Of(host, "latency", Rows("network_latency", <<"latency_ms">>, ""))

CollectMetrics(host) ==
  CpuRows(host) \o LoadRows \o MemoryRows \o SwapRows(host) \o DiskRows(host)
  \o DiskIORows(host) \o NetworkRows(host) \o InterfaceRows(host) \o LatencyRows(host)

-----------------------------------------------------------------------------
(* CollectProcesses: the first MaxListed processes that have a name.       *)

Listed(p) == [pid |-> p.pid, read |-> IF p.io THEN p.read ELSE 0]

CollectProcesses(host) ==
  LET processes[i \in 0 .. Len(host.processes)] ==
        IF i = 0 THEN <<>>
        ELSE IF Len(processes[i - 1]) < MaxListed /\ host.processes[i].named
        THEN Append(processes[i - 1], Listed(host.processes[i]))
        ELSE processes[i - 1]
  IN  processes[Len(host.processes)]

-----------------------------------------------------------------------------
(* CollectContainers: one entry for each container of the daemon's list.   *)

Total(values) == FoldLeft(+, 0, values)

\* Bytes of the entries of BlkioStats with an operation.
Bytes(entries, op) ==
  FoldLeft(LAMBDA sum, e : IF e.op = op THEN sum + e.value ELSE sum, 0, entries)

\* memUsage -= cache, on uint64.
MemUsage(usage, cache) == (usage - cache) % Words

\* A container whose statistics fail is listed with zeros.  Of the bytes of its
\* networks one direction is kept; its CPU percentage, a division, is left out.
Container(c) ==
  [net    |-> IF c.stats THEN Total(c.networks) ELSE 0,
   read   |-> IF c.stats THEN Bytes(c.blkio, "Read") ELSE 0,
   write  |-> IF c.stats THEN Bytes(c.blkio, "Write") ELSE 0,
   memory |-> IF c.stats THEN MemUsage(c.usage, c.cache) ELSE 0]

CollectContainers(host) == [i \in DOMAIN host.containers |-> Container(host.containers[i])]
===============================================================================
