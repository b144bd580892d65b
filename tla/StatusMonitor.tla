---------------------------- MODULE StatusMonitor ----------------------------
(***************************************************************************)
(* The attribution tick of src/src/status_monitor.cpp: StatusMonitor::     *)
(* updateStatus() with getProcessDiskStatus(), the three switchTo* slots   *)
(* that set the filter and tick at once, and the kernel it reads from.     *)
(*                                                                         *)
(* A tick is one atomic step: updateStatus runs to completion on the GUI   *)
(* thread, and the model reads /proc once per tick (what the process does  *)
(* between two reads of one tick is below the resolution of the model, so  *)
(* a second read of a counter in the same tick sees the same value).       *)
(* Between ticks the environment starts, runs and ends processes, lets     *)
(* them do I/O, and the traffic filter queues per-pid row updates.         *)
(*                                                                         *)
(* Data abstractions: a pid's CPU sample is its cumulative tick count; the *)
(* system-wide denominator of calculateCPUPercentage is one interval, so a *)
(* CPU share is a tick delta. NetworkStatus {sent, recv, sentKbs, recvKbs} *)
(* is one number: all four fields are copied, zeroed and summed together.  *)
(* Rates are per interval (updateSeconds = 1). Names, titles, icons,       *)
(* desktop files and users are the constant sets and maps below.           *)
(***************************************************************************)
EXTENDS Integers, Graphs

CONSTANTS
  Pids,          \* process ids
  IoDirs,        \* the directions of /proc/<pid>/io tracked: "read", "write"
  Mine,          \* pids whose euser is currentUsername
  Gui,           \* pids with a tray icon or a window title (isGui)
  Mem,           \* [Pids -> Nat]: getProcessMemory of each pid
  Desktops,      \* desktop files
  NoDesktop,     \* no desktop file / variable unset
  ServerMarker,  \* [Pids -> Desktops \cup {NoDesktop}]: GIO_LAUNCHED_DESKTOP_FILE
                 \* of a pid named wineserver.real, NoDesktop for any other pid
  WineApp,       \* [Pids -> Desktops \cup {NoDesktop}]: desktop file of a pid whose
                 \* cmdline starts with c:\ and that has a window title
  NetVals,       \* NetworkStatus values a traffic row update carries
  MaxTicks,      \* bound on cumulative CPU ticks
  MaxIo,         \* bound on cumulative I/O counters
  Word           \* modulus of unsigned long arithmetic (2^64 in the build)

ASSUME /\ IoDirs \subseteq {"read", "write"}
       /\ Mine \subseteq Pids /\ Gui \subseteq Pids
       /\ \A p \in Pids : WineApp[p] # NoDesktop => p \in Gui
       /\ \A p \in Pids : ServerMarker[p] # NoDesktop => WineApp[p] = NoDesktop
       /\ MaxIo < Word

Filters == {"OnlyGUI", "OnlyMe", "AllProcess"}

VARIABLES
  \* the kernel and the traffic filter
  procs,        \* live processes
  ppid,         \* parent pid of each pid, 0 for a parent outside Pids
  ticks,        \* cumulative CPU ticks of each pid
  io,           \* io[p][d]: cumulative rchar / wchar of each pid
  netPending,   \* row updates queued in NetworkTrafficFilter, last one per pid
  started,      \* ghost: pids (re)started since the previous tick
  \* StatusMonitor members
  filterType,
  prevProcesses,              \* pid -> CPU sample of the previous tick
  processCpuPercents,         \* pid -> CPU share of the last tick
  processIoKbs,               \* processIoKbs[d]: pid -> last counter read
  wineServerDesktopMaps,      \* pid -> desktop file
  wineApplicationDesktopMaps, \* desktop file -> pid
  \* published by the last tick (updateProcessStatus, updateDiskStatus)
  items,        \* pid -> [cpu, mem, disk, net] of every displayed item
  diskTotal     \* d -> diskReadTotalKbs / diskWriteTotalKbs

kernel  == <<procs, ppid, ticks, io, netPending, started>>
monitor == <<filterType, prevProcesses, processCpuPercents, processIoKbs,
             wineServerDesktopMaps,
             wineApplicationDesktopMaps, items, diskTotal>>
vars == <<kernel, monitor>>

EmptyMap == [p \in {} |-> 0]

(***************************************************************************)
(* ProcessTree::scanProcesses / getAllChildPids (process_tree.cpp is not   *)
(* under src/): the descendants of p through the ppid links of the live    *)
(* processes.                                                              *)
(***************************************************************************)
ProcessTree == [node |-> procs,
                edge |-> {<<ppid[c], c>> : c \in {q \in procs : ppid[q] \in procs}}]
AllChildPids(p) == Descendants(ProcessTree, p) \ {p}

\* calculateCPUPercentage (not under src/): the process's work-tick delta
\* over one interval of system ticks.
CalculateCPUPercentage(prev, cur) == cur - prev

(***************************************************************************)
(* Lines 162-176 and 237: the map is cleared, filled for the pids of this  *)
(* snapshot that have a previous sample with the same pid, and operator[]  *)
(* at line 237 inserts 0 for every other live pid.                         *)
(***************************************************************************)
ProcessCpuPercents_noClear(old) ==
  [p \in procs \cup DOMAIN old |-> IF p \in procs \cap DOMAIN prevProcesses
                   THEN CalculateCPUPercentage(prevProcesses[p], ticks[p])
                   ELSE IF p \in DOMAIN old THEN old[p] ELSE 0]

ProcessCpuPercents(old) ==
  [p \in procs |-> IF p \in DOMAIN prevProcesses
                   THEN CalculateCPUPercentage(prevProcesses[p], ticks[p])
                   ELSE 0]

(***************************************************************************)
(* getProcessDiskStatus, the rate half: a rate needs a stored counter and  *)
(* a non-zero current one; the unsigned difference wraps when the counter  *)
(* went down (a reused pid).                                               *)
(***************************************************************************)
GetProcessDiskStatus_noContains(stored, p) ==
  [d \in IoDirs |-> IF io[p][d] > 0
                    THEN (io[p][d] - IF p \in DOMAIN stored[d]
                                     THEN stored[d][p] ELSE 0) % Word
                    ELSE 0]

GetProcessDiskStatus(stored, p) ==
  [d \in IoDirs |-> IF p \in DOMAIN stored[d] /\ io[p][d] > 0
                    THEN (io[p][d] - stored[d][p]) % Word
                    ELSE 0]

\* getProcessDiskStatus, the store half: every call overwrites the counter.
StoreCounters_keepFirst(stored, S) ==
  [d \in IoDirs |-> stored[d] @@ [p \in S |-> io[p][d]]]

StoreCounters(stored, S) == [d \in IoDirs |-> [p \in S |-> io[p][d]] @@ stored[d]]

(***************************************************************************)
(* Lines 245-258: a wineserver.real with the GIO variable set records      *)
(* pid -> desktop file; a wine program with a window title records         *)
(* desktop file -> pid, and the loop runs in ascending pid order, so the   *)
(* highest such pid wins a desktop file.                                   *)
(***************************************************************************)
WineServerDesktopMaps ==
  [p \in {q \in procs : ServerMarker[q] # NoDesktop} |-> ServerMarker[p]]

WineApplicationDesktopMaps ==
  LET apps == {q \in procs : WineApp[q] # NoDesktop}
  IN  [d \in {WineApp[q] : q \in apps} |-> Max({q \in apps : WineApp[q] = d})]

(***************************************************************************)
(* Lines 381-396: walk the snapshot in ascending pid order; a wineserver   *)
(* whose desktop file names a recorded wine program hands its status to    *)
(* that program's pid (overwriting what the program had) and is zeroed.    *)
(***************************************************************************)
RECURSIVE TransferFrom_noReset(_, _, _, _)
TransferFrom_noReset(snap, keys, servers, apps) ==
  IF keys = {} THEN snap
  ELSE LET k    == Min(keys)
           next == IF k \in DOMAIN servers /\ servers[k] \in DOMAIN apps
                   THEN (apps[servers[k]] :> snap[k]) @@ snap
                   ELSE snap
       IN  TransferFrom_noReset(next, keys \ {k}, servers, apps)

RECURSIVE TransferFrom(_, _, _, _)
TransferFrom(snap, keys, servers, apps) ==
  IF keys = {} THEN snap
  ELSE LET k    == Min(keys)
           next == IF k \in DOMAIN servers /\ servers[k] \in DOMAIN apps
                   THEN (k :> 0) @@ (apps[servers[k]] :> snap[k]) @@ snap
                   ELSE snap
       IN  TransferFrom(next, keys \ {k}, servers, apps)

TransferWineTraffic(snap, servers, apps) ==
  TransferFrom(snap, DOMAIN snap, servers, apps)

\* Lines 266-273: which processes become items under each filter.
AppendItem(ft, p) ==
  CASE ft = "OnlyGUI" -> p \in Mine /\ p \in Gui
    [] ft = "OnlyMe"  -> p \in Mine
    [] OTHER          -> TRUE

NetOf(snap, p) == IF p \in DOMAIN snap THEN snap[p] ELSE 0

\* The ProcessItem constructor: the given CPU share and memory, zero disk
\* and network status.
NewProcessItem(cpu, mem) ==
  [cpu |-> cpu, mem |-> mem, disk |-> [d \in IoDirs |-> 0], net |-> 0]

\* Lines 300-304 and 399-406: a new ProcessItem with the pid's CPU share and
\* memory, then setNetworkStatus if the snapshot has the pid, and
\* setDiskStatus from a further getProcessDiskStatus call.
OwnItem(p, cpus, snap, stored) ==
  [NewProcessItem(cpus[p], Mem[p]) EXCEPT
     !.net  = IF p \in DOMAIN snap THEN snap[p] ELSE @,
     !.disk = GetProcessDiskStatus(stored, p)]

\* Lines 201-217, 306-315 and 408-416: the scratch entry of a descendant of a
\* GUI pid. CPU and memory are filled only when the pid is not an item
\* itself; network and disk are filled for every entry.
ChildPidInfo_netOnlyHidden(ft, c, cpus, snap, stored) ==
  [cpu  |-> IF AppendItem(ft, c) THEN 0 ELSE cpus[c],
   mem  |-> IF AppendItem(ft, c) THEN 0 ELSE Mem[c],
   disk |-> GetProcessDiskStatus(stored, c),
   net  |-> IF AppendItem(ft, c) THEN 0 ELSE NetOf(snap, c)]

ChildPidInfo(ft, c, cpus, snap, stored) ==
  [cpu  |-> IF AppendItem(ft, c) THEN 0 ELSE cpus[c],
   mem  |-> IF AppendItem(ft, c) THEN 0 ELSE Mem[c],
   disk |-> GetProcessDiskStatus(stored, c),
   net  |-> NetOf(snap, c)]

\* ProcessItem::mergeItemInfo (process_item.cpp): add a child's metrics.
MergeItemInfo_dropDisk(item, info) ==
  [cpu |-> item.cpu + info.cpu, mem |-> item.mem + info.mem,
   net |-> item.net + info.net]

MergeItemInfo(item, info) ==
  [cpu  |-> item.cpu + info.cpu, mem |-> item.mem + info.mem,
   disk |-> [d \in IoDirs |-> item.disk[d] + info.disk[d]],
   net  |-> item.net + info.net]

\* Lines 437-456: merge every descendant that has a scratch entry.
MergeChildren(item, children, info) ==
  MapThenFoldSet(LAMBDA i, acc : MergeItemInfo(acc, i), item,
                 LAMBDA c : info[c], LAMBDA S : CHOOSE x \in S : TRUE,
                 children \cap DOMAIN info)

(***************************************************************************)
(* StatusMonitor::updateStatus with filter ft: snapshot, CPU shares, child *)
(* scratch map, items and wine maps, first disk read of every process and  *)
(* the totals, draining of the traffic filter, wine transfer, item        *)
(* network and second disk read, scratch network and third disk read,      *)
(* merge, publish, keep the snapshot. Left out: processSentBytes and       *)
(* processRecvBytes (lines 324-350, 370-371), written and pruned but read  *)
(* nowhere, and the system CPU, memory and network totals (lines 352-361,  *)
(* 418-435, 462-477), which the per-process attribution does not read.     *)
(***************************************************************************)
UpdateStatus(ft) ==
  LET cpus     == ProcessCpuPercents(processCpuPercents)
      shown    == {p \in procs : AppendItem(ft, p)}
      guiPids  == procs \cap Gui
      childIds == IF ft = "OnlyGUI"
                  THEN UNION {AllChildPids(g) : g \in guiPids} ELSE {}
      servers  == WineServerDesktopMaps
      apps     == WineApplicationDesktopMaps
      rates    == [p \in procs |-> GetProcessDiskStatus(processIoKbs, p)]
      stored   == StoreCounters(processIoKbs, procs)
      snap     == TransferWineTraffic(netPending, servers, apps)
      info     == [c \in childIds |-> ChildPidInfo(ft, c, cpus, snap, stored)]
      own      == [p \in shown |-> OwnItem(p, cpus, snap, stored)]
  IN  /\ filterType' = ft
      /\ processCpuPercents' = cpus
      /\ wineServerDesktopMaps' = servers
      /\ wineApplicationDesktopMaps' = apps
      /\ processIoKbs' = StoreCounters(StoreCounters(stored, shown), childIds)
      /\ diskTotal' = [d \in IoDirs |->
                         MapThenSumSet(LAMBDA p : rates[p][d], procs) % Word]
      /\ netPending' = EmptyMap
      /\ items' = IF ft = "OnlyGUI"
                  THEN [p \in shown |->
                          MergeChildren(own[p], AllChildPids(p), info)]
                  ELSE own
      /\ prevProcesses' = [p \in procs |-> ticks[p]]
      /\ started' = {}
      /\ UNCHANGED <<procs, ppid, ticks, io>>

\* The updateStatusTimer timeout.
Tick == UpdateStatus(filterType)

\* switchToAllProcess, switchToOnlyGui, switchToOnlyMe: set filterType and
\* call updateStatus at once.
SwitchToAllProcess == UpdateStatus("AllProcess")
SwitchToOnlyGui    == UpdateStatus("OnlyGUI")
SwitchToOnlyMe     == UpdateStatus("OnlyMe")

(***************************************************************************)
(* The kernel between ticks. A started pid may be one that ended since the *)
(* previous tick (pid reuse); an ended process's children are re-parented  *)
(* outside the tracked pids.                                               *)
(***************************************************************************)
Spawn(p, parent) ==
  /\ p \notin procs
  /\ parent \in procs \cup {0}
  /\ procs' = procs \cup {p}
  /\ ppid' = [ppid EXCEPT ![p] = parent]
  /\ ticks' = [ticks EXCEPT ![p] = 0]
  /\ io' = [io EXCEPT ![p] = [d \in IoDirs |-> 0]]
  /\ started' = started \cup {p}
  /\ UNCHANGED <<netPending, monitor>>

Exit(p) ==
  /\ p \in procs
  /\ procs' = procs \ {p}
  /\ ppid' = [q \in Pids |-> IF q = p \/ ppid[q] = p THEN 0 ELSE ppid[q]]
  /\ ticks' = [ticks EXCEPT ![p] = 0]
  /\ io' = [io EXCEPT ![p] = [d \in IoDirs |-> 0]]
  /\ started' = started \ {p}
  /\ UNCHANGED <<netPending, monitor>>

Run(p) ==
  /\ p \in procs /\ ticks[p] < MaxTicks
  /\ ticks' = [ticks EXCEPT ![p] = @ + 1]
  /\ UNCHANGED <<procs, ppid, io, netPending, started, monitor>>

DoIo(p, d) ==
  /\ p \in procs /\ io[p][d] < MaxIo
  /\ io' = [io EXCEPT ![p][d] = @ + 1]
  /\ UNCHANGED <<procs, ppid, ticks, netPending, started, monitor>>

\* NetworkTrafficFilter queues a row update for a pid (the pid may have
\* ended since its socket was seen).
Traffic(p, v) ==
  /\ netPending' = (p :> v) @@ netPending
  /\ UNCHANGED <<procs, ppid, ticks, io, started, monitor>>

Init ==
  /\ procs = {}
  /\ ppid = [p \in Pids |-> 0]
  /\ ticks = [p \in Pids |-> 0]
  /\ io = [p \in Pids |-> [d \in IoDirs |-> 0]]
  /\ netPending = EmptyMap
  /\ started = {}
  /\ filterType \in Filters
  /\ prevProcesses = EmptyMap
  /\ processCpuPercents = EmptyMap
  /\ processIoKbs = [d \in IoDirs |-> EmptyMap]
  /\ wineServerDesktopMaps = EmptyMap
  /\ wineApplicationDesktopMaps = [d \in {} |-> 0]
  /\ items = EmptyMap
  /\ diskTotal = [d \in IoDirs |-> 0]

Environment ==
  \/ \E p \in Pids, parent \in Pids \cup {0} : Spawn(p, parent)
  \/ \E p \in Pids : Exit(p) \/ Run(p)
  \/ \E p \in Pids, d \in IoDirs : DoIo(p, d)
  \/ \E p \in Pids, v \in NetVals : Traffic(p, v)

Next ==
  \/ Tick \/ SwitchToAllProcess \/ SwitchToOnlyGui \/ SwitchToOnlyMe
  \/ Environment

Spec == Init /\ [][Next]_vars

-----------------------------------------------------------------------------
(***************************************************************************)
(* Properties. Each is about what one tick publishes, so most are action   *)
(* properties over the tick steps.                                         *)
(***************************************************************************)
\* The steps of updateStatus: the only steps that drain the traffic filter
\* and leave the kernel as it is (a step that changes nothing is stuttering).
TickStep ==
  /\ netPending' = EmptyMap /\ started' = {}
  /\ UNCHANGED <<procs, ppid, ticks, io>>

Rates == 0..(Word - 1)
ItemRecords == [cpu : Int, mem : Nat, disk : [IoDirs -> Nat], net : Nat]
IsPartialFn(f, S, T) == DOMAIN f \subseteq S /\ \A x \in DOMAIN f : f[x] \in T

TypeOK ==
  /\ procs \subseteq Pids /\ started \subseteq Pids
  /\ ppid \in [Pids -> Pids \cup {0}]
  /\ ticks \in [Pids -> 0..MaxTicks]
  /\ io \in [Pids -> [IoDirs -> 0..MaxIo]]
  /\ IsPartialFn(netPending, Pids, NetVals)
  /\ filterType \in Filters
  /\ IsPartialFn(prevProcesses, Pids, 0..MaxTicks)
  /\ IsPartialFn(processCpuPercents, Pids, -MaxTicks..MaxTicks)
  /\ DOMAIN processIoKbs = IoDirs
  /\ \A d \in IoDirs : IsPartialFn(processIoKbs[d], Pids, 0..MaxIo)
  /\ IsPartialFn(wineServerDesktopMaps, Pids, Desktops)
  /\ IsPartialFn(wineApplicationDesktopMaps, Desktops, Pids)
  /\ IsPartialFn(items, Pids, ItemRecords)
  /\ diskTotal \in [IoDirs -> Rates]

\* q is a live descendant of p: some chain of ppid links of live processes
\* leads from q to p (a brute-force walk, independent of ProcessTree).
RECURSIVE AncestorAt(_, _)
AncestorAt(q, n) ==
  IF n = 1 THEN ppid[q]
  ELSE LET a == AncestorAt(q, n - 1) IN IF a \in procs THEN ppid[a] ELSE 0

LiveDescendants(p) ==
  {q \in procs : \E n \in 1..Cardinality(Pids) : AncestorAt(q, n) = p}

\* The network status of every pid after the wine transfer of this tick.
TickSnapshot == TransferWineTraffic(netPending, wineServerDesktopMaps',
                                    wineApplicationDesktopMaps')

(***************************************************************************)
(* Descendant sum, network part (spec property 3): in the Applications     *)
(* view, the traffic updateStatus publishes for a displayed application is *)
(* its own plus that of every live descendant, whether or not the          *)
(* descendant is itself displayed (lines 408-416 fill the scratch map's    *)
(* network for every entry, lines 437-456 merge it).                       *)
(***************************************************************************)
NetworkDescendantSum ==
  [][TickStep /\ filterType' = "OnlyGUI" =>
       \A p \in DOMAIN items' :
         items'[p].net =
           NetOf(TickSnapshot, p)
             + MapThenSumSet(LAMBDA q : NetOf(TickSnapshot, q), LiveDescendants(p))
    ]_vars

(***************************************************************************)
(* Wine transfer (spec property 9): when a wineserver.real launched for a  *)
(* desktop file and a wine program of that desktop file are both running,  *)
(* the helper's own item shows no traffic and the program's item shows at  *)
(* least the traffic queued for the helper (lines 380-396). Spec property  *)
(* 9 says the helper's traffic is "moved" to the program; both readings    *)
(* of that word, the program's own traffic kept or replaced (the          *)
(* assignment at line 389 replaces it), satisfy this property.            *)
(***************************************************************************)
WineHelperTrafficReattributed ==
  [][TickStep /\ filterType' # "OnlyGUI" =>
       \A h \in DOMAIN wineServerDesktopMaps' \cap DOMAIN netPending :
         wineServerDesktopMaps'[h] \in DOMAIN wineApplicationDesktopMaps' =>
           LET app == wineApplicationDesktopMaps'[wineServerDesktopMaps'[h]]
           IN  /\ h \in DOMAIN items' => items'[h].net = 0
               /\ app \in DOMAIN items' => items'[app].net >= netPending[h]
    ]_vars

\* The rate spec section 4.4 asks for: the increase of the counter since the
\* stored reading, 0 without a reading or when the counter went down.
SpecRate(p, d) ==
  IF p \in DOMAIN processIoKbs[d] /\ io[p][d] >= processIoKbs[d][p]
  THEN io[p][d] - processIoKbs[d][p] ELSE 0

(***************************************************************************)
(* Disk totals: the read/write totals a tick publishes are the sum of the  *)
(* counter increases of all processes since the previous tick, as long as  *)
(* no pid with a stored reading was started again in between. The totals  *)
(* are summed from the first getProcessDiskStatus call per process (lines  *)
(* 319-321), not from the items, whose later calls (405, 415) see 0; that  *)
(* first call must see the reading stored by the previous tick's calls.   *)
(***************************************************************************)
DiskTotalIsCounterDelta ==
  [][TickStep /\ started \cap UNION {DOMAIN processIoKbs[e] : e \in IoDirs} = {} =>
       \A d \in IoDirs :
         diskTotal'[d] = MapThenSumSet(LAMBDA p : SpecRate(p, d), procs)
    ]_vars

(***************************************************************************)
(* Spec property 2 without the proviso: a counter that went down (the pid  *)
(* was reused) contributes 0 to the published totals, never a negative or  *)
(* wrapped rate. getProcessDiskStatus tests wchar > 0, not wchar >= the    *)
(* stored reading (lines 496-503), and never prunes dead pids.             *)
(***************************************************************************)
DiskTotalIgnoresCounterReset ==
  [][TickStep =>
       \A d \in IoDirs :
         diskTotal'[d] = MapThenSumSet(LAMBDA p : SpecRate(p, d), procs)
    ]_vars

(***************************************************************************)
(* Spec property 2 for a displayed process: the disk rate on its item is   *)
(* the increase of its counter over the interval. Line 405 calls           *)
(* getProcessDiskStatus again after line 319 already stored this tick's    *)
(* counter.                                                                *)
(***************************************************************************)
ItemDiskRateIsDelta ==
  [][TickStep /\ filterType' # "OnlyGUI" =>
       \A p \in DOMAIN items' \ started, d \in IoDirs :
         items'[p].disk[d] = SpecRate(p, d)
    ]_vars

====
