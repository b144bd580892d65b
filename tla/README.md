# TLA+ models of deepin-system-monitor's attribution pipeline

This directory holds TLA+ models of the resource-attribution core of
deepin-system-monitor: the code that assigns CPU, memory, disk and network
use to processes. Each module is translated from the C++ under `src/`. Each
`.cfg` file is a TLC run. `PROJECT.json` records three things:

- which definition models which source lines (`map`);
- what every run checks;
- the mutants that show each passing property can fail.

## 1. The system and its parts

Two activities run concurrently (spec section 5):

- **The packet-capture thread** (`src/src/system/netif_packet_capture.cpp`).
  - `startNetifMonitorJob` opens a non-blocking pcap handle.
  - A timer calls `dispatchPackets` repeatedly.
  - Each call hands leftover packets over, then loops. Each loop iteration does four things:
    - refreshes the connection index (`readSockStat`);
    - refreshes the host hardware addresses (`refreshIfAddrsHashCache`);
    - dispatches up to 64 packets to `pcap_callback`;
    - stops on quit, on error or when no packets are left.
  - `pcap_callback` handles one packet:
    - resolves it to a socket inode through the index, or drops it;
    - classifies it as inbound or outbound by its destination MAC;
    - appends it to the thread-local queue;
    - moves that queue to the shared `m_pendingPackets` queue, using `tryLock` between the low and high watermarks and `lock` at the high watermark.
  - The consumer `NetifMonitor` and the `NetworkTrafficFilter` it feeds are not under `src/`.
- **The attribution tick on the GUI thread** (`src/src/status_monitor.cpp`).
  - `updateStatus` runs on a timer. The three `switchTo*` slots also run it directly, after changing the filter.
  - One tick takes these steps in order:
    1. Reads every process.
    2. Computes per-process CPU from the previous snapshot.
    3. Builds a scratch map for the descendants of GUI processes.
    4. Creates one item per displayed process and records the wine helper and program maps.
    5. Reads each process's disk counters (`getProcessDiskStatus`) and adds them to the totals.
    6. Drains the traffic filter.
    7. Moves wineserver traffic to its wine program.
    8. Sets network and (again) disk status on items and scratch entries.
    9. Merges descendants into items (`ProcessItem::mergeItemInfo`, `src/src/process_item.cpp`).
    10. Publishes the result.
    11. Keeps the snapshot.

Other parts:

- **The GUI thread's window and compact view.**
  - `MainWindow::initUI` (`gui/main_window.cpp`) starts loading. It disables the title-bar menu, checks the stored display mode and starts a spinner. `initConnections` then wires `loadingStatusChanged` to the menu.
  - `showEvent`, while loading, asks the system monitor for a first update. On an AMD or Intel CPU it asks directly; otherwise it asks after a 100 ms single-shot timer. The system monitor's `initialSysInfoLoaded` builds the pages, stops the spinner and ends loading, which re-enables the menu.
  - The menu's Expand and Compact actions emit `displayModeChanged`, which switches the status monitor's compact mode (`enableCompactMode`/`disableCompactMode` in `status_monitor.cpp`). That creates or deletes the compact monitors.
  - Every tick emits `updateDiskStatus`. A queued connection delivers it to `handleDiskStatus`, which in compact mode feeds `CompactDiskMonitor::updateStatus` (`compact_disk_monitor.cpp`): a sliding window of `pointsNumber` samples, scaled to the render height.
- The `ProcessItem` sort comparators (`sortBy*`), which the process list's sort is given with the header's order.
- A layout header and a test file with empty tests.

## 2. Modules

| Module | Models | State | Actions |
|---|---|---|---|
| `ConnIndex` | `readSockStat`/`parseSocks`; the index lookups and MAC formatting of `pcap_callback`; `refreshIfAddrsHashCache` | none (operators) | `ReadSockStat` builds the multimap as a sequence of (pattern, inode) insertions; `LookupIno` is `QMultiMap::find`; `FormatDMac`/`HardwareAddress` are the `%x` and `%02X` texts |
| `PacketCapture` | `NetifPacketCapture` and the shared queue | `go`, `handle`, the loop position `pc`, `batch`, `local` (`m_localPendingPackets`), `lock`, `shared` (`m_pendingPackets`), `sockStats`, `ifaddrs`, `drained`, ghosts `listed` (the tables of the last `readSockStat`) and `lastCb` (the last callback's outcome), the host's interfaces `ifaces`, a ghost `refreshed` (the interfaces at the last `refreshIfAddrsHashCache`) and a history ghost | `Start`, `DispatchPackets` (pre-flush), `LoopHead` (quit, refresh, dispatch), `Callback`/`CallbackLocked` (one `pcap_callback`, including the blocking `lock`), `DispatchEnd` (the return codes of `pcap_dispatch`), consumer `ConsumerLock`/`ConsumerDrain`, `RequestQuit`, `KernelChange`, `InterfaceChange` (an interface comes or goes) |
| `StatusMonitor` | `updateStatus`, `getProcessDiskStatus`, `switchTo*`, `mergeItemInfo` | the kernel (`procs`, `ppid`, `ticks`, `io`), the traffic filter's queue `netPending`, and the members `filterType`, `prevProcesses`, `processCpuPercents`, `processIoKbs` (`processReadKbs`/`processWriteKbs`) and the wine maps; the published `items` and `diskTotal` | `Tick`, `SwitchToAllProcess`/`OnlyGui`/`OnlyMe` (each one whole `UpdateStatus`), and the environment: `Spawn`, `Exit`, `Run`, `DoIo`, `Traffic` |
| `ProcessSort` | the eight `ProcessItem::sortBy*` comparators (`process_item.cpp` 228-369) | the sort column and order and three rows; fixed after `Init` | none: `Init` enumerates every input and `Next` leaves it unchanged, so each reachable state is one comparator input |
| `Dashboard` | `MainWindow` (`initUI`, `initConnections`, `showEvent`, the `initialSysInfoLoaded` handler, the mode actions), the `StatusMonitor` constructor, `enable`/`disableCompactMode`, the queued `updateDiskStatus`/`handleDiskStatus`, and `CompactDiskMonitor` | the window's `stage`, `loading`, `menuDisabled`, `spinner`, `pages`, `checked`, the stored mode, the pending timers, monitor requests and `initialSysInfoLoaded` emissions; the status monitor's `compact` and queued `events`; the two curves `read`/`write` (samples and scaled points); a ghost `fed` of the totals delivered; per mode, the state of the monitor objects (`widgets`: none, live, deleted or misused) | `InitUI`, `InitConnections`, `ShowEvent`, `TimerFire`, `MonitorUpdate`, `InitialSysInfoLoaded`, `ModeAction(m)`, `NewStatusMonitor` (with `InitCompactMode`), `EmitStatus`, `HandleStatus` |
| `Shortcuts` | `MainWindow::eventFilter` and the table of `displayShortcutHelpDialog` | `running`, `maximized`, the last key press and what the filter did with it | `KeyPress(chord)` over every chord of three modifiers and fifteen keys |
| `MC_PacketCapture`, `MC_StatusMonitor`, `MC_ProcessSort`, `MC_Dashboard` | model values for TLC | | |

### Abstractions

- **`ConnIndex`**
  - Formatting and hashing are modelled by what they do. The printed pattern is the tuple it prints.
  - IPv6 addresses keep the distinction that normalisation needs: zero, IPv4-mapped or other.
  - A MAC address's text is its sequence of hex digit values.
  - The 64-bit hash is taken as injective: collisions among a few thousand patterns are negligible.
- **`PacketCapture`**
  - `pcap_dispatch` is one loop iteration that calls `Callback` up to `BATCH` times and returns 0, a count, or -1.
  - Time is nondeterministic: at every loop head each refresh may or may not be due.
  - The host's interfaces are one of the sets `IfaceSets`; `InterfaceChange` moves between them at any time. `refreshIfAddrsHashCache` only inserts into `m_ifaddrsHashCache`, so an address that went away stays in the cache.
- **`StatusMonitor`**
  - A tick is atomic. All reads of `/proc` in one tick see the same counters.
  - A CPU sample is a tick count, and the denominator is one interval.
  - `NetworkStatus`'s four fields are one number.
  - Rates are per interval.
  - Names, titles, users and desktop files are the constants `Mine`, `Gui`, `ServerMarker` and `WineApp`.
  - `calculateCPUPercentage` and the process tree (`getAllChildPids`) are not under `src/`. They are modelled from spec sections 4.2 and 4.3 and marked `spec_modelled`.

- **`ProcessSort`**
  - A row keeps only the fields its column's comparator reads.
  - A CPU share is a double: the model value `NaN` is unordered, and `==` with it is false.
  - `QCollator::compare` is a rank per name (`Collate`). Two different names with one rank are names the collator finds equal.
  - The reference definition of a strict weak ordering is built from `Relation`: irreflexive and transitive, with transitive incomparability.
- **`Dashboard`**
  - A point's height is the exact fraction `num/den` of `speeds[i] * renderMax / max`; the smooth path and the x-coordinates are drawing and are left out.
  - `updateDiskStatus(total / 1000.0)` reaches `updateStatus(unsigned long)`, so a total is carried as `total \div 1000` (`ToUnits`).
  - The CPU vendor is one of two classes: AMD/Intel, or anything else (including no `vendor_id` line).
  - `SystemMonitor::updateStatus`, the caller of `initUI`/`initConnections`/`show`, and the receiver of `displayModeChanged` are not under `src/`. They are modelled from spec section 9 and marked `spec_modelled` (`MonitorUpdate`, `DisplayModeChanged`); the receiver switches the status monitor to the chosen mode when there is one.
  - Only the disk monitor's curve among the compact monitors is modelled; the four monitor objects of a mode share one lifetime, `widgets[mode]`. `HandleStatus` stands for the four `handle*Status` slots, which all read the pointers of the current mode.
- **`Shortcuts`**
  - A key event is a chord (set of modifiers, key). `QKeySequence::Quit` and `Find` are Ctrl+Q and Ctrl+F. The help table is the set of (name, chord) entries; its JSON and the viewer process are left out.

## 3. Runs

All runs are listed in `PROJECT.json`.

### Passing runs

**`capture_handoff`** (`MC_PacketCapture.cfg`)

- Invariants:
  - `PacketsInCaptureOrder`: the consumer's, shared and local queues together hold exactly the resolved packets, in capture order.
  - `LocalQueueBounded`: the local queue never goes over `HWAT`.
  - `PacketResolvedIffListed` (spec properties 4, 5 and 8): `pcap_callback` resolves a packet exactly when the kernel tables read at the last refresh of the socket index list its connection: a TCP row in either direction, a UDP row forwards only, an IPv4-mapped `tcp6` row under its IPv4 addresses, never a row with inode 0. The reference (`Listed`) is written from the spec, independently of `ConnIndex`, and compared through two ghosts: `listed`, the tables at the last `readSockStat`, and `lastCb`, the outcome of the last callback.
  - `TypeOK`.
- No refinement to an abstract FIFO channel is checked. `history` and `drained` only grow by appending, so `PacketsInCaptureOrder` already makes every step of `shared \o local` an append of one payload, the removal of a prefix, or a stutter. A channel refinement would restate it.
- Property `StopClosesCapture` (spec section 5, cancellation): once `m_quitRequested` is set, the pcap handle is eventually not open, whether the loop is running batches, has returned to wait for the timer, or is blocked in `pcap_callback` on the lock. The run's specification is `StopFairSpec`; its fairness is described in section 4.
- Bounds: one connection, listed in `tcp`, in `tcp6` (IPv4-mapped), in `udp`, or in `tcp` with inode 0 (a `TIME_WAIT` socket, so the packets must be dropped), owned by one inode (`MCOneInodeTables`: inode values are irrelevant to these properties and would only multiply the payloads; the `udp` listing makes the inbound packet one that must be dropped), two packets (one inbound, one outbound), the host's interfaces `{HostMac}` or `{HostMac, SpareMac}` (an interface no packet is addressed to comes and goes), `BATCH = 2`, `LWAT = 2`, `HWAT = 4`, at most 4 resolved packets. This makes the `tryLock`-fails, forced-`lock` and refresh cases all happen, and a hand-off while the shared queue is not yet drained (which is where a reordering would show).

**`status_network`** (`MC_StatusMonitor_Network.cfg`)

- Properties:
  - `NetworkDescendantSum`: in the Applications view, each item's traffic equals its own plus that of every live descendant. The check walks `ppid` chains independently of `ProcessTree`.
  - `WineHelperTrafficReattributed` (spec property 9): when a wineserver and its wine program both run, the helper's item shows no traffic, and the program's item shows at least the helper's. Spec 9 says the traffic is "moved". It does not say whether the program's own traffic is kept or replaced, and line 389 replaces it. The property holds under both readings, so it takes neither side; the overwrite is a hazard in `PROJECT.json`.
- Bounds: three pids (a wine program, its wineserver and another windowed program). Traffic rows carry 1 or 2, so a helper's traffic that overwrites the program's own differs from one added to it. Each can start under any live parent, exit and be reused, and every filter switch is allowed.

**`status_disk`** (`MC_StatusMonitor_Disk.cfg`)

- Property: `DiskTotalIsCounterDelta`. Without pid reuse, the published disk totals are the counter increases since the previous tick. The totals are summed from the first `getProcessDiskStatus` call per process (lines 319-321). The later calls at 405 and 415, which give the items their 0 rates (`status_item_disk`), do not feed the totals.
- Bounds: two pids, counters up to 2.

**`sort_descending`** (`MC_ProcessSort.cfg`)

- Property: `DescendingSortIsStrictWeak`. For every column, the descending comparator is a strict weak ordering of any three rows.
- The property holds only on two assumptions about inputs produced outside `src/`. CPU shares are finite: with `NaN` in `CpuVals`, incomparability is not transitive. The collator tells different names apart: with `MCCollateTie`, `sortByName` breaks. Each case is violated by an initial state when those constants are set.
- Bounds: three names, CPU shares {0,1}, values {0,1,2}. Three rows cover every transitivity case, and three values per field give strict, equal and mixed orders on both the primary and the tie-break key.

**`dashboard`** (`MC_Dashboard.cfg`, specification `Spec` with fairness)

- Properties:
  - `PagesFollowLoading`: once wired, the menu is disabled, the spinner running and no pages built exactly while loading; after it, one pair of pages exists, however many times `initialSysInfoLoaded` arrives.
  - `CurveShowsRecentTotals`: in compact mode each curve holds the last `pointsNumber` delivered totals behind the constructor's zeros, across any number of mode switches.
  - `CurveFitsFrame`: every scaled point lies inside the render height.
  - `LoadingEventuallyEnds`: `loading ~> ~loading`, on either CPU-vendor path.
  - `MonitorsNeverMisused`: no status slot ever uses a compact or expand monitor that was deleted or never created, and while the status monitor exists the current mode's monitors are live, through any order of mode switches and queued status events.
  - `TypeOK`.
- Bounds: `Points = 2`, render height 2, read totals truncating to 0, 1, 3 and write totals to 0, 2, so that the window slides and both the scaled and the unscaled branches happen; 2 queued events and 2 outstanding first-update requests, so that a second show while loading and a second `initialSysInfoLoaded` happen. Every stored display mode is an initial state.

### Violation runs

Each violation run checks one property. The findings in `PROJECT.json` give the details.

| Run | Property | What TLC shows |
|---|---|---|
| `capture_handle_reuse` | `HandleNeverMisused` | After `pcap_close`, `go` stays true and the next call reuses or re-closes the handle. |
| `capture_direction` | `DirectionMatchesHost` | A host MAC with a byte below 0x10 never matches, so the packet counts as outbound. With interfaces that come and go, the cache that only inserts also keeps a removed interface's address, so a packet to it counts as inbound (reproduced alone with `MCStaleIfaces`). |
| `capture_stranded` | `ResolvedEventuallyDrained` (under fairness) | Fewer than `LWAT` packets are never handed over. |
| `status_disk_reset` | `DiskTotalIgnoresCounterReset` (spec property 2) | A reused pid's counter drop wraps into a huge disk rate. |
| `status_item_disk` | `ItemDiskRateIsDelta` | The second `getProcessDiskStatus` call in one tick makes every item's disk rate 0. |
| `shortcut_conflict` | `NoShortcutConflict` | Alt+K, which the help lists as Kill process, performs Force end application, because the filter masks the modifiers. |
| `sort_ascending` | `AscendingSortIsStrictWeak` | Every ascending comparator returns `!sortOrder`, which is true for two equal rows. |

`MaxIo`, `MaxTicks` and `Word` bound the counters. `Word` stands in for 2^64: it must exceed the largest sum of rates, so that only a genuine wrap shows.

## 4. Fairness

- `capture_handoff` (`StopFairSpec`) assumes weak fairness of the capture thread as a whole (its timer re-enters `dispatchPackets`, and `pcap_dispatch` returns), weak fairness of a consumer's drain once it holds the lock, and strong fairness of the blocked `lock()` in `pcap_callback`. Packet arrival is not fair: `Callback` is one of the capture thread's steps, but `DispatchEnd` is always enabled beside it.
- The capture liveness run assumes:
  - weak fairness of each capture step;
  - weak fairness of the consumer;
  - strong fairness of `DispatchPackets` while the lock is free, because the timer keeps firing;
  - strong fairness of the forced `lock`, because `QMutex` does not starve a blocked locker forever.
- The `dashboard` run assumes weak fairness of `initUI`, `initConnections` and the first `showEvent` (the program's start-up calls them in order), of the single-shot timer, of `SystemMonitor::updateStatus` once asked, and of the event loop's delivery of `initialSysInfoLoaded` and of queued `updateDiskStatus` events. Menu actions, further shows and ticks are not assumed to happen.
- No fairness is needed for `StatusMonitor` or `ProcessSort`: their properties are all safety.

## 5. Not modelled, and why

- The cost of the refresh cadence (`netif_packet_capture.cpp:390`): `last_sockstat` and `last_ifaddrs_refresh` are locals, so every `dispatchPackets` call rebuilds the index. That makes the index fresher, not staler, so it is no hazard. The model lets any loop head refresh or not; what is read is checked (`PacketResolvedIffListed`), how often is a matter of time, which is not modelled.
- The system-wide totals of `updateStatus` (CPU, memory and network; lines 352-361, 418-435, 462-477) read no per-process state and are left out of `StatusMonitor`. Two hazards there are listed with notes: the network total's first-tick test runs before its previous value is updated, so the second tick also reports 0; and `switchTo*` runs `updateStatus` outside the timer's cadence while every rate divides by the fixed `updateSeconds`. Stating either needs elapsed time in the model or a run of its own; neither is done here.
- Wine traffic with two wineservers for one desktop file: the overwrite is listed as a hazard, but a fourth pid takes the network run past the time TLC can spend on it.
- The compact CPU, memory and network monitors: their classes are not under `src/`.
- Spec property 6 (a bounded shared queue) is not checked: `m_pendingPackets` has no bound in the code, and whether it grows depends on how fast `NetifMonitor` drains it, which is not under `src/`. The model still lets it grow, and the hazard is listed with a note.
- `displayShortcutHelpDialog` leaks one `QProcess` per preview: it calls the static `startDetached` through an instance whose `finished` never fires, so its `deleteLater` never runs. Listed as a hazard; object lifetimes outside the window's state are not modelled.
- Retired runs: the CPU share of a pid reused within one interval (practically unreachable) and the CPU and memory of windowed descendants (deliberate, see below) are kept as hazards with notes in `PROJECT.json`. The CPU `NaN` and collator-tie variants of the sort are dropped, because their inputs come from code outside `src/`.
- A stale `updateDiskStatus` queued before a mode switch can land in the new disk monitor. `CurveShowsRecentTotals` follows delivered totals and accepts this; it moves one point of a fresh sparkline.
- `showEvent` never closes the `/proc/cpuinfo` file it opens. This is listed as a hazard; descriptors are not modelled.
- Spec property 3 is checked only for network traffic. `updateStatus` deliberately leaves the CPU and memory of windowed descendants at 0 (lines 307-315), because they are listed as their own rows.
- Out of scope:
  - painting, layout and icons (`ProcessItem::draw*`, `CompactDiskMonitor::paintEvent`), and `ProcessItem::search`, which is substring and pinyin matching of names; window-size persistence (`resizeEvent`/`closeEvent` only write settings);
  - `GraphicsCPUInfoGridLayout`, which is only a declaration;
  - the empty unit tests;
  - the internals of `NetifMonitor` and `NetworkTrafficFilter` (not under `src/`).
