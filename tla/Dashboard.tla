------------------------------ MODULE Dashboard ------------------------------
(***************************************************************************)
(* The GUI thread around the attribution tick: the main window's loading   *)
(* phase (src/src/gui/main_window.cpp), the status monitor's compact mode  *)
(* and the queued delivery of its disk totals (src/src/status_monitor.cpp) *)
(* and the compact disk monitor's sparkline (src/src/compact_disk_monitor  *)
(* .cpp).                                                                  *)
(*                                                                         *)
(* initUI shows a spinner and disables the title-bar menu; showEvent, while *)
(* loading, asks the system monitor for a first update (directly on an     *)
(* AMD or Intel CPU, after a 100 ms single-shot timer otherwise); the      *)
(* system monitor's initialSysInfoLoaded signal builds the pages and ends  *)
(* loading. The menu's display-mode actions switch the status monitor      *)
(* between compact and expanded mode. Every tick of the status monitor     *)
(* emits updateDiskStatus, which a queued connection delivers to           *)
(* handleDiskStatus; in compact mode that feeds the disk monitor, which    *)
(* keeps the last pointsNumber totals and scales them into a curve.        *)
(*                                                                         *)
(* The system monitor, the code that calls initUI, initConnections and     *)
(* show, and the receiver of displayModeChanged are not in the repository: *)
(* they are modelled from spec 9 and marked so. A disk total is the tick's *)
(* byte rate; the signal carries it divided by 1000 and the disk monitor   *)
(* takes it as an unsigned long, i.e. truncated to whole units.            *)
(***************************************************************************)
EXTENDS Naturals, Sequences, SequencesExt

CONSTANTS
  Points,       \* CompactDiskMonitor::pointsNumber
  RenderMax,    \* readRenderMaxHeight = writeRenderMaxHeight
  ReadTotals,   \* diskReadTotalKbs values a tick can publish
  WriteTotals,  \* diskWriteTotalKbs values a tick can publish
  MaxQueue,     \* bound on queued updateDiskStatus events
  MaxPending    \* bound on outstanding first-update requests while loading

ASSUME /\ Points \in Nat \ {0}
       /\ RenderMax \in Nat \ {0}
       /\ MaxQueue \in Nat \ {0}
       /\ MaxPending \in Nat \ {0}

Modes == {"expand", "compact"}

\* What getOption(kSettingKeyDisplayMode) can hold: a mode, another integer,
\* something toInt() rejects, or nothing.
Stored == Modes \cup {"otherInt", "notInt", "invalid"}

VARIABLES
  \* MainWindow
  stage,        \* startup: "new", "ui" (initUI ran), "ready" (initConnections ran)
  vendor,       \* the vendor_id line of /proc/cpuinfo: "x86" (AMD/Intel) or "other"
  shown,        \* a showEvent has happened
  loading,      \* m_loading
  menuDisabled, \* titlebar()->setMenuDisabled
  spinner,      \* m_spinner running
  pages,        \* ProcessPageWidget/SystemServicePageWidget pairs created
  checked,      \* the checked display-mode action: a mode or "none"
  modeSetting,  \* the stored display mode
  timers,       \* single-shot timers started by showEvent, not yet fired
  monRequests,  \* SystemMonitor::updateStatus calls not yet run
  infoPending,  \* initialSysInfoLoaded emissions not yet handled
  \* StatusMonitor
  smAlive,      \* the status monitor has been constructed
  compact,      \* isCompactMode
  widgets,      \* per mode, its monitor widgets: "none" (pointers never set),
                \* "live", "deleted" (deleteLater called) or "invalid" (a
                \* pointer of that mode used while not live: undefined)
  events,       \* queued status signals of a tick: memory, cpu, network and
                \* updateDiskStatus(read, write)
  \* CompactDiskMonitor
  read,         \* [speeds |-> readSpeeds, points |-> readPath's points]
  write,        \* the same for the write curve
  fed           \* ghost: the last totals delivered to the current disk monitor

window == <<stage, vendor, shown, loading, menuDisabled, spinner, pages,
            checked, modeSetting, timers, monRequests, infoPending>>
status == <<smAlive, compact, widgets, events, read, write, fed>>
vars   == <<window, status>>

-----------------------------------------------------------------------------
(* CompactDiskMonitor.                                                     *)

\* A point's height as the fraction num / den.
Height(v, mx) ==
  IF mx < RenderMax THEN [num |-> v, den |-> 1]
  ELSE [num |-> v * RenderMax, den |-> mx]

Curve(s, mx) == [speeds |-> s, points |-> [i \in DOMAIN s |-> Height(s[i], mx)]]

Zeros(n) == [i \in 1..n |-> 0]

\* Mutation: the constructor does not pre-fill the list.
NewCurve_empty == [speeds |-> <<>>, points |-> <<>>]

\* The constructor: pointsNumber zero samples, no path yet.
NewCurve == [speeds |-> Zeros(Points), points |-> <<>>]

\* No disk monitor (expanded mode, or deleted by disableCompactMode).
NoCurve == [speeds |-> <<>>, points |-> <<>>]

\* Mutation: the scale is taken from the samples before the new one.
UpdateCurve_staleMax(c, v) ==
  LET s1 == Append(c.speeds, v)
      s  == IF Len(s1) > Points THEN Tail(s1) ELSE s1
  IN  Curve(s, Max(ToSet(c.speeds) \cup {0}))

\* Mutation: the oldest sample is not dropped.
UpdateCurve_noPop(c, v) ==
  LET s == Append(c.speeds, v)
  IN  Curve(s, Max(ToSet(s) \cup {0}))

\* updateStatus for one direction: append, drop the oldest beyond
\* pointsNumber, find the largest sample and scale the points by it when it
\* reaches the render height.
UpdateCurve(c, v) ==
  LET s1 == Append(c.speeds, v)
      s  == IF Len(s1) > Points THEN Tail(s1) ELSE s1
  IN  Curve(s, Max(ToSet(s) \cup {0}))

\* float -> unsigned long of total / 1000.0
ToUnits(total) == total \div 1000

\* The ghost keeps the last Points totals a monitor was given.
Recent(s) == IF Len(s) > Points THEN Tail(s) ELSE s

-----------------------------------------------------------------------------
(* StatusMonitor: compact mode and the disk totals.                        *)

\* The monitors of the mode a flag selects.
Mode(c) == IF c THEN "compact" ELSE "expand"

\* The pointers of a mode's monitors used (removeWidget, deleteLater,
\* updateStatus): harmless while live, undefined otherwise.
Used(w) == IF w = "live" THEN "live" ELSE "invalid"
Released(w) == IF w = "live" THEN "deleted" ELSE "invalid"

\* The new disk monitor's curves (the other compact monitors hold no state
\* a property reads).
NewMonitors ==
  /\ read' = NewCurve
  /\ write' = NewCurve
  /\ fed' = [r |-> <<>>, w |-> <<>>]

DropMonitors ==
  /\ read' = NoCurve
  /\ write' = NoCurve
  /\ fed' = [r |-> <<>>, w |-> <<>>]

\* initCompactMode: create the monitors of the mode read from the settings.
InitCompactMode(c) ==
  /\ widgets' = [m \in Modes |-> IF m = Mode(c) THEN "live" ELSE "none"]
  /\ IF c THEN NewMonitors ELSE UNCHANGED <<read, write, fed>>

\* Mutation: the isCompactMode test is dropped.
EnableCompactMode_unguarded ==
  /\ widgets' = [widgets EXCEPT !["expand"] = Released(@),
                                !["compact"] = "live"]
  /\ NewMonitors
  /\ compact' = TRUE

\* enableCompactMode: unless already compact, remove and deleteLater the
\* expanded monitors and create the compact ones.
EnableCompactMode ==
  /\ IF ~compact
     THEN /\ widgets' = [widgets EXCEPT !["expand"] = Released(@),
                                        !["compact"] = "live"]
          /\ NewMonitors
     ELSE UNCHANGED <<widgets, read, write, fed>>
  /\ compact' = TRUE

\* disableCompactMode: the converse.
DisableCompactMode ==
  /\ IF compact
     THEN /\ widgets' = [widgets EXCEPT !["compact"] = Released(@),
                                        !["expand"] = "live"]
          /\ DropMonitors
     ELSE UNCHANGED <<widgets, read, write, fed>>
  /\ compact' = FALSE

\* The receiver of displayModeChanged (not in the repository): it switches
\* the status monitor, if there is one, to the chosen mode.
DisplayModeChanged(m) ==
  IF smAlive
  THEN /\ IF m = "compact" THEN EnableCompactMode ELSE DisableCompactMode
       /\ UNCHANGED <<smAlive, events>>
  ELSE UNCHANGED status

\* The constructor: read compact_mode, initCompactMode, start the timer.
NewStatusMonitor ==
  /\ ~smAlive
  /\ smAlive' = TRUE
  /\ \E c \in BOOLEAN :
       /\ compact' = c
       /\ InitCompactMode(c)
  /\ UNCHANGED <<window, events>>

\* updateStatus emits updateMemoryStatus, updateCpuStatus,
\* updateNetworkStatus and, last, updateDiskStatus(read / 1000, write / 1000),
\* all through queued connections; they are posted together and delivered
\* together.
EmitStatus ==
  /\ smAlive
  /\ Len(events) < MaxQueue
  /\ \E r \in ReadTotals, w \in WriteTotals :
       events' = Append(events, [r |-> ToUnits(r), w |-> ToUnits(w)])
  /\ UNCHANGED <<window, smAlive, compact, widgets, read, write, fed>>

\* handleMemoryStatus, handleCpuStatus and handleNetworkStatus, run by the
\* event loop, pass the values to the monitors of the current mode;
\* handleDiskStatus, in compact mode, to the disk monitor's updateStatus
\* and in expanded mode nowhere.
HandleStatus ==
  /\ events # <<>>
  /\ widgets' = [widgets EXCEPT ![Mode(compact)] = Used(@)]
  /\ LET e == Head(events) IN
       IF compact
       THEN /\ read' = UpdateCurve(read, e.r)
            /\ write' = UpdateCurve(write, e.w)
            /\ fed' = [r |-> Recent(Append(fed.r, e.r)),
                       w |-> Recent(Append(fed.w, e.w))]
       ELSE UNCHANGED <<read, write, fed>>
  /\ events' = Tail(events)
  /\ UNCHANGED <<window, smAlive, compact>>

-----------------------------------------------------------------------------
(* MainWindow.                                                             *)

\* The lambda initConnections connects to loadingStatusChanged; before
\* initConnections the signal reaches nobody.
LoadingStatusChanged(b) ==
  menuDisabled' = IF stage = "ready" THEN b ELSE menuDisabled

\* initUI: enter loading, disable the menu, check the stored display mode
\* (resetting it to expanded when it is not an integer), start the spinner.
InitUI ==
  /\ stage = "new"
  /\ stage' = "ui"
  /\ loading' = TRUE
  /\ menuDisabled' = TRUE
  /\ spinner' = TRUE
  /\ CASE modeSetting \in Modes ->
            /\ checked' = modeSetting
            /\ UNCHANGED <<modeSetting, status>>
       [] modeSetting = "notInt" ->
            /\ checked' = "expand"
            /\ modeSetting' = "expand"
            /\ DisplayModeChanged("expand")
       [] OTHER ->
            UNCHANGED <<checked, modeSetting, status>>
  /\ UNCHANGED <<vendor, shown, pages, timers, monRequests, infoPending>>

InitConnections ==
  /\ stage = "ui"
  /\ stage' = "ready"
  /\ UNCHANGED <<vendor, shown, loading, menuDisabled, spinner, pages, checked,
                 modeSetting, timers, monRequests, infoPending, status>>

\* Mutation: on a CPU that is not AMD or Intel no timer is started.
ShowEvent_noTimer ==
  /\ stage = "ready"
  /\ loading
  /\ timers + monRequests + infoPending < MaxPending
  /\ shown' = TRUE
  /\ IF vendor = "x86" THEN monRequests' = monRequests + 1
     ELSE UNCHANGED monRequests
  /\ UNCHANGED <<stage, vendor, loading, menuDisabled, spinner, pages, checked,
                 modeSetting, timers, infoPending, status>>

\* showEvent while loading: read the CPU vendor; on AMD or Intel call the
\* system monitor's updateStatus, otherwise start a 100 ms single-shot
\* timer that will. After loading, showEvent changes nothing modelled.
ShowEvent ==
  /\ stage = "ready"
  /\ loading
  /\ timers + monRequests + infoPending < MaxPending
  /\ shown' = TRUE
  /\ IF vendor = "x86"
     THEN /\ monRequests' = monRequests + 1
          /\ UNCHANGED timers
     ELSE /\ timers' = timers + 1
          /\ UNCHANGED monRequests
  /\ UNCHANGED <<stage, vendor, loading, menuDisabled, spinner, pages, checked,
                 modeSetting, infoPending, status>>

\* m_timer's timeout lambda.
TimerFire ==
  /\ timers > 0
  /\ timers' = timers - 1
  /\ monRequests' = monRequests + 1
  /\ UNCHANGED <<stage, vendor, shown, loading, menuDisabled, spinner, pages,
                 checked, modeSetting, infoPending, status>>

\* SystemMonitor::updateStatus (not in the repository): it ends by emitting
\* initialSysInfoLoaded.
MonitorUpdate ==
  /\ monRequests > 0
  /\ monRequests' = monRequests - 1
  /\ infoPending' = infoPending + 1
  /\ UNCHANGED <<stage, vendor, shown, loading, menuDisabled, spinner, pages,
                 checked, modeSetting, timers, status>>

\* Mutation: the handler does not test m_loading.
InitialSysInfoLoaded_noGuard ==
  /\ infoPending > 0
  /\ infoPending' = infoPending - 1
  /\ spinner' = FALSE
  /\ pages' = pages + 1
  /\ loading' = FALSE
  /\ LoadingStatusChanged(FALSE)
  /\ UNCHANGED <<stage, vendor, shown, checked, modeSetting, timers,
                 monRequests, status>>

\* The initialSysInfoLoaded handler of initUI: the first time, while loading,
\* stop the spinner, create the pages and leave loading.
InitialSysInfoLoaded ==
  /\ infoPending > 0
  /\ infoPending' = infoPending - 1
  /\ IF loading
     THEN /\ spinner' = FALSE
          /\ pages' = pages + 1
          /\ loading' = FALSE
          /\ LoadingStatusChanged(FALSE)
     ELSE UNCHANGED <<spinner, pages, loading, menuDisabled>>
  /\ UNCHANGED <<stage, vendor, shown, checked, modeSetting, timers,
                 monRequests, status>>

\* The Expand and Compact actions of the title-bar menu (reachable only
\* while the menu is enabled): store the mode and emit displayModeChanged.
ModeAction(m) ==
  /\ ~menuDisabled
  /\ checked' = m
  /\ modeSetting' = m
  /\ DisplayModeChanged(m)
  /\ UNCHANGED <<stage, vendor, shown, loading, menuDisabled, spinner, pages,
                 timers, monRequests, infoPending>>

-----------------------------------------------------------------------------
Init ==
  /\ stage = "new"
  /\ vendor \in {"x86", "other"}
  /\ shown = FALSE
  /\ loading = FALSE
  /\ menuDisabled = FALSE
  /\ spinner = FALSE
  /\ pages = 0
  /\ checked = "none"
  /\ modeSetting \in Stored
  /\ timers = 0
  /\ monRequests = 0
  /\ infoPending = 0
  /\ smAlive = FALSE
  /\ compact = FALSE
  /\ widgets = [m \in Modes |-> "none"]
  /\ events = <<>>
  /\ read = NoCurve
  /\ write = NoCurve
  /\ fed = [r |-> <<>>, w |-> <<>>]

Next ==
  \/ InitUI \/ InitConnections \/ ShowEvent \/ TimerFire
  \/ MonitorUpdate \/ InitialSysInfoLoaded
  \/ \E m \in Modes : ModeAction(m)
  \/ NewStatusMonitor \/ EmitStatus \/ HandleStatus

(* main() runs initUI, initConnections and show(); the event loop fires    *)
(* due timers and delivers posted events and queued signals, and the       *)
(* system monitor's update runs when asked. Repeated shows, the menu, the  *)
(* status monitor's creation and its ticks are not assumed to happen.      *)
Fairness ==
  /\ WF_vars(InitUI) /\ WF_vars(InitConnections)
  /\ WF_vars(ShowEvent /\ ~shown)
  /\ WF_vars(TimerFire) /\ WF_vars(MonitorUpdate)
  /\ WF_vars(InitialSysInfoLoaded) /\ WF_vars(HandleStatus)

Spec == Init /\ [][Next]_vars /\ Fairness

-----------------------------------------------------------------------------
(* Properties.                                                             *)

TypeOK ==
  /\ stage \in {"new", "ui", "ready"}
  /\ vendor \in {"x86", "other"}
  /\ {shown, loading, menuDisabled, spinner, smAlive, compact} \subseteq BOOLEAN
  /\ pages \in 0..MaxPending
  /\ checked \in Modes \cup {"none"}
  /\ modeSetting \in Stored
  /\ {timers, monRequests, infoPending} \subseteq 0..MaxPending
  /\ widgets \in [Modes -> {"none", "live", "deleted", "invalid"}]
  /\ Len(events) <= MaxQueue
  /\ \A c \in {read, write} : Len(c.speeds) <= Points
  /\ Len(fed.r) <= Points /\ Len(fed.w) <= Points

\* Once the window is wired up, the title-bar menu is enabled, the spinner
\* stopped and the process and service pages built exactly when loading has
\* ended: initialSysInfoLoaded, however often the system monitor emits it
\* and whichever of showEvent's paths led to it, builds the pages once and
\* re-enables the menu through loadingStatusChanged.
PagesFollowLoading ==
  stage = "ready" =>
    /\ menuDisabled = loading
    /\ spinner = loading
    /\ pages = IF loading THEN 0 ELSE 1

\* The monitor pointers are safe to use: a status signal queued before a
\* mode switch and handled after it reaches the monitors of the mode in
\* force, which exist; no switch removes or deletes monitors that were
\* never created (the other mode's pointers are unset when the status
\* monitor starts) or were already handed to deleteLater.
MonitorsNeverMisused ==
  /\ \A m \in Modes : widgets[m] # "invalid"
  /\ smAlive => widgets[Mode(compact)] = "live"

\* The last n elements of s.
LastN(s, n) == SubSeq(s, Len(s) - n + 1, Len(s))

\* In compact mode each disk curve holds pointsNumber samples: the totals
\* handleDiskStatus delivered to the current CompactDiskMonitor, newest
\* last, behind the zeros its constructor put there; a mode switch starts a
\* fresh monitor.
CurveShowsRecentTotals ==
  compact =>
    /\ read.speeds = LastN(Zeros(Points) \o fed.r, Points)
    /\ write.speeds = LastN(Zeros(Points) \o fed.w, Points)

\* Every point updateStatus computes lies inside the curve's render height:
\* the scale is the maximum of the very samples being drawn.
CurveFitsFrame ==
  \A c \in {read, write} :
    \A i \in DOMAIN c.points : c.points[i].num <= RenderMax * c.points[i].den

\* Loading ends: whatever the CPU vendor, showEvent's request (direct or
\* through the single-shot timer) makes the system monitor emit
\* initialSysInfoLoaded, and the window leaves the spinner.
LoadingEventuallyEnds == loading ~> ~loading

=============================================================================
