------------------------------ MODULE Supervisor ------------------------------
(***************************************************************************)
(* The supervisor process of one headed instance: it holds a connection to *)
(* the browser on a port, marks its tabs with a border while the user's    *)
(* window-border setting is on, and retires the instance when the browser  *)
(* is gone.                                                                *)
(*                                                                         *)
(* A step is what the event loop does between two awaits.  Chrome drops    *)
(* what a session registered when its connection ends; what is drawn in a  *)
(* document stays until the tab navigates.                                 *)
(*                                                                         *)
(* MaxToggles bounds how often the user changes the setting, MaxArrivals   *)
(* how many other browsers come to listen on the port.                     *)
(***************************************************************************)
EXTENDS Naturals, Sequences

CONSTANTS Tabs,          \* the page targets of the browser that was launched
          ScanMayFail,   \* ps may fail or time out
          MaxToggles, MaxArrivals

ASSUME SupervisorAssumption ==
  ScanMayFail \in BOOLEAN /\ MaxToggles \in Nat /\ MaxArrivals \in Nat

VARIABLES
  port,        \* whose browser listens on the port
  arrivals,    \* the other browsers that took it so far
  registered,  \* the instance has its registry entry
  sup,         \* where the supervisor's loop is
  why,         \* why it exited
  conn,        \* whose browser it is connected to
  setting,     \* the window-border setting
  toggles,     \* how often it changed
  on,          \* BorderSetting.on
  tab,         \* the tabs, as the browser has them
  handled,     \* the targets it was told of and handles
  mark,        \* its TabMark of a tab: "none", or whether it holds a script
  setup,       \* _mark_target and _setup_session, per tab
  queue,       \* the _set_tab_border calls on a tab's lock, by `want'
  half         \* the first of them has done the first of its two calls

link == <<port, arrivals, registered, sup, why, conn>>
work == <<handled, mark, setup, queue, half>>
vars == <<link, setting, toggles, on, tab, work>>

\* A "twin" runs on the same user-data-dir: the profile, launched again.
Browsers == {"ours", "twin", "other"}
Phases == {"connect", "watch", "grace", "check", "reconnect", "retire", "exited"}

TypeOK ==
  /\ port \in Browsers \cup {"none"}
  /\ arrivals \in 0..MaxArrivals
  /\ registered \in BOOLEAN
  /\ sup \in Phases
  /\ why \in {"running", "retired", "stranger", "failed", "killed"}
  /\ conn \in Browsers \cup {"none"}
  /\ setting \in BOOLEAN /\ toggles \in 0..MaxToggles /\ on \in BOOLEAN
  /\ tab \in [Tabs -> [life : {"unborn", "open", "closed"},
                       drawn : BOOLEAN, scripts : 0..1]]
  /\ handled \in SUBSET Tabs
  /\ mark \in [Tabs -> {"none", "bare", "scripted"}]
  /\ setup \in [Tabs -> {"none", "attaching", "attached", "titling"}]
  /\ queue \in [Tabs -> Seq(BOOLEAN)]
  /\ \A t \in Tabs : Len(queue[t]) <= MaxToggles + 1
  /\ half \in [Tabs -> BOOLEAN]

Each(v) == [t \in Tabs |-> v]
Fresh == [life |-> "unborn", drawn |-> FALSE, scripts |-> 0]

Init ==
  /\ port = "ours" /\ arrivals = 0 /\ registered = TRUE
  /\ sup = "connect" /\ why = "running" /\ conn = "none"
  /\ setting \in BOOLEAN /\ toggles = 0 /\ on = setting
  /\ tab = Each(Fresh)
  /\ handled = {} /\ mark = Each("none") /\ setup = Each("none")
  /\ queue = Each(<<>>) /\ half = Each(FALSE)

Live(t) == conn = "ours" /\ tab[t].life = "open"

\* The tasks of a connection fail with it, and its marks are forgotten.
ForgetWork == /\ handled' = {} /\ mark' = Each("none") /\ setup' = Each("none")
              /\ queue' = Each(<<>>) /\ half' = Each(FALSE)

EndSessions(T) == [t \in Tabs |-> [T[t] EXCEPT !.scripts = 0]]
-----------------------------------------------------------------------------
(* The browsers, the tabs and the user *)

BrowserCloses ==
  /\ port # "none"
  /\ port' = "none"
  /\ IF conn = port THEN conn' = "none" /\ ForgetWork ELSE UNCHANGED <<conn, work>>
  /\ tab' = IF port = "ours"
            THEN [t \in Tabs |-> [Fresh EXCEPT !.life = "closed"]]
            ELSE tab
  /\ UNCHANGED <<arrivals, registered, sup, why, setting, toggles, on>>

AnotherArrives ==
  /\ port = "none"
  /\ arrivals < MaxArrivals
  /\ port' \in {"twin", "other"}
  /\ arrivals' = arrivals + 1
  /\ UNCHANGED <<registered, sup, why, conn, setting, toggles, on, tab, work>>

Toggle == /\ toggles < MaxToggles
          /\ setting' = ~setting
          /\ toggles' = toggles + 1
          /\ UNCHANGED <<link, on, tab, work>>

TabOpens(t) == /\ port = "ours"
               /\ tab[t].life = "unborn"
               /\ tab' = [tab EXCEPT ![t].life = "open"]
               /\ UNCHANGED <<link, setting, toggles, on, work>>

TabCloses(t) ==
  /\ tab[t].life = "open"
  /\ tab' = [tab EXCEPT ![t] = [Fresh EXCEPT !.life = "closed"]]
  /\ UNCHANGED <<link, setting, toggles, on, work>>

\* A new document runs the registered scripts.
Navigated(t) == tab' = [tab EXCEPT ![t].drawn = tab[t].scripts > 0]

TabNavigates(t) == /\ tab[t].life = "open"
                   /\ Navigated(t)
                   /\ UNCHANGED <<link, setting, toggles, on, work>>

\* The socket breaks, or a health ping is not answered, and the browser lives.
ConnectionDrops ==
  /\ conn # "none"
  /\ conn' = "none"
  /\ tab' = EndSessions(tab)
  /\ ForgetWork
  /\ UNCHANGED <<port, arrivals, registered, sup, why, setting, toggles, on>>

-----------------------------------------------------------------------------
(* _supervise_forever *)

Goto(phase) == sup' = phase /\ UNCHANGED <<port, arrivals, registered, why, conn>>
Exit(reason) == sup' = "exited" /\ why' = reason

Connect == /\ sup \in {"connect", "reconnect"}
           /\ port # "none"
           /\ sup' = "watch"
           /\ conn' = port
           /\ UNCHANGED <<port, arrivals, registered, why, setting, toggles, on,
                          tab, work>>

\* Nothing listens, or the browser does not answer in time.
ConnectFails == /\ sup \in {"connect", "reconnect"}
                /\ Goto("grace")
                /\ UNCHANGED <<setting, toggles, on, tab, work>>

LeaveLoop == /\ sup = "watch"
             /\ conn = "none"
             /\ Goto("grace")
             /\ UNCHANGED <<setting, toggles, on, tab, work>>

\* Fault: a dropped connection is taken as proof that the browser closed.
BrowserGoneTrusting ==
  /\ sup = "grace"
  /\ Goto("retire")
  /\ UNCHANGED <<setting, toggles, on, tab, work>>

\* _browser_gone: the port stopped listening within the grace period, or not.
BrowserGone == /\ sup = "grace"
               /\ Goto(IF port = "none" THEN "retire" ELSE "check")
               /\ UNCHANGED <<setting, toggles, on, tab, work>>

\* Fault: a stranger is not adopted, and not given up either.
GiveUpLooping == /\ sup = "check"
                 /\ port = "other"
                 /\ Goto("grace")
                 /\ UNCHANGED <<setting, toggles, on, tab, work>>

\* _port_serves_our_browser: a browser on another user-data-dir has the port.
GiveUp == /\ sup = "check"
          /\ port = "other"
          /\ Exit("stranger")
          /\ conn' = "none"
          /\ UNCHANGED <<port, arrivals, registered, setting, toggles, on, tab,
                         work>>

\* Our directory is on the port, nobody claims it, or the scan failed.
TryAgain == /\ sup = "check"
            /\ port = "other" => ScanMayFail
            /\ Goto("reconnect")
            /\ UNCHANGED <<setting, toggles, on, tab, work>>

Retire == /\ sup = "retire"
          /\ registered' = FALSE
          /\ Exit("retired")
          /\ UNCHANGED <<port, arrivals, conn, setting, toggles, on, tab, work>>

\* registry_lock is not free for 30 s: it times out, or the watchdog, which
\* waits as long for the blocked loop, comes first.
RetireFails == /\ sup = "retire"
               /\ Exit("failed")
               /\ UNCHANGED <<port, arrivals, registered, conn, setting, toggles,
                              on, tab, work>>

\* A signal, the watchdog or a `bt stop' ends the process, and its connection.
Dies == /\ sup # "exited"
        /\ Exit("killed")
        /\ conn' = "none"
        /\ tab' = EndSessions(tab)
        /\ ForgetWork
        /\ UNCHANGED <<port, arrivals, registered, setting, toggles, on>>

-----------------------------------------------------------------------------
(* _supervise_connection: the border of the tabs *)

Add(t, want) == queue' = [queue EXCEPT ![t] = Append(@, want)]

\* Fault: the loop polls for the border to come, and not for it to go.
TickOnlyOn == /\ sup = "watch"
              /\ setting /\ ~on
              /\ on' = setting
              /\ queue' = [t \in Tabs |-> IF mark[t] = "none" THEN queue[t]
                                          ELSE Append(queue[t], setting)]
              /\ UNCHANGED <<link, setting, toggles, tab, handled, mark, setup, half>>

\* Every second: a setting that changed goes to every marked tab.
Tick == /\ sup = "watch"
        /\ on # setting
        /\ on' = setting
        /\ queue' = [t \in Tabs |-> IF mark[t] = "none" THEN queue[t]
                                    ELSE Append(queue[t], setting)]
        /\ UNCHANGED <<link, setting, toggles, tab, handled, mark, setup, half>>

SetupTo(t, step) == setup' = [setup EXCEPT ![t] = step]

\* on_created
Discover(t) == /\ Live(t)
               /\ t \notin handled
               /\ setup[t] = "none"
               /\ handled' = handled \cup {t}
               /\ SetupTo(t, "attaching")
               /\ UNCHANGED <<link, setting, toggles, on, tab, mark, queue, half>>

\* on_destroyed
Destroyed(t) == /\ conn = "ours"
                /\ tab[t].life = "closed"
                /\ t \in handled
                /\ handled' = handled \ {t}
                /\ mark' = [mark EXCEPT ![t] = "none"]
                /\ UNCHANGED <<link, setting, toggles, on, tab, setup, queue, half>>

\* Chrome answers the attach; the task goes on later.
Attached(t) == /\ setup[t] = "attaching"
               /\ SetupTo(t, IF tab[t].life = "open" THEN "attached" ELSE "none")
               /\ UNCHANGED <<link, setting, toggles, on, tab, handled, mark,
                              queue, half>>

MarkTab(t) == /\ setup[t] = "attached"
              /\ mark' = [mark EXCEPT ![t] = "bare"]
              /\ SetupTo(t, "titling")
              /\ UNCHANGED <<link, setting, toggles, on, tab, handled, queue, half>>

\* _setup_session resumes the target and adds the title script; the border
\* comes last ...
Titled(t) == /\ setup[t] = "titling"
             /\ tab[t].life = "open"
             /\ SetupTo(t, "none")
             /\ Add(t, on)
             /\ UNCHANGED <<link, setting, toggles, on, tab, handled, mark, half>>

\* ... and not at all when the tab closes, or navigates under the evaluation.
TitleFails(t) == /\ setup[t] = "titling"
                 /\ SetupTo(t, "none")
                 /\ IF tab[t].life = "open" THEN Navigated(t) ELSE UNCHANGED tab
                 /\ UNCHANGED <<link, setting, toggles, on, handled, mark, queue,
                                half>>

Want(t, want) == queue[t] # <<>> /\ Head(queue[t]) = want
Done(t) == /\ queue' = [queue EXCEPT ![t] = Tail(@)]
           /\ half' = [half EXCEPT ![t] = FALSE]
Halfway(t) == half' = [half EXCEPT ![t] = TRUE] /\ UNCHANGED queue

\* Fault: the identifier is stored only when both calls are through.
RegisterBorderLate(t) == /\ Live(t) /\ Want(t, TRUE) /\ ~half[t]
                         /\ mark[t] = "bare"
                         /\ tab' = [tab EXCEPT ![t].scripts = 1]
                         /\ \/ Done(t) /\ UNCHANGED mark
                            \/ Halfway(t) /\ mark' = [mark EXCEPT ![t] = "scripted"]
                         /\ UNCHANGED <<link, setting, toggles, on, handled, setup>>

\* _set_tab_border, on: the script is registered, its identifier stored ...
RegisterBorder(t) == /\ Live(t) /\ Want(t, TRUE) /\ ~half[t]
                     /\ mark[t] = "bare"
                     /\ tab' = [tab EXCEPT ![t].scripts = 1]
                     /\ mark' = [mark EXCEPT ![t] = "scripted"]
                     /\ Halfway(t)
                     /\ UNCHANGED <<link, setting, toggles, on, handled, setup>>

\* ... and then it is run in the current document, or in the one that replaces it.
DrawBorder(t) == /\ Live(t) /\ Want(t, TRUE) /\ half[t]
                 /\ tab' = [tab EXCEPT ![t].drawn = TRUE]
                 /\ Done(t)
                 /\ UNCHANGED <<link, setting, toggles, on, handled, mark, setup>>

KeepBorder(t) == /\ Want(t, TRUE) /\ ~half[t]
                 /\ mark[t] = "scripted"
                 /\ Done(t)
                 /\ UNCHANGED <<link, setting, toggles, on, tab, handled, mark, setup>>

\* off: the script goes first, so that no later document runs it ...
UnregisterBorder(t) == /\ Live(t) /\ Want(t, FALSE) /\ ~half[t]
                       /\ mark[t] = "scripted"
                       /\ tab' = [tab EXCEPT ![t].scripts = 0]
                       /\ mark' = [mark EXCEPT ![t] = "bare"]
                       /\ Halfway(t)
                       /\ UNCHANGED <<link, setting, toggles, on, handled, setup>>

\* ... and the removal runs always, for a border of an earlier connection too.
EraseBorder(t) == /\ Live(t) /\ Want(t, FALSE)
                  /\ half[t] \/ mark[t] = "bare"
                  /\ tab' = [tab EXCEPT ![t].drawn = FALSE]
                  /\ Done(t)
                  /\ UNCHANGED <<link, setting, toggles, on, handled, mark, setup>>

\* The tab closed under the change.
BorderFails(t) == /\ tab[t].life = "closed"
                  /\ queue[t] # <<>>
                  /\ Done(t)
                  /\ UNCHANGED <<link, setting, toggles, on, tab, handled, mark, setup>>

TabWork(t) ==
  \/ Discover(t) \/ Destroyed(t) \/ Attached(t) \/ MarkTab(t)
  \/ Titled(t) \/ TitleFails(t)
  \/ RegisterBorder(t) \/ DrawBorder(t) \/ KeepBorder(t)
  \/ UnregisterBorder(t) \/ EraseBorder(t) \/ BorderFails(t)

Next == \/ BrowserCloses \/ AnotherArrives \/ Toggle \/ ConnectionDrops
        \/ Connect \/ ConnectFails \/ LeaveLoop \/ BrowserGone \/ GiveUp \/ TryAgain
        \/ Retire \/ RetireFails \/ Dies \/ Tick
        \/ \E t \in Tabs : TabOpens(t) \/ TabCloses(t) \/ TabNavigates(t) \/ TabWork(t)

Spec == Init /\ [][Next]_vars

\* Every wait of the loop ends, Chrome answers or drops the connection, and a
\* scan of the processes does not fail for ever.
Fairness == /\ WF_vars(Connect \/ ConnectFails)
            /\ WF_vars(LeaveLoop)
            /\ WF_vars(BrowserGone)
            /\ WF_vars(GiveUp \/ TryAgain)
            /\ SF_vars(GiveUp)
            /\ WF_vars(Retire \/ RetireFails)
            /\ WF_vars(Tick)
            /\ \A t \in Tabs : WF_vars(TabWork(t))

FairSpec == Spec /\ Fairness
-----------------------------------------------------------------------------
Idle(t) == setup[t] = "none" /\ queue[t] = <<>>

\* _set_tab_border: "a failure between the two would otherwise lose the
\* identifier": while nothing is in flight on an open tab, its mark holds an
\* identifier just when a script is registered, so a later off can remove it.
ScriptIsHeld ==
  \A t \in Tabs : (Live(t) /\ Idle(t)) => (tab[t].scripts = 1 <=> mark[t] = "scripted")

\* The setting has come to every tab it must come to.
Settled(t) == Live(t) /\ t \in handled /\ Idle(t) /\ on = setting

\* Off is honoured whatever came before: a toggle in the middle of the setup, a
\* reconnect that lost the identifiers, a navigation between the two calls.
OffIsClean == \A t \in Tabs : (Settled(t) /\ ~on) => ~tab[t].drawn /\ tab[t].scripts = 0

(* Borders follow the setting through navigations and reconnects: a tab   *)
(* that is settled holds its script once while borders are on, and is     *)
(* clean while they are off (core/supervisor.py).                         *)
BordersFollow == TypeOK /\ ScriptIsHeld /\ OffIsClean

\* run_supervisor: "a dropped CDP connection is NOT taken as proof the browser
\* closed": through drops, failed connects and scans, the entry of a live
\* browser is never retired.
RetiresOnlyGone == port = "ours" => registered /\ why \notin {"retired", "stranger"}

\* Once the setting is off and stays off, the border goes from every tab of a
\* connection that lasts.
OffReachesEveryTab ==
  \A t \in Tabs :
     (Live(t) /\ ~setting)
        ~> (setting \/ ~Live(t) \/ (~tab[t].drawn /\ tab[t].scripts = 0))

\* A closed browser does not keep its supervisor, or its entry, for long: the
\* instance is retired, unless the supervisor is killed, is refused the registry,
\* or another browser has taken the port.
CloseIsRetired ==
  (port # "ours") ~> \/ ~registered
                     \/ why \in {"stranger", "failed", "killed"}
                     \/ conn # "none" \/ port = "twin"
=============================================================================
