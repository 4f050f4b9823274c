--------------------------- MODULE StopProcess --------------------------
(* stop ends a browser by process ids that are only hints: they are found *)
(* by their command line, proved again before each signal, and may belong *)
(* to another program a moment later. What the tool keeps for recovery is *)
(* removed when the browser has provably gone, and not before. With a     *)
(* target, only that tab is closed.                                       *)
EXTENDS Naturals, FiniteSets

CONSTANT MaxPids   \* bound: how often an id is used again

Pids == {1, 2}                \* 1 is the one that the registry has
Tabs == {"x", "y"}
Ours == {"main", "helper"}    \* both carry the directory on the command line
Running == Ours \cup {"stranger"}

VARIABLES
  proc,      \* what runs under each id; a zombie has exited
  reused,    \* how often an id was used again
  doing,     \* where stop is
  left,      \* the ids still to be ended
  pid,       \* the one being ended
  signal,    \* the signal for it
  start,     \* the process it was when its start time was read
  moved,     \* the id changed hands since it was proved to be ours
  harmed,    \* a stranger was signalled though the id had not
  kept,      \* the entry and the directory are there
  tabs,      \* the open tabs
  tab,       \* the tab to close, once its name is resolved
  told       \* what stop says

stopVars == <<proc, reused, doing, left, pid, signal, start, moved, harmed, kept, tabs, tab, told>>

StopInit ==
  /\ proc \in {p \in [Pids -> Running \cup {"absent"}] : p[2] # "main" /\ (p[2] = "helper" => p[1] = "main")}
  /\ reused = 0 /\ doing \in {"scan", "names a tab"} /\ left = {} /\ pid = 1 /\ signal = "TERM"
  /\ start = "absent" /\ moved = FALSE /\ harmed = FALSE /\ kept = TRUE
  /\ tabs = Tabs /\ tab = "none" /\ told = "nothing"

Phase(d) == doing' = d
Others == UNCHANGED <<proc, reused, kept, tabs, tab, harmed>>
Says(what) == Phase("over") /\ told' = what

------------------------------------------------------------------------
(* The host. A helper goes with its browser or after it; what exits may   *)
(* be left a zombie; an id is used again by anything, and by a new helper *)
(* of a browser that is up.                                               *)
Becomes(p, what) ==
  /\ proc' = [proc EXCEPT ![p] = what] /\ moved' = (moved \/ p = pid)
  /\ UNCHANGED <<doing, left, pid, signal, start, harmed, kept, tabs, tab, told>>
ProcessExits(p) == proc[p] \in Running /\ Becomes(p, "absent") /\ UNCHANGED reused
Reaped(p) == proc[p] = "zombie" /\ Becomes(p, "absent") /\ UNCHANGED reused
TakesId(p) ==
  /\ proc[p] = "absent" /\ reused < MaxPids /\ reused' = reused + 1
  /\ \/ Becomes(p, "stranger")
     \/ proc[1] = "main" /\ p # 1 /\ Becomes(p, "helper")
TabCloses == \E t \in tabs : tabs' = tabs \ {t} /\ UNCHANGED
  <<proc, reused, doing, left, pid, signal, start, moved, harmed, kept, tab, told>>

------------------------------------------------------------------------
(* The reads. ps can fail, and then nothing is known.                     *)
Holders == {p \in Pids : proc[p] \in Ours}
Alive(p) == proc[p] \in Running
Unknown == Says("unknown") /\ UNCHANGED <<left, pid, signal, start, moved>>

(* _stop_managed: the ids that hold the directory, one after the other.   *)
FindsHolders ==
  /\ doing = "scan" /\ Others
  /\ \/ Unknown
     \/ left' = Holders /\ Phase("next") /\ UNCHANGED <<pid, signal, start, moved, told>>
TakesNext ==
  /\ doing = "next" /\ Others
  /\ IF left = {} THEN Phase("exit?") /\ UNCHANGED <<left, pid, signal, start, moved, told>>
     ELSE /\ pid' \in left /\ left' = left \ {pid'} /\ start' = proc[pid'] /\ signal' = "TERM"
          /\ moved' = FALSE /\ Phase("close") /\ UNCHANGED told

(* Browser.close, when all the listeners on the port are ours.            *)
ClosesOverCdp ==
  /\ doing = "close" /\ Phase("prove")
  /\ \/ UNCHANGED proc
     \/ proc[1] = "main" /\ proc' = [proc EXCEPT ![1] = "zombie"]
  /\ UNCHANGED <<reused, left, pid, signal, start, moved, harmed, kept, tabs, tab, told>>

(* _terminate_verified: a signal only for the process whose start time was *)
(* read and which holds the directory now; anything else is waited for.   *)
Proved == proc[pid] = start /\ proc[pid] \in Ours
Proves ==
  /\ doing = "prove" /\ Others
  /\ Phase(IF ~Alive(pid) THEN "next" ELSE IF Proved THEN "signal" ELSE "wait in vain")
  /\ moved' = FALSE
  /\ UNCHANGED <<left, pid, signal, start, told>>
Signals ==
  /\ doing = "signal" /\ Phase("wait")
  /\ harmed' = (harmed \/ (proc[pid] = "stranger" /\ ~moved))
  /\ proc' \in {proc, [proc EXCEPT ![pid] = IF Alive(pid) THEN "zombie" ELSE @]}
  /\ UNCHANGED <<reused, left, pid, signal, start, moved, kept, tabs, tab, told>>

(* The wait for its exit, which may pass without it.                      *)
Waits ==
  /\ doing \in {"wait", "wait in vain"} /\ Others
  /\ \/ ~Alive(pid) /\ Phase("next") /\ UNCHANGED <<left, pid, signal, start, moved, told>>
     \/ Alive(pid) /\ doing = "wait" /\ signal = "TERM" /\ signal' = "KILL" /\ Phase("prove")
        /\ UNCHANGED <<left, pid, start, moved, told>>
     \/ Alive(pid) /\ (doing = "wait in vain" \/ signal = "KILL") /\ Unknown

(* _browser_exit_verified: nobody holds the directory, nobody of ours has *)
(* the port, and the recorded id is absent or another process.            *)
Remaining == Holders
VerifiesExit ==
  /\ doing = "exit?" /\ Others
  /\ \/ Unknown
     \/ Remaining = {} /\ Phase("retire") /\ UNCHANGED <<left, pid, signal, start, moved, told>>
Retires ==
  /\ doing = "retire" /\ kept' = FALSE /\ Says("stopped")
  /\ UNCHANGED <<proc, reused, left, pid, signal, start, moved, harmed, tabs, tab>>

(* A tab: the name is resolved among the pages there are, and closed if   *)
(* it is still there.                                                     *)
ResolvesTab ==
  /\ doing = "names a tab"
  /\ IF proc[1] # "main" THEN Says("not live") /\ UNCHANGED tab
     ELSE \/ \E t \in tabs : tab' = t /\ Phase("tab") /\ UNCHANGED told
          \/ Says("no tab") /\ UNCHANGED tab
  /\ UNCHANGED <<proc, reused, left, pid, signal, start, moved, harmed, kept, tabs>>
ClosesTab ==
  /\ doing = "tab" /\ Says(IF proc[1] = "main" /\ tab \in tabs THEN "closed" ELSE "not closed")
  /\ tabs' = IF proc[1] = "main" THEN tabs \ {tab} ELSE tabs
  /\ UNCHANGED <<proc, reused, left, pid, signal, start, moved, harmed, kept, tab>>

StopStep ==
  \/ FindsHolders \/ TakesNext \/ ClosesOverCdp \/ Proves \/ Signals \/ Waits
  \/ VerifiesExit \/ Retires \/ ResolvesTab \/ ClosesTab
StopNext == doing # "over" /\ (StopStep \/ TabCloses \/ \E p \in Pids : ProcessExits(p) \/ Reaped(p) \/ TakesId(p))

------------------------------------------------------------------------
(* A process that is not the browser's is never signalled, unless the id  *)
(* changed hands between the proof and the signal (_terminate_verified).  *)
HarmsNobody == ~harmed

(* The entry and the directory are there as long as any process of the    *)
(* browser is (_stop_managed, _browser_exit_verified).                    *)
RetiresTheGone == ~kept => Holders = {}

(* Closing a tab says so when that tab is closed, and ends nothing else.  *)
ClosesThatTab == (told = "closed" => tab \notin tabs) /\ (tab # "none" => kept)
=======================================================================
