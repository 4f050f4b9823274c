--------------------------- MODULE CamoufoxHost --------------------------
(* launch --engine camoufox on a named profile. Camoufox has no port, so  *)
(* a detached runner holds it: the launch waits for the file the runner   *)
(* writes once the browser is up, and from then on the entry lives as     *)
(* long as the runner. Launches exclude each other (registry_lock); one   *)
(* that is killed gives the lock up and leaves its runner behind.         *)
EXTENDS Naturals, FiniteSets

CONSTANT MaxRunners   \* bound: the runners ever spawned

Runners == 1..MaxRunners

VARIABLES
  runner,    \* what each runner does
  served,    \* those that have had their browser up
  sentinel,  \* .camoufox-ready is there
  entries,   \* the registry: whose runner, and whether it is annotated
  launching, \* where the launch is
  mine,      \* its runner
  killed     \* a launch was killed

camoufoxVars == <<runner, served, sentinel, entries, launching, mine, killed>>

CamoufoxInit ==
  /\ runner = [r \in Runners |-> "unborn"] /\ served = {} /\ sentinel \in BOOLEAN
  /\ entries = {} /\ launching = "no" /\ mine = 1 /\ killed = FALSE

Reaches(to) == launching' = to
Up == {r \in Runners : runner[r] \in {"starting", "serving"}}
RunnerIs(r, what) == runner' = [runner EXCEPT ![r] = what]

------------------------------------------------------------------------
\* An entry that was not annotated reads as Chrome's, and no port answers.
instance_is_live(e) == e.annotated /\ e.runner \in Up

find_profile_holder == \E e \in entries : instance_is_live(e)

Launches ==
  /\ launching = "no" /\ \E r \in Runners : runner[r] = "unborn"
  /\ ~find_profile_holder
  /\ Reaches("spawning") /\ UNCHANGED <<runner, served, sentinel, entries, mine, killed>>

Spawns ==
  /\ launching = "spawning" /\ sentinel' = FALSE
  /\ \E r \in Runners : /\ runner[r] = "unborn" /\ \A q \in 1..(r - 1) : runner[q] # "unborn"
                        /\ mine' = r /\ RunnerIs(r, "starting")
  /\ Reaches("waiting") /\ UNCHANGED <<served, entries, killed>>

SeesReady ==
  /\ launching = "waiting" /\ sentinel /\ Reaches("registering")
  /\ UNCHANGED <<runner, served, sentinel, entries, mine, killed>>

SeesExit ==
  /\ launching = "waiting" /\ mine \notin Up /\ Reaches("no")
  /\ UNCHANGED <<runner, served, sentinel, entries, mine, killed>>

TimesOut ==
  /\ launching = "waiting" /\ RunnerIs(mine, "gone") /\ Reaches("no")
  /\ UNCHANGED <<served, sentinel, entries, mine, killed>>

Registers ==
  /\ launching = "registering"
  /\ entries' = entries \union {[runner |-> mine, annotated |-> FALSE]}
  /\ Reaches("annotating") /\ UNCHANGED <<runner, served, sentinel, mine, killed>>

Annotates ==
  /\ launching = "annotating"
  /\ entries' = {[e EXCEPT !.annotated = @ \/ e.runner = mine] : e \in entries}
  /\ Reaches("no") /\ UNCHANGED <<runner, served, sentinel, mine, killed>>

LaunchIsKilled ==
  /\ launching # "no" /\ Reaches("no") /\ killed' = TRUE
  /\ UNCHANGED <<runner, served, sentinel, entries, mine>>

------------------------------------------------------------------------
\* The browser is up; the file may be refused by the disk.
Serves(r) ==
  /\ runner[r] = "starting" /\ RunnerIs(r, "serving") /\ served' = served \union {r}
  /\ sentinel' \in {TRUE, sentinel} /\ UNCHANGED <<entries, launching, mine, killed>>

\* By itself, or for a browser that does not start.
RunnerExits(r) ==
  /\ r \in Up /\ RunnerIs(r, "gone")
  /\ UNCHANGED <<served, sentinel, entries, launching, mine, killed>>

\* stop, and cleanup of an entry whose runner has gone.
Removes ==
  /\ launching = "no"
  /\ \E e \in entries : entries' = entries \ {e} /\ RunnerIs(e.runner, "gone")
  /\ UNCHANGED <<served, sentinel, launching, mine, killed>>

CamoufoxNext ==
  \/ Launches \/ Spawns \/ SeesReady \/ SeesExit \/ TimesOut \/ Registers \/ Annotates
  \/ LaunchIsKilled \/ Removes \/ \E r \in Runners : Serves(r) \/ RunnerExits(r)

------------------------------------------------------------------------
(* A launch reports a browser that its own runner has had up, a profile   *)
(* has one runner, and a launch that failed leaves none. One that was     *)
(* killed leaves its runner, which no entry names and whose file the next *)
(* launch takes for its own (_spawn_camoufox_process, _launch_camoufox).  *)
CamoufoxIsOne ==
  ~killed =>
    /\ launching \in {"registering", "annotating"} => mine \in served
    /\ Cardinality(Up) <= 1
    /\ launching = "no" => \A r \in Up : [runner |-> r, annotated |-> TRUE] \in entries
=======================================================================
