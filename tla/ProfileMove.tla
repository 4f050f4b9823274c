--------------------------- MODULE ProfileMove --------------------------
(* A profile moves from the old root to the durable one, by the migrate   *)
(* verb or by the launch that needs it, or back again. The copy is made   *)
(* under a staging name, compared, renamed into place, and only then is   *)
(* the source removed. Any mover may die between two of its steps.        *)
EXTENDS Naturals

CONSTANT MaxMoves   \* bound: how many movers start in all

Files == {"Login", "History"}
Movers == {1, 2}
Roots == {"old", "durable"}
Absent == [there |-> FALSE, has |-> {}]
Holding(files) == [there |-> TRUE, has |-> files]

VARIABLES
  root,     \* what each root has under the profile's name
  staging,  \* the copy of each mover
  place,    \* where each mover is
  kind,     \* what it is: "launch", "migrate" or "back"
  todo,     \* the files its copy has still to visit
  held,     \* the mover that holds the launch lock, 0 for nobody
  live,     \* a browser runs on the profile
  opened,   \* what the last launch found in the profile, or nothing yet
  moves     \* how many movers have started

moveVars == <<root, staging, place, kind, todo, held, live, opened, moves>>

MoveInit ==
  /\ root \in {[old |-> Holding(Files), durable |-> Absent], [old |-> Absent, durable |-> Holding(Files)]}
  /\ staging = [m \in Movers |-> Absent] /\ place = [m \in Movers |-> "idle"]
  /\ kind = [m \in Movers |-> "migrate"] /\ todo = [m \in Movers |-> {}]
  /\ held = 0 /\ live = FALSE /\ opened = Absent /\ moves = 0

From(m) == IF kind[m] = "back" THEN "durable" ELSE "old"
To(m) == IF kind[m] = "back" THEN "old" ELSE "durable"
Goes(m, s) == place' = [place EXCEPT ![m] = s]
Leave(m, s) == Goes(m, s) /\ UNCHANGED <<root, staging, kind, todo, held, live, opened, moves>>

(* migrate takes no lock, a launch takes the profile's; both refuse a     *)
(* profile that a browser runs on. The way back is followed alone, and    *)
(* ends what is followed.                                                 *)
Start(m) ==
  /\ place[m] = "idle" /\ moves < MaxMoves /\ moves' = moves + 1
  /\ \E k \in {"launch", "migrate", "back"} :
       /\ k = "back" => \A n \in Movers : place[n] = "idle"
       /\ k = "launch" => held = 0
       /\ \A n \in Movers : kind[n] # "back"
       /\ kind' = [kind EXCEPT ![m] = k] /\ held' = IF k = "launch" THEN m ELSE held
  /\ ~live /\ Goes(m, "destination") /\ UNCHANGED <<root, staging, todo, live, opened>>

(* migrate_one_profile: a profile that is at the durable root, or nowhere,*)
(* is not moved; the two are read one after the other.                    *)
SeesDestination(m) ==
  /\ place[m] = "destination"
  /\ Leave(m, IF ~root[To(m)].there THEN "source" ELSE IF kind[m] = "launch" THEN "opens" ELSE "idle")
SeesSource(m) ==
  /\ place[m] = "source"
  /\ Leave(m, IF root[From(m)].there THEN "transfer" ELSE IF kind[m] = "launch" THEN "opens" ELSE "idle")

(* _transfer_profile. Whatever fails ends a launch with an error.         *)
Release(m) == held' = IF held = m THEN 0 ELSE held
Discards(m) ==
  /\ Goes(m, "idle") /\ Release(m) /\ staging' = [staging EXCEPT ![m] = Absent]
  /\ UNCHANGED <<root, kind, todo, live, opened, moves>>
TransferStarts(m) ==
  /\ place[m] = "transfer" /\ IF root[To(m)].there THEN Discards(m) ELSE Leave(m, "listing")
ListsSource(m) ==
  /\ place[m] = "listing"
  /\ IF ~root[From(m)].there THEN Discards(m)
     ELSE /\ Goes(m, "copying") /\ staging' = [staging EXCEPT ![m] = Holding({})]
          /\ todo' = [todo EXCEPT ![m] = root[From(m)].has]
          /\ UNCHANGED <<root, kind, held, live, opened, moves>>
CopyFile(m) ==
  /\ place[m] = "copying" /\ todo[m] # {}
  /\ \E f \in todo[m] :
       IF f \in root[From(m)].has
       THEN /\ staging' = [staging EXCEPT ![m].has = @ \cup {f}]
            /\ todo' = [todo EXCEPT ![m] = @ \ {f}]
            /\ UNCHANGED <<root, place, kind, held, live, opened, moves>>
       ELSE Discards(m)
VerifyTransfer(m) ==
  /\ place[m] = "copying" /\ todo[m] = {}
  /\ IF root[From(m)].has \subseteq staging[m].has THEN Leave(m, "rename") ELSE Discards(m)

(* Fault: the copy takes the place of what is there.                      *)
AlwaysFree(r) == TRUE
(* A rename takes the place of an empty directory only.                   *)
Free(r) == root[r].has = {}
Rename(m) ==
  /\ place[m] = "rename"
  /\ IF Free(To(m))
     THEN /\ root' = [root EXCEPT ![To(m)] = staging[m]] /\ Goes(m, "remove")
          /\ staging' = [staging EXCEPT ![m] = Absent] /\ UNCHANGED <<kind, todo, held, live, opened, moves>>
     ELSE Discards(m)
RemoveSource(m) ==
  /\ place[m] = "remove"
  /\ IF root[From(m)].has # {}
     THEN \E f \in root[From(m)].has : root' = [root EXCEPT ![From(m)].has = @ \ {f}] /\ UNCHANGED place
     ELSE /\ root' = [root EXCEPT ![From(m)] = Absent]
          /\ Goes(m, IF kind[m] = "launch" THEN "opens" ELSE "idle")
  /\ UNCHANGED <<staging, kind, todo, held, live, opened, moves>>

(* The launch opens the profile, made if there is none.                   *)
Opens(m) ==
  /\ place[m] = "opens" /\ Goes(m, "idle") /\ Release(m) /\ live' = TRUE
  /\ root' = [root EXCEPT !["durable"].there = TRUE] /\ opened' = root'["durable"]
  /\ UNCHANGED <<staging, kind, todo, moves>>
BrowserStops ==
  /\ live /\ live' = FALSE
  /\ UNCHANGED <<root, staging, place, kind, todo, held, opened, moves>>

(* A mover dies: its copy stays, its lock does not, and another mover has *)
(* another process id, and so another staging name.                       *)
Dies(m) ==
  /\ place[m] # "idle" /\ Goes(m, "idle") /\ Release(m)
  /\ UNCHANGED <<root, staging, kind, todo, live, opened, moves>>

MoveNext ==
  \/ BrowserStops
  \/ \E m \in Movers :
       \/ Start(m) \/ SeesDestination(m) \/ SeesSource(m) \/ TransferStarts(m)
       \/ ListsSource(m) \/ CopyFile(m) \/ VerifyTransfer(m) \/ Rename(m) \/ RemoveSource(m) \/ Opens(m) \/ Dies(m)

------------------------------------------------------------------------
(* At every moment one of the two roots has the whole profile             *)
(* (_transfer_profile), whoever dies and whoever else is moving it.       *)
LoginSurvives == \E r \in Roots : root[r].has = Files

(* No launch starts logged out, in a profile that is empty or half there  *)
(* (migrate_one_profile).                                                 *)
LaunchesWhole == opened.there => opened.has = Files
=======================================================================
