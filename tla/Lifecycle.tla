------------------------------ MODULE Lifecycle ------------------------------
(***************************************************************************)
(* The instance lifecycle: `bt launch', `bt stop', `bt cleanup' and        *)
(* `bt profile delete' running as separate processes, the supervisor each  *)
(* headed launch leaves behind, and the browsers they start and end.       *)
(*                                                                         *)
(* Shared state is the registry, the user-data directories and             *)
(* registry_lock.  A load-edit-save sequence under the lock is one step    *)
(* here: RegistryFile shows that this is what the file gives.  Everything  *)
(* that can happen between two such sequences is a step of its own: a      *)
(* browser exits, a command is killed, a supervisor notices, a command     *)
(* that takes no lock deletes a directory.                                 *)
(*                                                                         *)
(* A history is quiet, or not: in a quiet one nothing is killed, no        *)
(* profile is deleted and no browser is headed, so that nothing may be     *)
(* lost.  MaxBrowsers bounds how many browsers a quiet history starts,     *)
(* MaxBusy how many another one; MaxCrashes bounds how many commands and   *)
(* supervisors are killed.                                                 *)
(***************************************************************************)
EXTENDS Naturals

CONSTANTS Clis,           \* command processes; each runs one verb at a time
          Profiles,       \* named profiles
          NoProfile, NoCli, NoEntry,
          Verbs,          \* the verbs the commands run
          Headed,         \* whether a launch may be headed
          MaxBrowsers, MaxBusy, MaxCrashes

AllVerbs == {"launch", "stop", "cleanup", "delete"}

Browsers == 1..MaxBrowsers
NoBrowser == 0

\* A name is a base name and a suffix; one base name, so the suffix stands
\* for the name.  There is one more suffix than there are other instances.
Slots == 1..MaxBrowsers
NoSlot == 0

ASSUME LifecycleAssumption ==
  /\ Verbs \subseteq AllVerbs
  /\ Headed \in BOOLEAN
  /\ MaxBrowsers \in Nat /\ MaxBusy \in 0..MaxBrowsers /\ MaxCrashes \in Nat
  /\ NoCli \notin Clis
  /\ NoProfile \notin Profiles
  /\ Profiles \cap Browsers = {}

VARIABLES quiet,     \* the history is quiet
          browser,   \* [Browsers -> {"unborn", "running", "gone"}]
          bound,     \* the profile each browser was started on
          dirs,      \* user-data directories that exist
          reg,       \* the registry: [Slots -> entry]
          sup,       \* the supervisor of each browser
          supSlot,   \* the name each supervisor was started with
          lock,      \* the command that holds registry_lock
          pc, job,   \* what each command does, and for whom
          crashes

vars == <<quiet, browser, bound, dirs, reg, sup, supSlot, lock, pc, job, crashes>>

Entries == [browser : Browsers, profile : Profiles \cup {NoProfile},
            recorded : BOOLEAN]

ASSUME EntryAssumption == NoEntry \notin Entries

Jobs == [verb : AllVerbs, profile : Profiles \cup {NoProfile},
         slot : Slots \cup {NoSlot}, browser : Browsers \cup {NoBrowser}]

NoJob == [verb |-> "launch", profile |-> NoProfile, slot |-> NoSlot,
          browser |-> NoBrowser]

Steps == {"idle", "wait", "rewait", "holder", "prune", "orphans", "spawn", "boot",
          "register", "supervise", "record", "annotate", "lookup", "handoff",
          "terminate", "remove", "bound", "check", "rmtree"}
-----------------------------------------------------------------------------
(* A session directory is as fresh as its browser, so the browser's number *)
(* names it; a profile-bound browser uses the profile's directory.         *)

Home(b) == IF bound[b] = NoProfile THEN b ELSE bound[b]

Live(s) == reg[s] # NoEntry /\ browser[reg[s].browser] = "running"
Dead(s) == reg[s] # NoEntry /\ browser[reg[s].browser] # "running"

Dir(s) == Home(reg[s].browser)

\* Directories below the profile root, the resolved-path test of a deletion.
UnderRoot(d) == d \in Profiles

\* Browsers are started, and names asked for, up to this number.
Bound == IF quiet THEN MaxBrowsers ELSE MaxBusy

Users(d) == {b \in Browsers : browser[b] = "running" /\ Home(b) = d}

FirstFree == CHOOSE s \in Slots : /\ reg[s] = NoEntry
                                  /\ \A t \in 1..(s - 1) : reg[t] # NoEntry

Without(S) == [s \in Slots |-> IF s \in S THEN NoEntry ELSE reg[s]]

Init == /\ quiet \in BOOLEAN
        /\ browser = [b \in Browsers |-> "unborn"]
        /\ bound = [b \in Browsers |-> NoProfile]
        /\ dirs = {}
        /\ reg = [s \in Slots |-> NoEntry]
        /\ sup = [b \in Browsers |-> "none"]
        /\ supSlot = [b \in Browsers |-> NoSlot]
        /\ lock = NoCli
        /\ pc = [c \in Clis |-> "idle"]
        /\ job = [c \in Clis |-> NoJob]
        /\ crashes = 0

\* What register stores: the profile and the supervisor are added later.
NewEntry(b) == [browser |-> b, profile |-> NoProfile, recorded |-> FALSE]

Goto(c, step) == pc' = [pc EXCEPT ![c] = step]

\* The command returns or raises; leaving the `with' block drops the lock.
Finish(c) == /\ Goto(c, "idle")
             /\ job' = [job EXCEPT ![c] = NoJob]
             /\ lock' = IF lock = c THEN NoCli ELSE lock

\* The command goes on with the lock it holds.
Proceed(c, step) == Goto(c, step) /\ UNCHANGED <<job, lock>>

procs == <<sup, supSlot>>
-----------------------------------------------------------------------------
(* Commands start, and take the lock. *)

Start(c, verb, p, s) ==
  /\ pc[c] = "idle"
  /\ verb \in Verbs
  /\ job' = [job EXCEPT ![c] = [verb |-> verb, profile |-> p, slot |-> s,
                                browser |-> NoBrowser]]
  /\ Goto(c, IF verb = "delete" THEN "check" ELSE "wait")
  /\ UNCHANGED <<browser, bound, dirs, reg, procs, lock, crashes>>

\* A user asks for a verb: a profile to launch on, or none; a name to stop; a
\* profile to delete.
Ask(c) == \/ \E p \in Profiles \cup {NoProfile} : Start(c, "launch", p, NoSlot)
          \/ \E s \in 1..Bound : Start(c, "stop", NoProfile, s)
          \/ ~quiet /\ \E p \in Profiles : Start(c, "delete", p, NoSlot)
          \/ Start(c, "cleanup", NoProfile, NoSlot)

FirstStep(verb) == CASE verb = "launch" -> "holder"
                     [] verb = "stop" -> "lookup"
                     [] verb = "cleanup" -> "bound"

\* Fault: the lock is taken whoever holds it.
AcquireHeld(c) == /\ lock' = c
                  /\ \/ pc[c] = "wait" /\ Goto(c, FirstStep(job[c].verb))
                     \/ pc[c] = "rewait" /\ Goto(c, "prune")
                  /\ UNCHANGED <<browser, bound, dirs, reg, procs, job, crashes>>

\* registry_lock; a cleanup waits for it a second time ("rewait").
Acquire(c) == /\ lock = NoCli
              /\ lock' = c
              /\ \/ pc[c] = "wait" /\ Goto(c, FirstStep(job[c].verb))
                 \/ pc[c] = "rewait" /\ Goto(c, "prune")
              /\ UNCHANGED <<browser, bound, dirs, reg, procs, job, crashes>>

LockTimeout(c) == /\ pc[c] \in {"wait", "rewait"}
                  /\ lock # NoCli
                  /\ Finish(c)
                  /\ UNCHANGED <<browser, bound, dirs, reg, procs, crashes>>
-----------------------------------------------------------------------------
(* launch *)

\* find_profile_holder: the live instances whose entry names the profile.
Holders(p) == {s \in Slots : Live(s) /\ reg[s].profile = p}

\* Fault: the holder check is left out.
CheckHolderSkipped(c) ==
  /\ pc[c] = "holder"
  /\ dirs' = IF job[c].profile = NoProfile THEN dirs ELSE dirs \cup {job[c].profile}
  /\ Proceed(c, "prune")
  /\ UNCHANGED <<browser, bound, reg, procs, crashes>>

\* launch: make the profile's directory, then refuse a profile that is held.
CheckHolder(c) ==
  LET p == job[c].profile
  IN /\ pc[c] = "holder"
     /\ dirs' = IF p = NoProfile THEN dirs ELSE dirs \cup {p}
     /\ IF p # NoProfile /\ Holders(p) # {}
        THEN Finish(c)
        ELSE Proceed(c, "prune")
     /\ UNCHANGED <<browser, bound, reg, procs, crashes>>

\* core.registry.cleanup: drop every dead entry, with the directory it names.
Prune(c) ==
  LET stale == {s \in Slots : Dead(s)}
  IN /\ pc[c] = "prune"
     /\ reg' = Without(stale)
     /\ dirs' = dirs \ {Dir(s) : s \in stale}
     /\ Proceed(c, "orphans")
     /\ UNCHANGED <<browser, bound, procs, crashes>>

\* Fault: the directories of registered instances are not excluded.
UntrackedAll == dirs \ Profiles

\* Session directories that no entry names.
Untracked == {d \in dirs \ Profiles :
                \A s \in Slots : reg[s] # NoEntry => Dir(s) # d}

\* cleanup_sessions removes the untracked directories whose SingletonLock names
\* no process of ours.  The lock of a browser in another PID namespace does
\* not either, so a directory in use may be removed with them.  A launch goes
\* on; for a cleanup this was the last step.
SweepOrphans(c) ==
  /\ pc[c] = "orphans"
  /\ \E misjudged \in SUBSET Untracked :
        dirs' = dirs \ (misjudged \cup {d \in Untracked : Users(d) = {}})
  /\ IF job[c].verb = "launch" THEN Proceed(c, "spawn") ELSE Finish(c)
  /\ UNCHANGED <<browser, bound, reg, procs, crashes>>

\* launch_browser: make the directory and start the browser on it.
Spawn(c) ==
  /\ pc[c] = "spawn"
  /\ \E b \in Browsers :
        /\ b <= Bound /\ browser[b] = "unborn"
        /\ \A a \in Browsers : a < b => browser[a] # "unborn"
        /\ browser' = [browser EXCEPT ![b] = "running"]
        /\ bound' = [bound EXCEPT ![b] = job[c].profile]
        /\ dirs' = dirs \cup {IF job[c].profile = NoProfile THEN b
                              ELSE job[c].profile}
        /\ job' = [job EXCEPT ![c].browser = b]
  /\ Goto(c, "boot")
  /\ UNCHANGED <<reg, procs, lock, crashes>>

\* The CDP port answers.
Boot(c) == /\ pc[c] = "boot"
           /\ Proceed(c, "register")
           /\ UNCHANGED <<browser, bound, dirs, reg, procs, crashes>>

\* The browser exits, does not listen in time, or opens no window: it is
\* killed, and the launch raises with nothing registered.
BootFails(c) == /\ pc[c] = "boot"
                /\ browser' = [browser EXCEPT ![job[c].browser] = "gone"]
                /\ Finish(c)
                /\ UNCHANGED <<bound, dirs, reg, procs, crashes>>

\* register: the first free suffix.  The entry names no profile yet.
Register(c) ==
  /\ pc[c] = "register"
  /\ reg' = [reg EXCEPT ![FirstFree] = NewEntry(job[c].browser)]
  /\ job' = [job EXCEPT ![c].slot = FirstFree]
  /\ \/ Goto(c, "annotate")
     \/ Headed /\ ~quiet /\ Goto(c, "supervise")
  /\ UNCHANGED <<browser, bound, dirs, procs, lock, crashes>>

\* spawn_supervisor, told the name the instance has now.
Supervise(c) ==
  /\ pc[c] = "supervise"
  /\ sup' = [sup EXCEPT ![job[c].browser] = "watching"]
  /\ supSlot' = [supSlot EXCEPT ![job[c].browser] = job[c].slot]
  /\ Proceed(c, "record")
  /\ UNCHANGED <<browser, bound, dirs, reg, crashes>>

\* The supervisor process does not start: the launch raises, after the browser
\* was registered.
SuperviseFails(c) == /\ pc[c] = "supervise"
                     /\ Finish(c)
                     /\ UNCHANGED <<browser, bound, dirs, reg, procs, crashes>>

\* record_supervisor and annotate_entry change the entry if it is still there.
Record(c) ==
  LET s == job[c].slot
  IN /\ pc[c] = "record"
     /\ reg' = IF reg[s] = NoEntry THEN reg
               ELSE [reg EXCEPT ![s].recorded = TRUE]
     /\ Proceed(c, "annotate")
     /\ UNCHANGED <<browser, bound, dirs, procs, crashes>>

Annotate(c) ==
  LET s == job[c].slot
  IN /\ pc[c] = "annotate"
     /\ reg' = IF reg[s] = NoEntry THEN reg
               ELSE [reg EXCEPT ![s].profile = job[c].profile]
     /\ Finish(c)
     /\ UNCHANGED <<browser, bound, dirs, procs, crashes>>
-----------------------------------------------------------------------------
(* stop *)

\* _stop_impl reads the entry once, and refuses a name that is not there.
Lookup(c) ==
  /\ pc[c] = "lookup"
  /\ IF reg[job[c].slot] = NoEntry
     THEN Finish(c)
     ELSE /\ job' = [job EXCEPT ![c].browser = reg[job[c].slot].browser]
          /\ Goto(c, "handoff")
          /\ UNCHANGED lock
  /\ UNCHANGED <<browser, bound, dirs, reg, procs, crashes>>

\* _stop_supervisor: end the recorded supervisor before the browser.  If it
\* survives its signals, a browser that is not verifiably gone is not touched.
HandOff(c) ==
  LET b == job[c].browser
      alive == reg[job[c].slot].recorded /\ sup[b] \in {"watching", "retiring"}
  IN /\ pc[c] = "handoff"
     /\ \/ /\ ~alive
           /\ Proceed(c, "terminate")
           /\ UNCHANGED sup
        \/ /\ alive
           /\ sup' = [sup EXCEPT ![b] = "gone"]
           /\ Proceed(c, "terminate")
        \/ /\ alive
           /\ IF Users(Home(b)) = {} THEN Proceed(c, "terminate") ELSE Finish(c)
           /\ UNCHANGED sup
     /\ UNCHANGED <<browser, bound, dirs, reg, supSlot, crashes>>

\* Fault: the stop succeeds although processes survived.
TerminateUnverified(c) ==
  LET users == Users(Home(job[c].browser))
  IN /\ pc[c] = "terminate"
     /\ \E survivors \in SUBSET users :
           browser' = [b \in Browsers |-> IF b \in users \ survivors
                                          THEN "gone" ELSE browser[b]]
     /\ Proceed(c, "remove")
     /\ UNCHANGED <<bound, dirs, reg, procs, crashes>>

\* Fault: only the recorded process is terminated and verified.
TerminateRecorded(c) ==
  /\ pc[c] = "terminate"
  /\ browser' = [browser EXCEPT ![job[c].browser] = "gone"]
  /\ Proceed(c, "remove")
  /\ UNCHANGED <<bound, dirs, reg, procs, crashes>>

\* _stop_managed: every process on the directory is terminated, and the stop
\* refuses, with the entry kept, unless all of them are verifiably gone.
Terminate(c) ==
  LET users == Users(Home(job[c].browser))
  IN /\ pc[c] = "terminate"
     /\ \E survivors \in SUBSET users :
           /\ browser' = [b \in Browsers |-> IF b \in users \ survivors
                                             THEN "gone" ELSE browser[b]]
           /\ IF survivors = {} THEN Proceed(c, "remove") ELSE Finish(c)
     /\ UNCHANGED <<bound, dirs, reg, procs, crashes>>

\* _remove_entry: drop the entry; reap a directory that is not a profile's.
Remove(c) ==
  LET s == job[c].slot
      d == Home(job[c].browser)
      preserve == UnderRoot(d) \/ (reg[s] # NoEntry /\ reg[s].profile # NoProfile)
  IN /\ pc[c] = "remove"
     /\ reg' = Without({s})
     /\ dirs' = IF preserve THEN dirs ELSE dirs \ {d}
     /\ Finish(c)
     /\ UNCHANGED <<browser, bound, procs, crashes>>
-----------------------------------------------------------------------------
(* cleanup, and profile delete *)

\* cleanup, first pass: hide dead profile-bound entries from the sweep.  The
\* lock is released before the sweep takes it again.
HideBound(c) ==
  LET hidden == {s \in Slots : Dead(s) /\ (reg[s].profile # NoProfile
                                           \/ UnderRoot(Dir(s)))}
  IN /\ pc[c] = "bound"
     /\ reg' = Without(hidden)
     /\ Goto(c, "rewait")
     /\ lock' = NoCli
     /\ UNCHANGED <<browser, bound, dirs, procs, job, crashes>>

\* profile_delete: refuse an unknown profile, and one a live instance holds.
\* It reads the registry without the lock.
CheckDelete(c) ==
  LET p == job[c].profile
  IN /\ pc[c] = "check"
     /\ IF p \in dirs /\ Holders(p) = {} THEN Proceed(c, "rmtree") ELSE Finish(c)
     /\ UNCHANGED <<browser, bound, dirs, reg, procs, crashes>>

RemoveTree(c) == /\ pc[c] = "rmtree"
                 /\ dirs' = dirs \ {job[c].profile}
                 /\ Finish(c)
                 /\ UNCHANGED <<browser, bound, reg, procs, crashes>>
-----------------------------------------------------------------------------
(* Browsers and their supervisors *)

\* A browser exits: its user closed it, or it crashed.
Exit(b) == /\ browser[b] = "running"
           /\ browser' = [browser EXCEPT ![b] = "gone"]
           /\ UNCHANGED <<bound, dirs, reg, procs, lock, pc, job, crashes>>

\* _browser_gone: the port its browser listened on is closed.
NoticeExit(b) == /\ sup[b] = "watching"
                 /\ browser[b] = "gone"
                 /\ sup' = [sup EXCEPT ![b] = "retiring"]
                 /\ UNCHANGED <<browser, bound, dirs, reg, supSlot, lock, pc, job,
                                crashes>>

\* retire_instance, by name: drop the entry, and reap its directory unless
\* the entry names a profile.  The reaping may fail.
Retire(b) ==
  LET s == supSlot[b]
  IN /\ sup[b] = "retiring"
     /\ lock = NoCli
     /\ reg' = Without({s})
     /\ \/ UNCHANGED dirs
        \/ /\ reg[s] # NoEntry
           /\ reg[s].profile = NoProfile
           /\ dirs' = dirs \ {Dir(s)}
     /\ sup' = [sup EXCEPT ![b] = "gone"]
     /\ UNCHANGED <<browser, bound, supSlot, lock, pc, job, crashes>>

\* A supervisor that waits for the lock gives up at the deadline, and one
\* whose port serves a different browser leaves without retiring anything.
Leave(b) == /\ \/ sup[b] = "retiring" /\ lock # NoCli
               \/ /\ sup[b] = "watching" /\ browser[b] = "gone"
                  /\ \E a \in Browsers : a > b /\ browser[a] = "running"
            /\ sup' = [sup EXCEPT ![b] = "gone"]
            /\ UNCHANGED <<browser, bound, dirs, reg, supSlot, lock, pc, job,
                           crashes>>

\* A command, or a supervisor, is killed.
Kills == ~quiet /\ crashes < MaxCrashes /\ crashes' = crashes + 1

Crash(c) == /\ Kills
            /\ pc[c] # "idle"
            /\ Finish(c)
            /\ UNCHANGED <<browser, bound, dirs, reg, procs>>

CrashSupervisor(b) == /\ Kills
                      /\ sup[b] \in {"watching", "retiring"}
                      /\ sup' = [sup EXCEPT ![b] = "gone"]
                      /\ UNCHANGED <<browser, bound, dirs, reg, supSlot, lock, pc,
                                     job>>

CliStep(c) == \/ Ask(c) \/ Acquire(c) \/ LockTimeout(c) \/ Crash(c)
              \/ CheckHolder(c) \/ Prune(c) \/ SweepOrphans(c) \/ Spawn(c)
              \/ Boot(c) \/ BootFails(c) \/ Register(c)
              \/ Supervise(c) \/ SuperviseFails(c) \/ Record(c) \/ Annotate(c)
              \/ Lookup(c) \/ HandOff(c) \/ Terminate(c) \/ Remove(c)
              \/ HideBound(c) \/ CheckDelete(c) \/ RemoveTree(c)

BrowserStep(b) == \/ Exit(b) \/ NoticeExit(b) \/ Retire(b) \/ Leave(b)
                  \/ CrashSupervisor(b)

Next == /\ UNCHANGED quiet
        /\ \/ \E c \in Clis : CliStep(c)
           \/ \E b \in Browsers : BrowserStep(b)

Spec == Init /\ [][Next]_vars
-----------------------------------------------------------------------------
TypeOK == /\ quiet \in BOOLEAN
          /\ browser \in [Browsers -> {"unborn", "running", "gone"}]
          /\ bound \in [Browsers -> Profiles \cup {NoProfile}]
          /\ dirs \subseteq Profiles \cup Browsers
          /\ reg \in [Slots -> Entries \cup {NoEntry}]
          /\ sup \in [Browsers -> {"none", "watching", "retiring", "gone"}]
          /\ supSlot \in [Browsers -> Slots \cup {NoSlot}]
          /\ lock \in Clis \cup {NoCli}
          /\ pc \in [Clis -> Steps]
          /\ job \in [Clis -> Jobs]
          /\ crashes \in 0..MaxCrashes

\* profile_launch_lock and find_profile_holder: a profile is held by at most
\* one live instance, whatever is killed or closed in between.
HeldOnce == \A s, t \in Slots :
  (s # t /\ Live(s) /\ Live(t) /\ reg[s].profile # NoProfile)
     => reg[s].profile # reg[t].profile

\* The launch sequence under one lock: while no command is killed, no two
\* browsers run on one profile, the ones not registered yet included.
ProfileExclusive == \A a, b \in Browsers :
  (a # b /\ browser[a] = "running" /\ browser[b] = "running"
         /\ bound[a] # NoProfile) => bound[a] # bound[b]

\* The sweeps of launch and cleanup, and the reaping of a stop: the directory
\* of a registered, running browser is never taken away.
LiveKeepsDir == \A s \in Slots : Live(s) => Dir(s) \in dirs

\* launch_browser: a running browser can be found.  It is registered, or the
\* launch that started it has yet to register it; nothing else could stop it.
Found == \A b \in Browsers : browser[b] = "running" =>
           \/ \E s \in Slots : reg[s] # NoEntry /\ reg[s].browser = b
           \/ \E c \in Clis : job[c].browser = b /\ pc[c] \in {"boot", "register"}

\* What is registered and runs has its directory, and what runs is found: in
\* a history in which nothing is lost, none of launch, stop and cleanup loses
\* anything by itself.
LiveIsKept == TypeOK /\ (quiet => LiveKeepsDir /\ Found)

\* And a profile has one browser at a time.
OneBrowser == quiet => ProfileExclusive

\* The entry in slot s stays, or its browser exits with it.
Spares(s) == \/ reg'[s] # NoEntry /\ reg'[s].browser = reg[s].browser
             \/ browser'[reg[s].browser] # "running"

\* Launch, stop and cleanup drop an entry only after its browser has exited,
\* whatever the browsers, the supervisors and the other commands do meanwhile.
CommandsSpareLive ==
  [][(pc' # pc) => \A s \in Slots : Live(s) => Spares(s)]_vars

\* _stop_managed: a stop that reports success leaves no process on the
\* directory, the browser of another instance or of a lost launch included.
StopLeavesNothing == [][\A c \in Clis : (pc[c] = "remove" /\ pc'[c] # "remove")
                           => Users(Home(job[c].browser)) = {}]_vars

\* CONTEXT.md, "`profile delete NAME' is the only path that removes one": no
\* sweep, stop or retirement removes a profile's directory.
ProfilesOutlive ==
  [][\A p \in Profiles \cap dirs :
        p \notin dirs' => \E c \in Clis : pc[c] = "rmtree" /\ job[c].profile = p]_vars
=============================================================================
