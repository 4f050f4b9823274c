------------------------------ MODULE TaskLease ------------------------------
(***************************************************************************)
(* `bt launch --owner PID': the lease on one instance name, the keeper     *)
(* process that closes the browser when its owner exits, and the `retain'  *)
(* and `stop' commands that race with it.                                  *)
(*                                                                         *)
(* A launch is a generation: the lease, the keeper and the browser it      *)
(* starts carry its number, and the name may be taken by a later one while *)
(* an old keeper still runs.  A sequence under registry_lock that only     *)
(* reads and writes the registry is one step; a stop, which waits for      *)
(* processes, and a launch hold the lock over several steps, and meanwhile *)
(* whoever waits for it may reach the deadline.                            *)
(*                                                                         *)
(* MaxLaunches bounds the generations, MaxCrashes the processes killed.    *)
(***************************************************************************)
EXTENDS Naturals

CONSTANTS MaxLaunches, MaxCrashes,
          Unregistered, \* the name is not registered
          NoOne,        \* nobody holds registry_lock
          Command       \* a launch or a stop holds it

Gens == 1..MaxLaunches

ASSUME LeaseAssumption ==
  /\ MaxLaunches \in Nat /\ MaxCrashes \in Nat
  /\ NoOne # Command
  /\ {NoOne, Command} \cap Gens = {}

VARIABLES browser,    \* [Gens -> {"unborn", "running", "gone"}]
          owner,      \* [Gens -> {"alive", "gone"}]
          entry,      \* the name's registry entry, with its lease
          keeper,     \* what each generation's keeper does
          holder,     \* who holds registry_lock: a command or a keeper
          cmd,        \* what the command that holds it does
          crashes

leaseVars == <<browser, owner, entry, keeper, holder, cmd, crashes>>

\* "manual" stands for an entry without a lease.
LeaseStates == {"manual", "auto", "closing", "retained", "close_failed"}
Leases == [gen : Gens, state : LeaseStates, keeper : BOOLEAN]

KeeperSteps == {"none", "watching", "stopping", "ending", "failing", "gone",
                "killed"}
CmdSteps == {"idle", "launched", "leased", "spawned", "closing", "stopping",
             "other"}

ASSUME EntryAssumption == Unregistered \notin Leases
-----------------------------------------------------------------------------
Holds(g) == entry # Unregistered /\ entry.gen = g
HasState(g, S) == Holds(g) /\ entry.state \in S

LeaseInit == /\ browser = [g \in Gens |-> "unborn"]
             /\ owner = [g \in Gens |-> "alive"]
             /\ entry = Unregistered
             /\ keeper = [g \in Gens |-> "none"]
             /\ holder = NoOne
             /\ cmd = "idle"
             /\ crashes = 0

SetState(s) == entry' = [entry EXCEPT !.state = s]
KeeperTo(g, step) == keeper' = [keeper EXCEPT ![g] = step]

\* The command that holds the lock goes on, or returns.
CmdTo(step) == cmd' = step /\ holder' = Command
CmdEnds == cmd' = "idle" /\ holder' = NoOne

-----------------------------------------------------------------------------
(* launch, and establish: the command holds the lock throughout. *)

ManualEntry(g) == [gen |-> g, state |-> "manual", keeper |-> FALSE]

\* The name is free, or its browser is dead and the launch prunes it.
StartLaunch(g) == /\ holder = NoOne
                  /\ entry # Unregistered => browser[entry.gen] = "gone"
                  /\ browser[g] = "unborn"
                  /\ \A h \in 1..(g - 1) : browser[h] # "unborn"
                  /\ browser' = [browser EXCEPT ![g] = "running"]
                  /\ entry' = ManualEntry(g)
                  /\ CmdTo("launched")
                  /\ UNCHANGED <<owner, keeper, crashes>>

\* A launch without --owner leaves no lease.
LeaveManual == /\ cmd = "launched"
               /\ CmdEnds
               /\ UNCHANGED <<browser, owner, entry, keeper, crashes>>

WriteLease == /\ cmd = "launched"
              /\ SetState("auto")
              /\ CmdTo("leased")
              /\ UNCHANGED <<browser, owner, keeper, crashes>>

SpawnKeeper == /\ cmd = "leased"
               /\ KeeperTo(entry.gen, "watching")
               /\ CmdTo("spawned")
               /\ UNCHANGED <<browser, owner, entry, crashes>>

\* The keeper said "ready" and its identity was read.
RecordKeeper == /\ cmd = "spawned"
                /\ entry' = [entry EXCEPT !.keeper = TRUE]
                /\ CmdEnds
                /\ UNCHANGED <<browser, owner, keeper, crashes>>

\* The keeper does not start, is not ready in time, or has no identity: it is
\* told to terminate, and the launch claims the close of its own browser.
SetupFails == /\ cmd \in {"leased", "spawned"}
              /\ SetState("closing")
              /\ \/ UNCHANGED keeper
                 \/ cmd = "spawned" /\ KeeperTo(entry.gen, "gone")
              /\ CmdTo("closing")
              /\ UNCHANGED <<browser, owner, crashes>>

\* stop, by the launch that failed or by a user: the browser has verifiably
\* exited and the entry is dropped ...
CmdStopEnds == /\ cmd \in {"closing", "stopping"}
               /\ browser' = [browser EXCEPT ![entry.gen] = "gone"]
               /\ entry' = Unregistered
               /\ CmdEnds
               /\ UNCHANGED <<owner, keeper, crashes>>

\* ... or its exit is unknown, and recovery state is preserved.  A failed
\* launch records the failure in the lease; a user's stop only reports it.
CmdStopFails == /\ cmd \in {"closing", "stopping"}
                /\ IF cmd = "closing" THEN SetState("close_failed")
                   ELSE UNCHANGED entry
                /\ CmdEnds
                /\ UNCHANGED <<browser, owner, keeper, crashes>>
-----------------------------------------------------------------------------
(* The user's commands *)

StopCommand == /\ holder = NoOne
               /\ entry # Unregistered
               /\ CmdTo("stopping")
               /\ UNCHANGED <<browser, owner, entry, keeper, crashes>>

\* A launch, or a stop, of an instance with another name holds the one lock too.
OtherCommand == /\ holder = NoOne
                /\ CmdTo("other")
                /\ UNCHANGED <<browser, owner, entry, keeper, crashes>>

OtherEnds == /\ cmd = "other"
             /\ CmdEnds
             /\ UNCHANGED <<browser, owner, entry, keeper, crashes>>

\* Fault: retain does not refuse a close that was claimed.
RetainClaimed == /\ holder = NoOne
                 /\ entry # Unregistered
                 /\ entry.state # "manual"
                 /\ SetState("retained")
                 /\ UNCHANGED <<browser, owner, keeper, holder, cmd, crashes>>

\* retain refuses a close that was claimed; without a lease nothing changes.
Retain == /\ holder = NoOne
          /\ entry # Unregistered
          /\ entry.state \in {"auto", "retained"}
          /\ SetState("retained")
          /\ UNCHANGED <<browser, owner, keeper, holder, cmd, crashes>>

\* Fault: whatever is registered is dropped.
PruneAny == /\ holder = NoOne
            /\ entry # Unregistered
            /\ entry' = Unregistered
            /\ UNCHANGED <<browser, owner, keeper, holder, cmd, crashes>>

\* A cleanup, or the supervisor, drops the entry of a browser that is gone.
Prune == /\ holder = NoOne
         /\ entry # Unregistered
         /\ browser[entry.gen] = "gone"
         /\ entry' = Unregistered
         /\ UNCHANGED <<browser, owner, keeper, holder, cmd, crashes>>
-----------------------------------------------------------------------------
(* The keeper: watch_once, in the loop of main *)

\* Fault: an owner that cannot be verified counts as gone.
ClaimUnverified(g) == /\ keeper[g] = "watching"
                      /\ holder = NoOne
                      /\ HasState(g, {"auto"})
                      /\ SetState("closing")
                      /\ KeeperTo(g, "stopping")
                      /\ UNCHANGED <<browser, owner, holder, cmd, crashes>>

\* The owner is gone: save the claim, then drop the lock.
Claim(g) == /\ keeper[g] = "watching"
            /\ holder = NoOne
            /\ HasState(g, {"auto"})
            /\ owner[g] = "gone"
            /\ SetState("closing")
            /\ KeeperTo(g, "stopping")
            /\ UNCHANGED <<browser, owner, holder, cmd, crashes>>

\* Fault: a keeper that finds its owner alive does not watch on.
DismissEarly(g) == /\ keeper[g] = "watching"
                   /\ holder = NoOne
                   /\ HasState(g, {"auto"}) => owner[g] = "alive"
                   /\ KeeperTo(g, "gone")
                   /\ UNCHANGED <<browser, owner, entry, holder, cmd, crashes>>

\* Nothing left to watch: the entry, the generation or the state changed.
Dismiss(g) == /\ keeper[g] = "watching"
              /\ holder = NoOne
              /\ ~HasState(g, {"auto"})
              /\ KeeperTo(g, "gone")
              /\ UNCHANGED <<browser, owner, entry, holder, cmd, crashes>>

\* Fault: the claim is not checked again.
BeginStopUnchecked(g) == /\ keeper[g] = "stopping"
                         /\ holder = NoOne
                         /\ entry # Unregistered
                         /\ KeeperTo(g, "ending") /\ holder' = g
                         /\ UNCHANGED <<browser, owner, entry, cmd, crashes>>

\* stop(..., _lease_generation): under the lock again, the claim must still
\* be there.
BeginStop(g) == /\ keeper[g] = "stopping"
                /\ holder = NoOne
                /\ \/ /\ HasState(g, {"closing"})
                      /\ KeeperTo(g, "ending")
                      /\ holder' = g
                   \/ /\ ~HasState(g, {"closing"})
                      /\ KeeperTo(g, "failing")
                      /\ UNCHANGED holder
                /\ UNCHANGED <<browser, owner, entry, cmd, crashes>>

StopEnds(g) == /\ keeper[g] = "ending"
               /\ browser' = [browser EXCEPT ![entry.gen] = "gone"]
               /\ entry' = Unregistered
               /\ KeeperTo(g, "gone")
               /\ holder' = NoOne
               /\ UNCHANGED <<owner, cmd, crashes>>

StopFails(g) == /\ keeper[g] = "ending"
                /\ KeeperTo(g, "failing")
                /\ holder' = NoOne
                /\ UNCHANGED <<browser, owner, entry, cmd, crashes>>

\* record_failure, if the claim is still there.
RecordFailure(g) == /\ keeper[g] = "failing"
                    /\ holder = NoOne
                    /\ IF HasState(g, {"closing"}) THEN SetState("close_failed")
                       ELSE UNCHANGED entry
                    /\ KeeperTo(g, "gone")
                    /\ UNCHANGED <<browser, owner, holder, cmd, crashes>>

\* RegistryLockTimeout: a stop that meets it has failed ...
StopTimesOut(g) == /\ keeper[g] = "stopping"
                   /\ holder # NoOne
                   /\ KeeperTo(g, "failing")
                   /\ UNCHANGED <<browser, owner, entry, holder, cmd, crashes>>

\* ... and record_failure raises it through to main, which watches on.
RecordFailureTimesOut(g) ==
  /\ keeper[g] = "failing"
  /\ holder # NoOne
  /\ KeeperTo(g, "watching")
  /\ UNCHANGED <<browser, owner, entry, holder, cmd, crashes>>
-----------------------------------------------------------------------------
(* What happens to the processes *)

BrowserExits(g) == /\ browser[g] = "running"
                   /\ browser' = [browser EXCEPT ![g] = "gone"]
                   /\ UNCHANGED <<owner, entry, keeper, holder, cmd, crashes>>

OwnerExits(g) == /\ owner[g] = "alive"
                 /\ owner' = [owner EXCEPT ![g] = "gone"]
                 /\ UNCHANGED <<browser, entry, keeper, holder, cmd, crashes>>

CrashCommand == /\ crashes < MaxCrashes
                /\ cmd # "idle"
                /\ CmdEnds
                /\ crashes' = crashes + 1
                /\ UNCHANGED <<browser, owner, entry, keeper>>

CrashKeeper(g) == /\ crashes < MaxCrashes
                  /\ keeper[g] \notin {"none", "gone", "killed"}
                  /\ KeeperTo(g, "killed")
                  /\ holder' = IF holder = g THEN NoOne ELSE holder
                  /\ crashes' = crashes + 1
                  /\ UNCHANGED <<browser, owner, entry, cmd>>

CmdStep == \/ LeaveManual \/ WriteLease \/ SpawnKeeper \/ RecordKeeper
           \/ SetupFails \/ CmdStopEnds \/ CmdStopFails \/ OtherEnds

LeaseNext == \/ CmdStep \/ StopCommand \/ OtherCommand \/ Retain \/ Prune \/ CrashCommand
             \/ \E g \in Gens :
                   \/ StartLaunch(g) \/ Claim(g) \/ Dismiss(g) \/ BeginStop(g)
                   \/ StopEnds(g) \/ StopFails(g) \/ RecordFailure(g)
                   \/ StopTimesOut(g) \/ RecordFailureTimesOut(g)
                   \/ BrowserExits(g) \/ OwnerExits(g) \/ CrashKeeper(g)

LeaseSpec == LeaseInit /\ [][LeaseNext]_leaseVars

\* A command that holds the lock finishes: every wait in it has a deadline.
\* A keeper polls for the lock: it finds it free if it is free again and again.
Fairness == /\ WF_leaseVars(CmdStep)
            /\ \A g \in Gens : /\ SF_leaseVars(Claim(g))
                               /\ SF_leaseVars(BeginStop(g))
                               /\ WF_leaseVars(StopEnds(g) \/ StopFails(g))
                               /\ SF_leaseVars(RecordFailure(g))

FairSpec == LeaseSpec /\ Fairness
-----------------------------------------------------------------------------
LeaseTypeOK == /\ browser \in [Gens -> {"unborn", "running", "gone"}]
               /\ owner \in [Gens -> {"alive", "gone"}]
               /\ entry \in Leases \cup {Unregistered}
               /\ keeper \in [Gens -> KeeperSteps]
               /\ holder \in Gens \cup {NoOne, Command}
               /\ cmd \in CmdSteps
               /\ crashes \in 0..MaxCrashes

\* stop(_lease_generation): the claim and the close are two lock sections, and
\* still a keeper closes only the browser of its own generation, whose lease
\* says so: never one launched, or retained, under the name since.
CloseIsClaimed == \A g \in Gens : keeper[g] = "ending" => HasState(g, {"closing"})

\* The name is still registered for the same launch.
Kept == /\ entry # Unregistered
        /\ entry' # Unregistered
        /\ entry'.gen = entry.gen

\* retain, watch_once, record_failure: a claimed close is never taken back,
\* and an instance that was retained is never closed automatically.
ClaimIsFinal ==
  [][(Kept /\ entry'.state # entry.state)
        => CASE entry.state = "closing" -> entry'.state = "close_failed"
             [] entry.state \in {"retained", "close_failed"} -> FALSE
             [] OTHER -> TRUE]_leaseVars

\* observe: with its keeper in place, a browser is claimed for closing only
\* when its owner is gone.
ClosesOnlyOrphans ==
  (entry # Unregistered /\ entry.keeper /\ entry.state \in {"closing", "close_failed"})
     => owner[entry.gen] = "gone"

\* "any surviving browser keeps recoverable registry state": whatever times out
\* or is killed, the entry of a running browser stays until it is gone.
Recoverable ==
  [][(entry # Unregistered /\ browser[entry.gen] = "running")
        => Kept \/ browser'[entry.gen] = "gone"]_leaseVars

\* A keeper that was never started, or was killed, watches nothing.
Unwatched(g) == keeper[g] \in {"none", "killed"}

\* A keeper that met the lock deadline twice: its stop failed, and so did
\* recording that.
GaveUp(g) == HasState(g, {"closing"}) /\ keeper[g] \in {"watching", "gone"}

\* The keeper's promise: when the owner of a leased browser exits, the browser
\* is closed, or retained first, or the failure to close it is recorded; only a
\* killed keeper, or one that meets the lock deadline twice, breaks it.
OwnerExitIsSettled ==
  \A g \in Gens :
     (HasState(g, {"auto"}) /\ owner[g] = "gone")
        ~> \/ browser[g] = "gone"
           \/ HasState(g, {"retained", "close_failed"})
           \/ Unwatched(g) \/ GaveUp(g)

=============================================================================
