---------------------------- MODULE RegistryFile ----------------------------
(***************************************************************************)
(* registry.json as its writers see it: a shared file that each operation  *)
(* loads, edits and saves, with nothing but lifecycle.registry_lock        *)
(* between two of them.  A save is three steps (truncate the one shared    *)
(* temporary file, write it, rename it over the registry), the lock has a  *)
(* deadline, and a process may be killed between any two steps.            *)
(*                                                                         *)
(* A launch holds the lock over three saves (prune, register, annotate)    *)
(* because the lock is re-entrant in a thread; a cleanup takes it twice.   *)
(* Only `cleanup' touches the file without the lock, to move an            *)
(* unparseable registry aside.                                             *)
(*                                                                         *)
(* MaxCorruptions bounds how often something outside this program leaves   *)
(* the file unparseable.                                                   *)
(***************************************************************************)
EXTENDS Naturals

CONSTANTS Procs,           \* processes that run registry operations
          Names,           \* instance names
          NoProc, NoEntry, NoName,
          Missing,         \* the file does not exist
          Corrupt,         \* the file does not parse to a JSON object
          Partial,         \* the temporary file, truncated or half written
          MaxCorruptions

\* An entry remembers its launch, and what later saves of that launch added.
Entries == [by : Procs, supervised : BOOLEAN, annotated : BOOLEAN]

Registries == [Names -> Entries \cup {NoEntry}]

ASSUME FileAssumption ==
  /\ NoProc \notin Procs
  /\ NoEntry \notin Entries
  /\ NoName \notin Names
  /\ Missing # Corrupt
  /\ Partial \notin {Missing, Corrupt}
  /\ {Missing, Corrupt, Partial} \cap Registries = {}
  /\ MaxCorruptions \in Nat

VARIABLES file,         \* registry.json
          tmp,          \* registry.json.tmp
          lock,         \* the process that holds the flock on registry.lock
          dead,         \* names whose registered browser has exited
          pc,           \* what each process does next
          section,      \* the load-edit-save sequence it is in
          name,         \* the instance its operation is about
          draft,        \* the registry it loaded and edited
          corruptions   \* how often the file was damaged from outside

vars == <<file, tmp, lock, dead, pc, section, name, draft, corruptions>>
proc == <<section, name, draft>>

Steps == {"idle", "parse", "quarantine", "lock", "lookup", "load",
          "truncate", "write", "rename"}
Sections == {"prune", "register", "supervise", "annotate", "remove", "retire",
             "bound", "sweep"}
Critical == {"lookup", "load", "truncate", "write", "rename"}
-----------------------------------------------------------------------------
Empty == [n \in Names |-> NoEntry]

\* _load_registry: a missing or unparseable file reads as an empty registry.
Read(f) == IF f \in {Missing, Corrupt} THEN Empty ELSE f

Unset(r, S) == [n \in Names |-> IF n \in S THEN NoEntry ELSE r[n]]

NewEntry(p) == [by |-> p, supervised |-> FALSE, annotated |-> FALSE]

Init == /\ file = Missing
        /\ tmp = Missing
        /\ lock = NoProc
        /\ dead = {}
        /\ pc = [p \in Procs |-> "idle"]
        /\ section = [p \in Procs |-> "prune"]
        /\ name = [p \in Procs |-> NoName]
        /\ draft = [p \in Procs |-> Empty]
        /\ corruptions = 0

Goto(p, step) == pc' = [pc EXCEPT ![p] = step]
Enter(p, s) == section' = [section EXCEPT ![p] = s]

\* The operation returns, or raises: its local variables are gone, and so is
\* its hold on the flock, which only a holder can give up.
Finish(p) == /\ Goto(p, "idle")
             /\ Enter(p, "prune")
             /\ name' = [name EXCEPT ![p] = NoName]
             /\ draft' = [draft EXCEPT ![p] = Empty]
             /\ lock' = IF lock = p THEN NoProc ELSE lock
-----------------------------------------------------------------------------
(* The operations, from the moment they ask for the lock. *)

Launch(p) == /\ pc[p] = "idle"
             /\ Goto(p, "lock")
             /\ Enter(p, "prune")
             /\ UNCHANGED <<file, tmp, lock, dead, name, draft, corruptions>>

\* `stop' by a user, or the retirement of an instance by its supervisor.
Withdraw(p, n) == /\ pc[p] = "idle"
                  /\ Goto(p, "lock")
                  /\ \E s \in {"remove", "retire"} : Enter(p, s)
                  /\ name' = [name EXCEPT ![p] = n]
                  /\ UNCHANGED <<file, tmp, lock, dead, draft, corruptions>>

Cleanup(p) == /\ pc[p] = "idle"
              /\ Goto(p, "parse")
              /\ Enter(p, "bound")
              /\ UNCHANGED <<file, tmp, lock, dead, name, draft, corruptions>>

\* registry_is_parseable, read by cleanup before it takes the lock.
Parse(p) == /\ pc[p] = "parse"
            /\ Goto(p, IF file = Corrupt THEN "quarantine" ELSE "lock")
            /\ UNCHANGED <<file, tmp, lock, dead, proc, corruptions>>

\* _quarantine_registry renames whatever the registry file is by now.
Quarantine(p) == /\ pc[p] = "quarantine"
                 /\ file' = Missing
                 /\ Finish(p)
                 /\ UNCHANGED <<tmp, dead, corruptions>>

\* Fault: the lock is taken whoever holds it.
AcquireHeld(p) == /\ pc[p] = "lock"
                  /\ lock' = p
                  /\ Goto(p, IF section[p] = "remove" THEN "lookup" ELSE "load")
                  /\ UNCHANGED <<file, tmp, dead, proc, corruptions>>

\* registry_lock: the flock is taken when nobody holds it.
Acquire(p) == /\ pc[p] = "lock"
              /\ lock = NoProc
              /\ lock' = p
              /\ Goto(p, IF section[p] = "remove" THEN "lookup" ELSE "load")
              /\ UNCHANGED <<file, tmp, dead, proc, corruptions>>

\* Fault: past the deadline the operation goes on without the lock.
LockTimeoutProceeds(p) == /\ pc[p] = "lock"
                          /\ lock # NoProc
                          /\ Goto(p, "load")
                          /\ UNCHANGED <<file, tmp, lock, dead, proc, corruptions>>

\* RegistryLockTimeout: the last attempt before the deadline found it held.
LockTimeout(p) == /\ pc[p] = "lock"
                  /\ lock # NoProc
                  /\ Finish(p)
                  /\ UNCHANGED <<file, tmp, dead, corruptions>>

\* _stop_impl refuses an unparseable registry and a name that is not in it.
Lookup(p) == /\ pc[p] = "lookup"
             /\ IF file # Corrupt /\ Read(file)[name[p]] # NoEntry
                THEN Goto(p, "load") /\ UNCHANGED <<lock, proc>>
                ELSE Finish(p)
             /\ UNCHANGED <<file, tmp, dead, corruptions>>
-----------------------------------------------------------------------------
(* One load-edit-save sequence.  Each Load reads the file once and edits   *)
(* the copy it read.                                                       *)

\* The copy p edited becomes what it saves.
Edit(p, r) == /\ draft' = [draft EXCEPT ![p] = r]
              /\ Goto(p, "truncate")
              /\ UNCHANGED <<lock, section>>

\* Entries a sweep judges dead when it reads the file.
DeadEntries == {n \in dead : Read(file)[n] # NoEntry}

\* core.registry.cleanup: drop every dead entry; save even when there is none.
LoadSweep(p) == /\ section[p] \in {"prune", "sweep"}
                /\ Edit(p, Unset(Read(file), DeadEntries))
                /\ UNCHANGED name

\* lifecycle.cleanup, first pass: drop the dead entries bound to a profile,
\* and skip the save when there is none.
LoadBound(p) ==
  /\ section[p] = "bound"
  /\ \E S \in SUBSET DeadEntries :
        IF S # {}
        THEN Edit(p, Unset(Read(file), S))
        ELSE lock' = NoProc /\ Goto(p, "lock") /\ Enter(p, "sweep")
             /\ UNCHANGED draft
  /\ UNCHANGED name

\* core.registry.register: the first free name, in a table loaded afresh.
LoadRegister(p) ==
  /\ section[p] = "register"
  /\ \E n \in Names :
        /\ Read(file)[n] = NoEntry
        /\ name' = [name EXCEPT ![p] = n]
        /\ Edit(p, [Read(file) EXCEPT ![n] = NewEntry(p)])

\* record_supervisor and annotate_entry: no-ops when the entry is gone.
LoadAmend(p) ==
  /\ section[p] \in {"supervise", "annotate"}
  /\ LET r == Read(file)
         n == name[p]
     IN IF r[n] = NoEntry
        THEN Finish(p)
        ELSE /\ Edit(p, IF section[p] = "supervise"
                        THEN [r EXCEPT ![n].supervised = TRUE]
                        ELSE [r EXCEPT ![n].annotated = TRUE])
             /\ UNCHANGED name

\* _remove_entry: pop the name if it is there, and save in any case.
LoadRemove(p) == /\ section[p] = "remove"
                 /\ Edit(p, Unset(Read(file), {name[p]}))
                 /\ UNCHANGED name

\* _retire_locked: return without a save when the name is not there.
LoadRetire(p) ==
  /\ section[p] = "retire"
  /\ IF Read(file)[name[p]] = NoEntry
     THEN Finish(p)
     ELSE Edit(p, Unset(Read(file), {name[p]})) /\ UNCHANGED name

Load(p) == /\ pc[p] = "load"
           /\ \/ LoadSweep(p)
              \/ LoadBound(p)
              \/ LoadRegister(p)
              \/ LoadAmend(p)
              \/ LoadRemove(p)
              \/ LoadRetire(p)
           /\ UNCHANGED <<file, tmp, dead, corruptions>>

\* launch_browser fails between the prune and the registration.
BrowserFails(p) == /\ pc[p] = "load"
                   /\ section[p] = "register"
                   /\ Finish(p)
                   /\ UNCHANGED <<file, tmp, dead, corruptions>>

\* Fault: the save truncates the registry itself.
TruncateInPlace(p) == /\ pc[p] = "truncate"
                      /\ file' = Corrupt
                      /\ tmp' = Partial
                      /\ Goto(p, "write")
                      /\ UNCHANGED <<lock, dead, proc, corruptions>>

\* _save_registry opens the shared temporary file, which truncates it ...
Truncate(p) == /\ pc[p] = "truncate"
               /\ tmp' = Partial
               /\ Goto(p, "write")
               /\ UNCHANGED <<file, lock, dead, proc, corruptions>>

\* ... writes it ...
Write(p) == /\ pc[p] = "write"
            /\ tmp' = draft[p]
            /\ Goto(p, "rename")
            /\ UNCHANGED <<file, lock, dead, proc, corruptions>>

\* What follows a save: the next save of a launch, the second lock of a
\* cleanup, or the end of the operation.
NextSections(s) == CASE s = "prune" -> {"register"}
                     [] s = "register" -> {"supervise", "annotate"}
                     [] s = "supervise" -> {"annotate"}
                     [] OTHER -> {}

\* Fault: registry_lock is not re-entrant, and a nested use drops the flock.
AfterSaveUnlocks(p) ==
  \/ /\ \E s \in NextSections(section[p]) : Enter(p, s)
     /\ Goto(p, "load")
     /\ lock' = NoProc
     /\ UNCHANGED <<name, draft>>
  \/ /\ NextSections(section[p]) = {}
     /\ Finish(p)

AfterSave(p) ==
  \/ /\ \E s \in NextSections(section[p]) : Enter(p, s)
     /\ Goto(p, "load")
     /\ UNCHANGED <<lock, name, draft>>
  \/ /\ section[p] = "bound"
     /\ Enter(p, "sweep")
     /\ Goto(p, "lock")
     /\ lock' = NoProc
     /\ UNCHANGED <<name, draft>>
  \/ /\ section[p] \in {"annotate", "remove", "retire", "sweep"}
     /\ Finish(p)

\* A name that is no longer registered, or is registered anew, has no dead
\* browser.
StillDead(p) == {n \in dead : /\ draft[p][n] # NoEntry
                              /\ section[p] = "register" => n # name[p]}

\* ... and renames whatever the temporary file holds by now: half a table
\* does not parse.
Rename(p) == /\ pc[p] = "rename"
             /\ tmp # Missing
             /\ file' = IF tmp = Partial THEN Corrupt ELSE tmp
             /\ tmp' = Missing
             /\ dead' = StillDead(p)
             /\ AfterSave(p)
             /\ UNCHANGED corruptions
-----------------------------------------------------------------------------
(* What happens to the processes and to the file from outside. *)

\* The process is killed; the kernel releases its flock.
Crash(p) == /\ pc[p] # "idle"
            /\ Finish(p)
            /\ UNCHANGED <<file, tmp, dead, corruptions>>

\* A registered browser exits.
Die(n) == /\ Read(file)[n] # NoEntry
          /\ n \notin dead
          /\ dead' = dead \cup {n}
          /\ UNCHANGED <<file, tmp, lock, pc, proc, corruptions>>

\* A program other than this one leaves the file unparseable.
Damage == /\ corruptions < MaxCorruptions
          /\ file # Corrupt
          /\ file' = Corrupt
          /\ corruptions' = corruptions + 1
          /\ UNCHANGED <<tmp, lock, dead, pc, proc>>

ProcStep(p) == \/ Launch(p) \/ Cleanup(p) \/ Parse(p) \/ Quarantine(p)
               \/ \E n \in Names : Withdraw(p, n)
               \/ Acquire(p) \/ LockTimeout(p) \/ Lookup(p)
               \/ Load(p) \/ BrowserFails(p)
               \/ Truncate(p) \/ Write(p) \/ Rename(p)
               \/ Crash(p)

Next == \/ \E p \in Procs : ProcStep(p)
        \/ \E n \in Names : Die(n)
        \/ Damage

Spec == Init /\ [][Next]_vars
-----------------------------------------------------------------------------
TypeOK == /\ file \in Registries \cup {Missing, Corrupt}
          /\ tmp \in Registries \cup {Missing, Partial}
          /\ lock \in Procs \cup {NoProc}
          /\ dead \subseteq Names
          /\ pc \in [Procs -> Steps]
          /\ section \in [Procs -> Sections]
          /\ name \in [Procs -> Names \cup {NoName}]
          /\ draft \in [Procs -> Registries]
          /\ corruptions \in 0..MaxCorruptions

\* registry_lock: a process reads or saves the registry inside a sequence
\* only while it holds the flock, and whoever holds it is in a sequence.
LockExclusive == \A p \in Procs : pc[p] \in Critical <=> lock = p

\* _save_registry: every writer uses the same temporary file name, and still
\* what a rename publishes is the table its own process wrote, whole.
RenamePublishesOwnTable == \A p \in Procs : pc[p] = "rename" => tmp = draft[p]

\* A save never makes the registry unparseable: a reader without the lock
\* sees the table before a save or the table after it.
ReadersSeeWholeTables == corruptions = 0 => file # Corrupt

\* registry_lock: load-edit-save under the lock makes every operation on the
\* file one step on the table, so no writer loses another writer's entry.  It
\* holds until something outside the program damages the file.
Table == INSTANCE AtomicRegistry WITH reg <- Read(file), dead <- dead

NoLostUpdate == /\ Table!Init
                /\ [][corruptions' = 0 => [Table!Next]_Table!vars]_vars

=============================================================================
