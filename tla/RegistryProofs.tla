-------------------------- MODULE RegistryProofs --------------------------
(* Theorems about the registry, for every set of processes and of names,    *)
(* and about the lease on a name, for any number of launches and crashes.   *)
EXTENDS RegistryFile, TaskLease, TLAPS

(***************************************************************************)
(* The registry file.                                                      *)
(***************************************************************************)

\* A load gives a table, whatever the file holds.
LEMMA ReadType == ASSUME NEW f \in Registries \cup {Missing, Corrupt}
                  PROVE  Read(f) \in Registries
BY DEF Read, Registries, Empty

\* An edit by removal gives a table.
LEMMA UnsetType == ASSUME NEW r \in Registries, NEW S
                   PROVE  Unset(r, S) \in Registries
BY DEF Unset, Registries

\* Registering a browser gives a table.
LEMMA RegisterType == ASSUME NEW r \in Registries, NEW n \in Names, NEW p \in Procs
                      PROVE  [r EXCEPT ![n] = NewEntry(p)] \in Registries
BY DEF NewEntry, Registries, Entries

\* Completing a registered entry gives a table.
LEMMA AmendType == ASSUME NEW r \in Registries, NEW n \in Names, r[n] # NoEntry
                   PROVE  /\ [r EXCEPT ![n].supervised = TRUE] \in Registries
                          /\ [r EXCEPT ![n].annotated = TRUE] \in Registries
<1>1. r[n] \in Entries
  BY DEF Registries
<1>2. /\ [r[n] EXCEPT !.supervised = TRUE] \in Entries
      /\ [r[n] EXCEPT !.annotated = TRUE] \in Entries
  BY <1>1 DEF Entries
<1> QED BY <1>2 DEF Registries

-----------------------------------------------------------------------------
(* Types.  What a process saves must be a table, so the sequences that edit *)
(* one entry must be about an instance name by the time they load.          *)

OneName == {"supervise", "annotate", "remove", "retire"}

Saving == {"truncate", "write", "rename"}

Named == \A p \in Procs :
           (\/ pc[p] # "idle" /\ section[p] \in OneName
            \/ pc[p] \in Saving /\ section[p] = "register")
           => name[p] \in Names

TypeInv == TypeOK /\ Named

\* The operation of p ends: nothing it leaves behind is ill-typed.
LEMMA FinishType ==
  ASSUME TypeInv, NEW p \in Procs, Finish(p)
  PROVE  /\ lock' \in Procs \cup {NoProc}
         /\ pc' \in [Procs -> Steps]
         /\ section' \in [Procs -> Sections]
         /\ name' \in [Procs -> Names \cup {NoName}]
         /\ draft' \in [Procs -> Registries]
         /\ Named'
<1>1. Empty \in Registries
  BY DEF Empty, Registries
<1> QED BY <1>1 DEF TypeInv, TypeOK, Finish, Goto, Enter, Named, OneName, Saving, Steps,
                    Sections

\* A load edits a table into a table.
LEMMA EditType ==
  ASSUME TypeInv, NEW p \in Procs, NEW r \in Registries, Edit(p, r)
  PROVE  /\ lock' = lock /\ section' = section
         /\ pc' \in [Procs -> Steps]
         /\ draft' \in [Procs -> Registries]
         /\ \A q \in Procs : q # p => pc'[q] = pc[q]
BY DEF TypeInv, TypeOK, Edit, Goto, Steps

LEMMA LoadType ==
  ASSUME TypeInv, NEW p \in Procs, Load(p)
  PROVE  TypeInv'
<1>1. pc[p] = "load" /\ UNCHANGED <<file, tmp, dead, corruptions>>
  BY DEF Load
<1>2. Read(file) \in Registries
  BY ReadType DEF TypeInv, TypeOK
<1>3. CASE LoadSweep(p)
  <2>1. Unset(Read(file), DeadEntries) \in Registries
    BY <1>2, UnsetType
  <2> QED BY <1>1, <1>3, <2>1, EditType
           DEF TypeInv, TypeOK, Named, OneName, LoadSweep
<1>4. CASE LoadBound(p)
  <2>1. PICK S \in SUBSET DeadEntries :
           IF S # {} THEN Edit(p, Unset(Read(file), S))
           ELSE lock' = NoProc /\ Goto(p, "lock") /\ Enter(p, "sweep")
                /\ UNCHANGED draft
    BY <1>4 DEF LoadBound
  <2>2. UNCHANGED name
    BY <1>4 DEF LoadBound
  <2>3. CASE S # {}
    <3>1. Unset(Read(file), S) \in Registries /\ section[p] = "bound"
      BY <1>2, <1>4, UnsetType DEF LoadBound
    <3> QED BY <1>1, <1>4, <2>1, <2>2, <2>3, <3>1, EditType
             DEF TypeInv, TypeOK, Named, OneName
  <2>4. CASE S = {}
    BY <1>1, <2>1, <2>2, <2>4
    DEF TypeInv, TypeOK, Named, OneName, Saving, Goto, Enter, Steps, Sections
  <2> QED BY <2>3, <2>4
<1>5. CASE LoadRegister(p)
  <2>1. PICK n \in Names : /\ name' = [name EXCEPT ![p] = n]
                           /\ Edit(p, [Read(file) EXCEPT ![n] = NewEntry(p)])
    BY <1>5 DEF LoadRegister
  <2>2. [Read(file) EXCEPT ![n] = NewEntry(p)] \in Registries
    BY <1>2, RegisterType
  <2> QED BY <1>1, <1>5, <2>1, <2>2, EditType
          DEF TypeInv, TypeOK, Named, OneName, LoadRegister
<1>6. CASE LoadAmend(p)
  <2>1. CASE Read(file)[name[p]] = NoEntry
    BY <1>1, <1>6, <2>1, FinishType DEF LoadAmend, TypeInv, TypeOK
  <2>2. CASE Read(file)[name[p]] # NoEntry
    <3>1. name[p] \in Names
      BY <1>1, <1>6 DEF TypeInv, Named, OneName, LoadAmend
    <3> DEFINE s == [Read(file) EXCEPT ![name[p]].supervised = TRUE]
               a == [Read(file) EXCEPT ![name[p]].annotated = TRUE]
    <3>2. s \in Registries /\ a \in Registries
      BY <1>2, <2>2, <3>1, AmendType
    <3>3. Edit(p, IF section[p] = "supervise" THEN s ELSE a) /\ UNCHANGED name
      BY <1>6, <2>2 DEF LoadAmend
    <3> QED BY <1>1, <3>1, <3>2, <3>3, EditType DEF TypeInv, TypeOK, Named
  <2> QED BY <2>1, <2>2
<1>7. CASE LoadRemove(p)
  <2>1. Unset(Read(file), {name[p]}) \in Registries
    BY <1>2, UnsetType
  <2> QED BY <1>1, <1>7, <2>1, EditType DEF TypeInv, TypeOK, Named, LoadRemove
<1>8. CASE LoadRetire(p)
  <2>1. CASE Read(file)[name[p]] = NoEntry
    BY <1>1, <1>8, <2>1, FinishType DEF LoadRetire, TypeInv, TypeOK
  <2>2. CASE Read(file)[name[p]] # NoEntry
    <3>1. Unset(Read(file), {name[p]}) \in Registries
      BY <1>2, UnsetType
    <3> QED BY <1>1, <1>8, <2>2, <3>1, EditType
            DEF TypeInv, TypeOK, Named, LoadRetire
  <2> QED BY <2>1, <2>2
<1> QED BY <1>3, <1>4, <1>5, <1>6, <1>7, <1>8 DEF Load

LEMMA RenameType ==
  ASSUME TypeInv, NEW p \in Procs, Rename(p)
  PROVE  TypeInv'
<1>1. /\ file' \in Registries \cup {Missing, Corrupt}
      /\ tmp' \in Registries \cup {Missing, Partial}
      /\ dead' \subseteq Names
      /\ corruptions' \in 0..MaxCorruptions
      /\ pc[p] = "rename"
  BY DEF Rename, TypeInv, TypeOK, StillDead
<1>2. CASE section[p] \in {"annotate", "remove", "retire", "sweep"} /\ Finish(p)
  BY <1>1, <1>2, FinishType DEF TypeInv, TypeOK
<1>3. CASE /\ section[p] = "bound" /\ Enter(p, "sweep") /\ Goto(p, "lock")
           /\ lock' = NoProc /\ UNCHANGED <<name, draft>>
  BY <1>1, <1>3 DEF TypeInv, TypeOK, Named, OneName, Saving, Enter, Goto, Steps,
                 Sections
<1>4. ASSUME NEW s \in NextSections(section[p]), Enter(p, s), Goto(p, "load"),
             UNCHANGED <<lock, name, draft>>
      PROVE  TypeInv'
  <2>1. /\ s \in {"register", "supervise", "annotate"}
        /\ s # "register" => section[p] \in {"register", "supervise"}
    BY <1>4 DEF NextSections
  <2> QED BY <1>1, <1>4, <2>1
          DEF TypeInv, TypeOK, Named, OneName, Saving, Enter, Goto, Steps,
                 Sections
<1> QED BY <1>2, <1>3, <1>4 DEF Rename, AfterSave

LEMMA StepType == ASSUME TypeInv, [Next]_vars PROVE TypeInv'
<1>1. CASE UNCHANGED vars
  BY <1>1 DEF vars, proc, TypeInv, TypeOK, Named
<1>2. ASSUME NEW p \in Procs, ProcStep(p)
      PROVE  TypeInv'
  <2>1. CASE Launch(p) \/ Cleanup(p) \/ \E n \in Names : Withdraw(p, n)
    BY <2>1 DEF Launch, Cleanup, Withdraw, TypeInv, TypeOK, Named, OneName,
                Saving, Goto, Enter, Steps, Sections
  <2>2. CASE Parse(p) \/ Acquire(p)
    BY <2>2 DEF Parse, Acquire, proc, TypeInv, TypeOK, Named, OneName,
                Saving, Goto, Steps, Sections
  <2>3. CASE Quarantine(p) \/ LockTimeout(p) \/ BrowserFails(p) \/ Crash(p)
    <3>1. Finish(p) /\ UNCHANGED <<tmp, dead, corruptions>>
          /\ file' \in {file, Missing}
      BY <2>3 DEF Quarantine, LockTimeout, BrowserFails, Crash
    <3> QED BY <3>1, FinishType DEF TypeInv, TypeOK
  <2>4. CASE Lookup(p)
    <3>1. CASE Finish(p)
      BY <2>4, <3>1, FinishType DEF Lookup, TypeInv, TypeOK
    <3>2. CASE Goto(p, "load") /\ UNCHANGED <<lock, proc>>
      BY <2>4, <3>2 DEF Lookup, proc, TypeInv, TypeOK, Named, OneName, Saving,
                        Goto, Steps
    <3> QED BY <2>4, <3>1, <3>2 DEF Lookup
  <2>5. CASE Truncate(p) \/ Write(p)
    BY <2>5 DEF Truncate, Write, proc, TypeInv, TypeOK, Named, OneName, Saving,
                Goto, Steps
  <2> QED BY <1>2, <2>1, <2>2, <2>3, <2>4, <2>5, LoadType, RenameType
          DEF ProcStep
<1>3. ASSUME NEW n \in Names, Die(n) PROVE TypeInv'
  BY <1>3 DEF Die, proc, TypeInv, TypeOK, Named
<1>4. CASE Damage
  BY <1>4, FileAssumption DEF Damage, proc, TypeInv, TypeOK, Named
<1> QED BY <1>1, <1>2, <1>3, <1>4 DEF Next

LEMMA InitType == Init => TypeInv
BY FileAssumption DEF Init, TypeInv, TypeOK, Named, Registries, Empty, Steps,
                      Sections

\* Every variable keeps its type: in particular, what is saved is a table.
THEOREM TypeCorrect == Spec => []TypeOK
<1>1. Spec => []TypeInv
  BY InitType, StepType, PTL DEF Spec
<1>2. TypeInv => TypeOK
  BY DEF TypeInv
<1> QED BY <1>1, <1>2, PTL
-----------------------------------------------------------------------------
(* The lock excludes, and because it does the shared temporary file is the *)
(* holder's own.                                                           *)

ExclusionInv == TypeInv /\ LockExclusive

LEMMA StepExclusive == ASSUME ExclusionInv, [Next]_vars PROVE LockExclusive'
<1> USE DEF ExclusionInv, LockExclusive, TypeInv, TypeOK
<1>1. CASE UNCHANGED vars
  BY <1>1 DEF vars
<1>2. ASSUME NEW p \in Procs, ProcStep(p)
      PROVE  LockExclusive'
  <2>1. CASE Finish(p)
    BY <2>1, FileAssumption DEF Finish, Goto, Critical
  <2>2. CASE Launch(p) \/ Cleanup(p) \/ \E n \in Names : Withdraw(p, n)
    BY <2>2 DEF Launch, Cleanup, Withdraw, Goto, Critical
  <2>3. CASE Parse(p) \/ Acquire(p) \/ Truncate(p) \/ Write(p)
    BY <2>3, FileAssumption DEF Parse, Acquire, Truncate, Write, Goto, Critical
  <2>4. CASE Lookup(p)
    BY <2>1, <2>4 DEF Lookup, Goto, Critical
  <2>5. CASE Load(p)
    <3>1. ASSUME NEW r, Edit(p, r) PROVE LockExclusive'
      BY <2>5, <3>1 DEF Load, Edit, Goto, Critical
    <3>2. CASE LoadBound(p)
      BY <2>5, <3>1, <3>2, FileAssumption DEF Load, LoadBound, Goto, Critical
    <3> QED BY <2>1, <2>5, <3>1, <3>2
            DEF Load, LoadSweep, LoadRegister, LoadAmend, LoadRemove, LoadRetire
  <2>6. CASE Rename(p)
    BY <2>1, <2>6, FileAssumption DEF Rename, AfterSave, Goto, Critical
  <2> QED BY <1>2, <2>1, <2>2, <2>3, <2>4, <2>5, <2>6
          DEF ProcStep, Quarantine, LockTimeout, BrowserFails, Crash
<1>3. CASE Damage \/ \E n \in Names : Die(n)
  BY <1>3 DEF Damage, Die
<1> QED BY <1>1, <1>2, <1>3 DEF Next

LEMMA InitExclusive == Init => LockExclusive
BY FileAssumption DEF Init, LockExclusive, Critical

\* Two processes are never inside a load-edit-save sequence together, however
\* many of them time out, are killed, or start again.
THEOREM Exclusion == Spec => []LockExclusive
<1>1. Init => ExclusionInv
  BY InitType, InitExclusive DEF ExclusionInv
<1>2. ExclusionInv /\ [Next]_vars => ExclusionInv'
  BY StepType, StepExclusive DEF ExclusionInv
<1>3. ExclusionInv => LockExclusive
  BY DEF ExclusionInv
<1> QED BY <1>1, <1>2, <1>3, PTL DEF Spec

SaveInv == /\ ExclusionInv
           /\ RenamePublishesOwnTable
           /\ ReadersSeeWholeTables

LEMMA StepSave == ASSUME SaveInv, [Next]_vars
                  PROVE  RenamePublishesOwnTable' /\ ReadersSeeWholeTables'
<1> USE DEF SaveInv, ExclusionInv, TypeInv, TypeOK, LockExclusive,
            RenamePublishesOwnTable, ReadersSeeWholeTables
<1> DEFINE Goal == RenamePublishesOwnTable' /\ ReadersSeeWholeTables'
<1>1. CASE UNCHANGED vars
  BY <1>1 DEF vars, proc
<1>2. ASSUME NEW p \in Procs, ProcStep(p)
      PROVE  Goal
  <2>1. CASE Finish(p) /\ tmp' = tmp /\ corruptions' = corruptions
             /\ file' \in {file, Missing}
    BY <2>1, FileAssumption DEF Finish, Goto
  <2>2. CASE Launch(p) \/ Cleanup(p) \/ \E n \in Names : Withdraw(p, n)
    BY <2>2 DEF Launch, Cleanup, Withdraw, Goto
  <2>3. CASE Parse(p) \/ Acquire(p)
    BY <2>3 DEF Parse, Acquire, Goto, proc
  <2>4. CASE Lookup(p)
    BY <2>1, <2>4 DEF Lookup, Goto, proc
  <2>5. CASE Load(p)
    <3>1. ASSUME NEW r, Edit(p, r) PROVE Goal
      BY <2>5, <3>1 DEF Load, Edit, Goto
    <3>2. CASE LoadBound(p)
      BY <2>5, <3>1, <3>2 DEF Load, LoadBound, Goto
    <3> QED BY <2>1, <2>5, <3>1, <3>2
            DEF Load, LoadSweep, LoadRegister, LoadAmend, LoadRemove, LoadRetire
  <2>6. CASE Truncate(p)
    BY <2>6 DEF Truncate, Goto, proc, Critical
  <2>7. CASE Write(p)
    BY <2>7 DEF Write, Goto, proc, Critical
  <2>8. CASE Rename(p)
    <3>1. file' = draft[p] /\ file' \in Registries /\ corruptions' = corruptions
      BY <2>8, FileAssumption DEF Rename
    <3>2. \A q \in Procs : pc'[q] # "rename"
      <4>1. \A q \in Procs \ {p} : pc[q] # "rename"
        BY <2>8 DEF Rename, Critical
      <4> QED BY <2>8, <4>1 DEF Rename, AfterSave, Finish, Goto
    <3> QED BY <3>1, <3>2, FileAssumption
  <2> QED BY <1>2, <2>1, <2>2, <2>3, <2>4, <2>5, <2>6, <2>7, <2>8
          DEF ProcStep, Quarantine, LockTimeout, BrowserFails, Crash
<1>3. CASE Damage \/ \E n \in Names : Die(n)
  BY <1>3 DEF Damage, Die, proc
<1> QED BY <1>1, <1>2, <1>3 DEF Next

LEMMA InitSave == Init => SaveInv
BY InitType, InitExclusive, FileAssumption
DEF Init, SaveInv, ExclusionInv, RenamePublishesOwnTable, ReadersSeeWholeTables

LEMMA SaveInvariant == Spec => []SaveInv
<1>1. SaveInv /\ [Next]_vars => SaveInv'
  BY StepType, StepExclusive, StepSave DEF SaveInv, ExclusionInv
<1> QED BY <1>1, InitSave, PTL DEF Spec

\* One temporary file name serves every writer, and still a rename publishes
\* exactly what its own process wrote.
THEOREM OwnTable == Spec => []RenamePublishesOwnTable
<1>1. SaveInv => RenamePublishesOwnTable
  BY DEF SaveInv
<1> QED BY <1>1, SaveInvariant, PTL

\* No save, and no crash in the middle of one, leaves an unparseable registry.
THEOREM WholeTables == Spec => []ReadersSeeWholeTables
<1>1. SaveInv => ReadersSeeWholeTables
  BY DEF SaveInv
<1> QED BY <1>1, SaveInvariant, PTL
-----------------------------------------------------------------------------
(* The file implements the table.  What a process is about to save is the  *)
(* table the file holds now, changed by its own edit and by nothing else.  *)
(* That needs the lock (nobody saved since the load) and an undamaged file *)
(* (no quarantine moved it aside).                                         *)

Sweeps == {"prune", "bound", "sweep"}
Amends == {"supervise", "annotate"}

SweepDraft(p) == \E S \in SUBSET dead : draft[p] = Unset(Read(file), S)

RegisterDraft(p) ==
  /\ Read(file)[name[p]] = NoEntry
  /\ draft[p] = [Read(file) EXCEPT ![name[p]] = NewEntry(p)]

AmendDraft(p) ==
  \/ draft[p] = [Read(file) EXCEPT ![name[p]].supervised = TRUE]
  \/ draft[p] = [Read(file) EXCEPT ![name[p]].annotated = TRUE]

DropDraft(p) == draft[p] = Unset(Read(file), {name[p]})

DraftIsEdit(p) ==
  /\ section[p] \in Sweeps => SweepDraft(p)
  /\ section[p] = "register" => RegisterDraft(p)
  /\ section[p] \in Amends => AmendDraft(p)
  /\ section[p] \in {"remove", "retire"} => DropDraft(p)

FreshDrafts == \A p \in Procs : pc[p] \in Saving => DraftIsEdit(p)

\* A launch that completes its entry finds the entry it registered.
OwnEntries == \A p \in Procs :
  (pc[p] \in Critical /\ section[p] \in Amends) =>
     Read(file)[name[p]] # NoEntry /\ Read(file)[name[p]].by = p

\* A process that does not hold the lock is not in the middle of a launch.
OutsideLaunch == \A p \in Procs : pc[p] \notin Critical =>
  section[p] \notin Amends \cup {"register"}

DeadRegistered == \A n \in dead : Read(file)[n] # NoEntry

Undamaged == /\ corruptions = 0
             /\ \A p \in Procs : pc[p] # "quarantine"

TableInv == /\ SaveInv
            /\ Undamaged
            /\ DeadRegistered
            /\ OutsideLaunch
            /\ OwnEntries
            /\ FreshDrafts

\* Nothing is registered, and nothing is in flight, at the start.
LEMMA TableInit == Init => TableInv /\ Table!Init
<1>1. Init => Table!Init
  BY DEF Init, Table!Init, Read, Empty
<1>2. Init => TableInv
  BY InitSave, FileAssumption
  DEF Init, TableInv, Undamaged, DeadRegistered, OutsideLaunch, OwnEntries,
      FreshDrafts, Critical, Saving, Amends
<1> QED BY <1>1, <1>2

\* A step that leaves the table, and what a process knows, alone keeps its
\* draft an edit of the table; browsers may die meanwhile.
LEMMA DraftFrame ==
  ASSUME NEW q \in Procs, DraftIsEdit(q),
         Read(file)' = Read(file), dead \subseteq dead',
         section'[q] = section[q], name'[q] = name[q], draft'[q] = draft[q]
  PROVE  DraftIsEdit(q)'
<1>1. ASSUME NEW S PROVE Unset(Read(file), S)' = Unset(Read(file), S)
  BY DEF Unset
<1>2. SweepDraft(q) => SweepDraft(q)'
  BY <1>1 DEF SweepDraft
<1>3. RegisterDraft(q) => RegisterDraft(q)'
  BY DEF RegisterDraft
<1>4. AmendDraft(q) => AmendDraft(q)'
  BY DEF AmendDraft
<1>5. DropDraft(q) => DropDraft(q)'
  BY DEF DropDraft, Unset
<1> QED BY <1>2, <1>3, <1>4, <1>5 DEF DraftIsEdit

\* Loading: the draft is the table just read, edited.
LEMMA TableLoad ==
  ASSUME TableInv, NEW p \in Procs, Load(p)
  PROVE  /\ UNCHANGED <<Read(file), dead>>
         /\ Undamaged' /\ DeadRegistered' /\ OutsideLaunch' /\ OwnEntries'
         /\ FreshDrafts'
<1> USE DEF TableInv, SaveInv, ExclusionInv, TypeInv, TypeOK
<1>0. pc[p] = "load" /\ UNCHANGED <<file, tmp, dead, corruptions>>
  BY DEF Load
<1>1. UNCHANGED <<Read(file), dead>> /\ DeadRegistered'
  BY <1>0 DEF DeadRegistered, Read
<1>2. CASE Finish(p)
  <2>1. FreshDrafts'
    BY <1>0, <1>1, <1>2, DraftFrame DEF Finish, Goto, Enter, FreshDrafts, Saving
  <2>2. Undamaged' /\ OutsideLaunch' /\ OwnEntries'
    BY <1>0, <1>1, <1>2
    DEF Finish, Goto, Enter, Undamaged, OutsideLaunch, OwnEntries, Critical, Amends
  <2> QED BY <1>1, <2>1, <2>2
<1>3. ASSUME NEW r, Edit(p, r), \A q \in Procs \ {p} : name'[q] = name[q],
             section[p] \in Sweeps => \E S \in SUBSET dead :
                                         r = Unset(Read(file), S),
             section[p] = "register" =>
                /\ Read(file)[name'[p]] = NoEntry
                /\ r = [Read(file) EXCEPT ![name'[p]] = NewEntry(p)],
             section[p] # "register" => name' = name,
             section[p] \in Amends =>
                \/ r = [Read(file) EXCEPT ![name[p]].supervised = TRUE]
                \/ r = [Read(file) EXCEPT ![name[p]].annotated = TRUE],
             section[p] \in {"remove", "retire"} =>
                r = Unset(Read(file), {name[p]})
      PROVE  Undamaged' /\ OutsideLaunch' /\ OwnEntries' /\ FreshDrafts'
  <2>1. /\ \A q \in Procs : section'[q] = section[q]
        /\ \A q \in Procs \ {p} : draft'[q] = draft[q] /\ pc'[q] = pc[q]
        /\ draft'[p] = r /\ pc'[p] = "truncate"
    BY <1>3 DEF Edit, Goto
  <2>2. Undamaged' /\ OutsideLaunch'
    BY <1>0, <2>1 DEF Undamaged, OutsideLaunch, Critical
  <2>3. OwnEntries'
    <3>1. ASSUME NEW q \in Procs, pc'[q] \in Critical, section'[q] \in Amends
          PROVE  name'[q] = name[q] /\ pc[q] \in Critical
      BY <1>0, <1>3, <2>1, <3>1 DEF Amends, Critical
    <3> QED BY <1>1, <2>1, <3>1 DEF OwnEntries
  <2>4. FreshDrafts'
    <3>1. ASSUME NEW q \in Procs, q # p, pc'[q] \in Saving
          PROVE  /\ name'[q] = name[q] /\ draft'[q] = draft[q]
                 /\ pc[q] \in Saving /\ section'[q] = section[q]
      BY <1>3, <2>1, <3>1
    <3>2. ASSUME NEW q \in Procs, q # p, pc'[q] \in Saving
          PROVE  DraftIsEdit(q)'
      BY <1>1, <3>1, <3>2, DraftFrame DEF FreshDrafts
    <3>3. SweepDraft(p)' = (\E S \in SUBSET dead : r = Unset(Read(file), S))
      BY <1>1, <2>1 DEF SweepDraft, Unset
    <3>4. RegisterDraft(p)' =
            (/\ Read(file)[name'[p]] = NoEntry
             /\ r = [Read(file) EXCEPT ![name'[p]] = NewEntry(p)])
      BY <1>1, <2>1 DEF RegisterDraft
    <3>5. AmendDraft(p)' =
            (\/ r = [Read(file) EXCEPT ![name'[p]].supervised = TRUE]
             \/ r = [Read(file) EXCEPT ![name'[p]].annotated = TRUE])
      BY <1>1, <2>1 DEF AmendDraft
    <3>6. DropDraft(p)' = (r = Unset(Read(file), {name'[p]}))
      BY <1>1, <2>1 DEF DropDraft, Unset
    <3>7. DraftIsEdit(p)'
      BY <1>3, <2>1, <3>3, <3>4, <3>5, <3>6 DEF DraftIsEdit, Amends
    <3> QED BY <3>2, <3>7 DEF FreshDrafts
  <2> QED BY <2>2, <2>3, <2>4
<1>4. CASE LoadSweep(p)
  <2>1. DeadEntries \in SUBSET dead
    BY DEF DeadEntries
  <2> QED BY <1>1, <1>3, <1>4, <2>1 DEF LoadSweep, Sweeps, Amends
<1>5. CASE LoadBound(p)
  <2>1. PICK S \in SUBSET DeadEntries :
           IF S # {} THEN Edit(p, Unset(Read(file), S))
           ELSE lock' = NoProc /\ Goto(p, "lock") /\ Enter(p, "sweep")
                /\ UNCHANGED draft
    BY <1>5 DEF LoadBound
  <2>2. CASE S # {}
    BY <1>1, <1>3, <1>5, <2>1, <2>2 DEF LoadBound, DeadEntries, Sweeps, Amends
  <2>3. CASE S = {}
    <3>1. FreshDrafts'
      BY <1>0, <1>1, <1>5, <2>1, <2>3, DraftFrame
      DEF LoadBound, Goto, Enter, FreshDrafts, Saving
    <3>2. Undamaged' /\ OutsideLaunch' /\ OwnEntries'
      BY <1>0, <1>1, <1>5, <2>1, <2>3
      DEF LoadBound, Goto, Enter, Undamaged, OutsideLaunch, OwnEntries, Critical,
          Amends
    <3> QED BY <1>1, <3>1, <3>2
  <2> QED BY <1>1, <2>2, <2>3
<1>6. CASE LoadRegister(p)
  BY <1>1, <1>3, <1>6 DEF LoadRegister, Sweeps, Amends
<1>7. CASE LoadAmend(p)
  BY <1>1, <1>2, <1>3, <1>7 DEF LoadAmend, Sweeps, Amends
<1>8. CASE LoadRemove(p)
  BY <1>1, <1>3, <1>8 DEF LoadRemove, Sweeps, Amends
<1>9. CASE LoadRetire(p)
  BY <1>1, <1>2, <1>3, <1>9 DEF LoadRetire, Sweeps, Amends
<1> QED BY <1>1, <1>4, <1>5, <1>6, <1>7, <1>8, <1>9 DEF Load

\* Saving: the table changes by the edit, in one step.
LEMMA TableRename ==
  ASSUME TableInv, NEW p \in Procs, Rename(p)
  PROVE  /\ Table!Next
         /\ Undamaged' /\ DeadRegistered' /\ OutsideLaunch' /\ OwnEntries'
         /\ FreshDrafts'
<1> USE DEF TableInv, SaveInv, ExclusionInv, TypeInv, TypeOK
<1> DEFINE old == Read(file)
           n == name[p]
<1>1. /\ pc[p] = "rename" /\ corruptions' = corruptions
      /\ dead' = StillDead(p)
      /\ file' = draft[p] /\ draft[p] \in Registries
  BY FileAssumption DEF Rename, RenamePublishesOwnTable
<1>2. Read(file)' = draft[p]
  BY <1>1, FileAssumption DEF Read
<1>3. old \in Registries
  BY ReadType
<1>4. DraftIsEdit(p)
  BY <1>1 DEF FreshDrafts, Saving
<1>5. \A q \in Procs \ {p} : pc[q] \notin Critical
  BY <1>1 DEF LockExclusive, Critical
<1>6. \A q \in Procs \ {p} : /\ pc'[q] = pc[q] /\ section'[q] = section[q]
                             /\ name'[q] = name[q]
  BY DEF Rename, AfterSave, Finish, Goto, Enter
<1>7. pc'[p] \in {"load", "lock", "idle"}
  BY DEF Rename, AfterSave, Finish, Goto
<1>8. Undamaged' /\ FreshDrafts'
  BY <1>1, <1>5, <1>6, <1>7 DEF Undamaged, FreshDrafts, Saving, Critical
<1>9. OutsideLaunch'
  <2>1. pc'[p] # "load" => section'[p] \in {"sweep", "prune"}
    BY DEF Rename, AfterSave, Finish, Goto, Enter
  <2> QED BY <1>5, <1>6, <1>7, <2>1 DEF OutsideLaunch, Amends, Critical
<1>10. DeadRegistered'
  BY <1>1, <1>2 DEF DeadRegistered, StillDead
<1>11. CASE section[p] \in Sweeps
  <2>1. PICK S \in SUBSET dead : draft[p] = Unset(old, S)
    BY <1>4, <1>11 DEF DraftIsEdit, SweepDraft
  <2>2. dead' = dead \ S
    BY <1>1, <1>11, <2>1 DEF StillDead, DeadRegistered, Unset, Sweeps
  <2>3. Read(file)' = Table!Unset(S)
    BY <1>2, <2>1 DEF Unset, Table!Unset
  <2>4. Table!Sweep(S)
    BY <2>2, <2>3 DEF Table!Sweep
  <2>5. OwnEntries'
    BY <1>5, <1>6, <1>7, <1>11
    DEF OwnEntries, Rename, AfterSave, Finish, Goto, Enter, NextSections, Sweeps,
        Amends, Critical
  <2> QED BY <1>8, <1>9, <1>10, <2>4, <2>5 DEF Table!Next
<1>12. CASE section[p] = "register"
  <2>1. /\ n \in Names
        /\ old[n] = NoEntry /\ draft[p] = [old EXCEPT ![n] = NewEntry(p)]
    BY <1>1, <1>4, <1>12 DEF DraftIsEdit, RegisterDraft, Named, Saving
  <2>2. dead' = dead
    BY <1>1, <2>1 DEF StillDead, DeadRegistered
  <2>3. Table!Register(n, p)
    BY <1>2, <2>1, <2>2 DEF Table!Register, NewEntry, Table!NewEntry
  <2>4. draft[p][n] = NewEntry(p) /\ NewEntry(p) # NoEntry
    <3>1. draft[p][n] = NewEntry(p)
      BY <1>3, <2>1 DEF Registries
    <3>2. NewEntry(p) \in Entries
      BY DEF NewEntry, Entries
    <3> QED BY <3>1, <3>2, FileAssumption
  <2>5. name'[p] = n
    BY <1>12 DEF Rename, AfterSave
  <2>6. OwnEntries'
    BY <1>2, <1>5, <1>6, <2>4, <2>5 DEF OwnEntries, NewEntry
  <2> QED BY <1>8, <1>9, <1>10, <2>1, <2>3, <2>6 DEF Table!Next
<1>13. CASE section[p] \in Amends
  <2>1. /\ n \in Names /\ old[n] # NoEntry /\ old[n].by = p
        /\ \/ draft[p] = [old EXCEPT ![n].supervised = TRUE]
           \/ draft[p] = [old EXCEPT ![n].annotated = TRUE]
    BY <1>1, <1>4, <1>13
    DEF DraftIsEdit, AmendDraft, OwnEntries, Named, OneName, Amends, Critical
  <2>2. old[n] \in Entries
    BY <1>3, <2>1 DEF Registries
  <2>3. draft[p][n] \in Entries /\ draft[p][n].by = p
    <3>1. draft[p][n] = [old[n] EXCEPT !.supervised = TRUE]
          \/ draft[p][n] = [old[n] EXCEPT !.annotated = TRUE]
      BY <1>3, <2>1 DEF Registries
    <3> QED BY <2>1, <2>2, <3>1 DEF Entries
  <2>4. \A m \in Names \ {n} : draft[p][m] = old[m]
    BY <1>3, <2>1 DEF Registries
  <2>5. dead' = dead
    BY <1>1, <1>13, <2>3, <2>4, FileAssumption
    DEF StillDead, DeadRegistered, Amends
  <2>6. Table!Amend(n, p)
    BY <1>2, <2>1, <2>5 DEF Table!Amend
  <2>7. OwnEntries'
    <3>1. section'[p] \in Amends => name'[p] = n
      BY <1>13 DEF Rename, AfterSave, Finish, Enter, Amends
    <3> QED BY <1>2, <1>5, <1>6, <2>3, <3>1, FileAssumption DEF OwnEntries
  <2> QED BY <1>8, <1>9, <1>10, <2>1, <2>6, <2>7 DEF Table!Next
<1>14. CASE section[p] \in {"remove", "retire"}
  <2>1. n \in Names /\ draft[p] = Unset(old, {n})
    BY <1>1, <1>4, <1>14 DEF DraftIsEdit, DropDraft, Named, OneName
  <2>2. dead' = dead \ {n}
    BY <1>1, <1>14, <2>1 DEF StillDead, DeadRegistered, Unset
  <2>3. Table!Drop(n)
    BY <1>2, <2>1, <2>2 DEF Table!Drop, Unset, Table!Unset
  <2>4. OwnEntries'
    BY <1>5, <1>6, <1>7, <1>14
    DEF OwnEntries, Rename, AfterSave, Finish, Goto, Enter, NextSections, Amends,
        Critical
  <2> QED BY <1>8, <1>9, <1>10, <2>1, <2>3, <2>4 DEF Table!Next
<1> QED BY <1>11, <1>12, <1>13, <1>14 DEF Sections, Sweeps, Amends

\* Every other step leaves the table alone, but for a browser that exits.
LEMMA TableStep ==
  ASSUME corruptions' = 0, TableInv, [Next]_vars
  PROVE  /\ [Table!Next]_Table!vars
         /\ Undamaged' /\ DeadRegistered' /\ OutsideLaunch' /\ OwnEntries'
         /\ FreshDrafts'
<1> USE DEF TableInv, SaveInv, ExclusionInv, TypeInv, TypeOK
<1> DEFINE Stays == /\ Undamaged' /\ DeadRegistered' /\ OutsideLaunch'
                    /\ OwnEntries' /\ FreshDrafts'
           Quiet == UNCHANGED <<Read(file), dead>> /\ Stays
<1>0. file # Corrupt /\ corruptions = 0
  BY DEF ReadersSeeWholeTables, Undamaged
<1>1. CASE UNCHANGED vars
  <2>1. UNCHANGED <<file, dead, pc, section, name, draft, corruptions>>
    BY <1>1 DEF vars, proc
  <2>2. Read(file)' = Read(file)
    BY <2>1 DEF Read
  <2>3. FreshDrafts'
    BY <2>1, <2>2, DraftFrame DEF FreshDrafts
  <2> QED BY <2>1, <2>2, <2>3
          DEF Table!vars, Undamaged, DeadRegistered, OutsideLaunch, OwnEntries
<1>2. ASSUME NEW p \in Procs, ProcStep(p)
      PROVE  [Table!Next]_Table!vars /\ Stays
  <2>1. ASSUME UNCHANGED <<file, dead, corruptions>>,
               \A q \in Procs \ {p} : /\ pc'[q] = pc[q] /\ name'[q] = name[q]
                                      /\ section'[q] = section[q]
                                      /\ draft'[q] = draft[q],
               pc'[p] # "quarantine",
               pc'[p] \notin Critical => section'[p] \notin Amends \cup {"register"},
               pc'[p] \in Critical \/ pc'[p] \in Saving =>
                  /\ section'[p] = section[p] /\ name'[p] = name[p]
                  /\ draft'[p] = draft[p],
               pc'[p] \in Critical /\ section'[p] \in Amends => pc[p] \in Critical,
               pc'[p] \in Saving => pc[p] \in Saving
        PROVE  Quiet
    <3>1. Read(file)' = Read(file)
      BY <2>1 DEF Read
    <3>2. FreshDrafts'
      BY <2>1, <3>1, DraftFrame DEF FreshDrafts
    <3> QED BY <2>1, <3>1, <3>2
            DEF Undamaged, DeadRegistered, OutsideLaunch, OwnEntries
  <2>2. CASE LockTimeout(p) \/ BrowserFails(p) \/ Crash(p)
             \/ (Lookup(p) /\ Finish(p))
    <3>1. Quiet
      BY <2>1, <2>2
      DEF LockTimeout, BrowserFails, Crash, Lookup, Finish, Goto, Enter, Critical,
          Saving, Amends
    <3> QED BY <3>1 DEF Table!vars
  <2>3. CASE Launch(p) \/ Cleanup(p) \/ \E m \in Names : Withdraw(p, m)
    <3>1. Quiet
      BY <2>1, <2>3
      DEF Launch, Cleanup, Withdraw, Goto, Enter, Critical, Saving, Amends
    <3> QED BY <3>1 DEF Table!vars
  <2>4. CASE \/ Parse(p) \/ Acquire(p)
             \/ Lookup(p) /\ Goto(p, "load") /\ UNCHANGED <<lock, proc>>
    <3>1. section[p] \notin Amends \/ pc[p] \in Critical
      BY DEF OutsideLaunch
    <3>2. Quiet
      BY <1>0, <2>1, <2>4, <3>1
      DEF Parse, Acquire, Lookup, Goto, proc, Critical, Saving, Amends,
          OutsideLaunch
    <3> QED BY <3>2 DEF Table!vars
  <2>5. CASE Truncate(p) \/ Write(p)
    <3>1. Quiet
      BY <2>1, <2>5 DEF Truncate, Write, Goto, proc, Critical, Saving
    <3> QED BY <3>1 DEF Table!vars
  <2>6. CASE Load(p)
    BY <2>6, TableLoad DEF Table!vars
  <2>7. CASE Rename(p)
    BY <2>7, TableRename
  <2>8. ~Quarantine(p)
    BY DEF Quarantine, Undamaged
  <2> QED BY <1>2, <2>2, <2>3, <2>4, <2>5, <2>6, <2>7, <2>8 DEF ProcStep, Lookup
<1>3. ASSUME NEW n \in Names, Die(n)
      PROVE  [Table!Next]_Table!vars /\ Stays
  <2>1. /\ UNCHANGED <<file, pc, section, name, draft, corruptions>>
        /\ dead' = dead \cup {n} /\ Read(file)[n] # NoEntry
    BY <1>3 DEF Die, proc
  <2>2. Read(file)' = Read(file)
    BY <2>1 DEF Read
  <2>3. FreshDrafts'
    BY <2>1, <2>2, DraftFrame DEF FreshDrafts
  <2>4. Table!Die(n)
    BY <2>1, <2>2 DEF Table!Die
  <2> QED BY <2>1, <2>2, <2>3, <2>4
          DEF Table!Next, Undamaged, DeadRegistered, OutsideLaunch, OwnEntries
<1>4. ~Damage
  BY DEF Damage, Undamaged
<1> QED BY <1>1, <1>2, <1>3, <1>4 DEF Next

\* While nothing outside this program damages it, the registry file behaves as
\* the atomic table: no interleaving of launches, stops, retirements and
\* cleanups, killed at any point, loses or revives an entry.
THEOREM FileImplementsTable == Spec => NoLostUpdate
<1> DEFINE Inv == SaveInv /\ (corruptions = 0 => TableInv)
           Simulates == corruptions' = 0 => [Table!Next]_Table!vars
<1>1. Init => Inv /\ Table!Init
  BY TableInit DEF TableInv
<1>2. ASSUME Inv, [Next]_vars, corruptions' = 0
      PROVE  corruptions = 0
  <2>1. corruptions \in Nat
    BY <1>2, FileAssumption DEF SaveInv, ExclusionInv, TypeInv, TypeOK
  <2>2. corruptions' = corruptions \/ corruptions' = corruptions + 1
    BY <1>2
    DEF Next, vars, proc, ProcStep, Launch, Cleanup, Parse, Quarantine, Withdraw,
        Acquire, LockTimeout, Lookup, Load, BrowserFails, Truncate, Write, Rename,
        Crash, Die, Damage
  <2> QED BY <1>2, <2>1, <2>2
<1>3. Inv /\ [Next]_vars => SaveInv'
  BY StepType, StepExclusive, StepSave DEF SaveInv, ExclusionInv
<1>4. ASSUME Inv, [Next]_vars, corruptions' = 0
      PROVE  [Table!Next]_Table!vars /\ TableInv'
  <2>1. TableInv
    BY <1>2, <1>4
  <2> QED BY <1>3, <1>4, <2>1, TableStep DEF TableInv
<1>5. Inv /\ [Next]_vars => Inv' /\ [Simulates]_vars
  BY <1>3, <1>4
<1> QED BY <1>1, <1>5, PTL DEF Spec, NoLostUpdate

(***************************************************************************)
(* The lease: a keeper closes only what it claimed, and a claim is final.  *)
(***************************************************************************)

USE LeaseAssumption, EntryAssumption

LEMMA StateType ==
  ASSUME entry \in Leases, NEW s \in LeaseStates, SetState(s)
  PROVE  /\ entry' \in Leases /\ entry'.state = s
         /\ entry'.gen = entry.gen /\ entry'.keeper = entry.keeper
BY DEF SetState, Leases

LEMMA NewType == ASSUME NEW g \in Gens
                 PROVE  /\ ManualEntry(g) \in Leases /\ ManualEntry(g).gen = g
                        /\ ManualEntry(g).state = "manual"
                        /\ ManualEntry(g).keeper = FALSE
BY DEF ManualEntry, Leases, LeaseStates

-----------------------------------------------------------------------------
(* Who is inside.  A command holds registry_lock from its first step to its *)
(* last, a keeper while it stops its browser; and a launch that has not     *)
(* returned knows what it last wrote into its entry.                        *)

CommandLocked == cmd # "idle" <=> holder = Command

KeeperLocked == \A g \in Gens : keeper[g] = "ending" <=> holder = g

LaunchState == [launched |-> "manual", leased |-> "auto", spawned |-> "auto",
                closing |-> "closing"]

LaunchWrote ==
  /\ cmd = "stopping" => entry # Unregistered
  /\ cmd \in {"launched", "leased", "spawned", "closing"} =>
        /\ entry # Unregistered
        /\ entry.state = LaunchState[cmd]
        /\ entry.keeper = FALSE

LeaseInv == /\ LeaseTypeOK
            /\ CommandLocked
            /\ KeeperLocked
            /\ LaunchWrote

LEMMA InitLease == LeaseInit => LeaseInv
BY DEF LeaseInit, LeaseInv, LeaseTypeOK, CommandLocked, KeeperLocked, LaunchWrote,
       KeeperSteps, CmdSteps

LEMMA StepLease == ASSUME LeaseInv, [LeaseNext]_leaseVars PROVE LeaseInv'
<1> USE DEF LeaseInv, LeaseTypeOK, CommandLocked, KeeperLocked, LaunchWrote,
            LaunchState, KeeperSteps, CmdSteps
<1>0. NoOne \notin Gens /\ Command \notin Gens /\ NoOne # Command
  OBVIOUS
<1>1. CASE UNCHANGED leaseVars
  BY <1>1 DEF leaseVars
<1>2. CASE CmdStep
  <2>1. CASE LeaveManual
    BY <2>1 DEF LeaveManual, CmdEnds
  <2>2. CASE WriteLease
    BY <2>2, StateType DEF WriteLease, CmdTo, LeaseStates
  <2>3. CASE SpawnKeeper
    <3>1. entry \in Leases
      BY <2>3 DEF SpawnKeeper
    <3>2. entry.gen \in Gens
      BY <3>1 DEF Leases
    <3> QED BY <2>3, <3>1, <3>2 DEF SpawnKeeper, CmdTo, KeeperTo
  <2>4. CASE RecordKeeper
    <3>1. entry \in Leases
      BY <2>4 DEF RecordKeeper
    <3> QED BY <2>4, <3>1 DEF RecordKeeper, CmdEnds, Leases
  <2>5. CASE SetupFails
    <3>1. entry \in Leases /\ SetState("closing")
      BY <2>5 DEF SetupFails
    <3>2. /\ entry' \in Leases /\ entry'.state = "closing"
          /\ entry'.keeper = entry.keeper
      BY <3>1, StateType DEF LeaseStates
    <3>3. entry.gen \in Gens
      BY <3>1 DEF Leases
    <3> QED BY <2>5, <3>2, <3>3 DEF SetupFails, CmdTo, KeeperTo
  <2>6. CASE CmdStopEnds
    BY <2>6 DEF CmdStopEnds, CmdEnds, Leases
  <2>7. CASE CmdStopFails
    BY <2>7, StateType DEF CmdStopFails, CmdEnds, LeaseStates
  <2>8. CASE OtherEnds
    BY <2>8 DEF OtherEnds, CmdEnds
  <2> QED BY <1>2, <2>1, <2>2, <2>3, <2>4, <2>5, <2>6, <2>7, <2>8 DEF CmdStep
<1>3. CASE StopCommand \/ OtherCommand
  BY <1>3 DEF StopCommand, OtherCommand, CmdTo
<1>4. CASE Retain
  BY <1>4, StateType DEF Retain, LeaseStates
<1>5. CASE Prune
  BY <1>5 DEF Prune
<1>6. CASE CrashCommand
  BY <1>6 DEF CrashCommand, CmdEnds
<1>7. ASSUME NEW g \in Gens, StartLaunch(g)
      PROVE  LeaseInv'
  BY <1>7, NewType DEF StartLaunch, CmdTo
<1>8. ASSUME NEW g \in Gens, Claim(g)
      PROVE  LeaseInv'
  BY <1>0, <1>8, StateType DEF Claim, KeeperTo, HasState, Holds, LeaseStates
<1>9. ASSUME NEW g \in Gens, Dismiss(g)
      PROVE  LeaseInv'
  BY <1>0, <1>9 DEF Dismiss, KeeperTo
<1>10. ASSUME NEW g \in Gens, BeginStop(g)
       PROVE  LeaseInv'
  BY <1>0, <1>10 DEF BeginStop, KeeperTo
<1>11. ASSUME NEW g \in Gens, StopEnds(g) \/ StopFails(g)
       PROVE  LeaseInv'
  BY <1>0, <1>11 DEF StopEnds, StopFails, KeeperTo
<1>12. ASSUME NEW g \in Gens, RecordFailure(g)
       PROVE  LeaseInv'
  BY <1>12, StateType DEF RecordFailure, KeeperTo, HasState, Holds, LeaseStates
<1>13. ASSUME NEW g \in Gens, StopTimesOut(g) \/ RecordFailureTimesOut(g)
       PROVE  LeaseInv'
  BY <1>13 DEF StopTimesOut, RecordFailureTimesOut, KeeperTo
<1>14. ASSUME NEW g \in Gens, BrowserExits(g) \/ OwnerExits(g)
       PROVE  LeaseInv'
  BY <1>14 DEF BrowserExits, OwnerExits
<1>15. ASSUME NEW g \in Gens, CrashKeeper(g)
       PROVE  LeaseInv'
  BY <1>0, <1>15 DEF CrashKeeper, KeeperTo
<1> QED BY <1>1, <1>2, <1>3, <1>4, <1>5, <1>6, <1>7, <1>8, <1>9, <1>10, <1>11,
           <1>12, <1>13, <1>14, <1>15 DEF LeaseNext

LEMMA LeaseInvariant == LeaseSpec => []LeaseInv
BY InitLease, StepLease, PTL DEF LeaseSpec

\* Every variable keeps its type.
THEOREM LeaseTypeCorrect == LeaseSpec => []LeaseTypeOK
<1>1. LeaseInv => LeaseTypeOK
  BY DEF LeaseInv
<1> QED BY <1>1, LeaseInvariant, PTL
-----------------------------------------------------------------------------
(* What a step does to the entry.  An action that changes it holds the lock  *)
(* or finds it free, so it meets a keeper that is ending its browser only if *)
(* it is that keeper's own.                                                  *)

LEMMA EntryType == ASSUME LeaseInv, entry # Unregistered
                   PROVE  entry \in Leases /\ entry.gen \in Gens
BY DEF LeaseInv, LeaseTypeOK, Leases

LEMMA EndingIsExclusive ==
  ASSUME LeaseInv, [LeaseNext]_leaseVars, NEW k \in Gens, keeper'[k] = "ending"
  PROVE  BeginStop(k) \/ (keeper[k] = "ending" /\ UNCHANGED entry)
<1> USE DEF LeaseInv, LeaseTypeOK, CommandLocked, KeeperLocked
<1>0. NoOne \notin Gens /\ Command \notin Gens /\ NoOne # Command
  OBVIOUS
<1>1. CASE UNCHANGED leaseVars
  BY <1>1 DEF leaseVars
<1>2. CASE CmdStep
  <2>1. cmd # "idle"
    BY <1>2 DEF CmdStep, LeaveManual, WriteLease, SpawnKeeper, RecordKeeper,
                SetupFails, CmdStopEnds, CmdStopFails, OtherEnds
  <2>2. \A h \in Gens : keeper[h] # "ending"
    BY <1>0, <2>1
  <2>3. keeper'[k] # "ending"
    <3>1. CASE SpawnKeeper
      BY <2>2, <3>1 DEF SpawnKeeper, KeeperTo
    <3>2. CASE SetupFails
      BY <2>2, <3>2 DEF SetupFails, KeeperTo
    <3>3. CASE ~SpawnKeeper /\ ~SetupFails
      BY <1>2, <2>2, <3>3 DEF CmdStep, LeaveManual, WriteLease, RecordKeeper,
                              CmdStopEnds, CmdStopFails, OtherEnds
    <3> QED BY <3>1, <3>2, <3>3
  <2> QED BY <2>3
<1>3. CASE StopCommand \/ OtherCommand \/ Retain \/ Prune
  BY <1>0, <1>3 DEF StopCommand, OtherCommand, Retain, Prune
<1>4. CASE CrashCommand
  BY <1>4 DEF CrashCommand
<1>5. ASSUME NEW g \in Gens, StartLaunch(g) \/ Claim(g) \/ RecordFailure(g)
      PROVE  keeper'[k] # "ending"
  BY <1>0, <1>5 DEF StartLaunch, Claim, RecordFailure, KeeperTo
<1>6. ASSUME NEW g \in Gens, BeginStop(g)
      PROVE  BeginStop(k)
  BY <1>0, <1>6 DEF BeginStop, KeeperTo
<1>7. ASSUME NEW g \in Gens, StopEnds(g) \/ StopFails(g)
      PROVE  keeper'[k] # "ending"
  BY <1>0, <1>7 DEF StopEnds, StopFails, KeeperTo
<1>8. ASSUME NEW g \in Gens,
             \/ Dismiss(g) \/ StopTimesOut(g) \/ RecordFailureTimesOut(g)
             \/ BrowserExits(g) \/ OwnerExits(g) \/ CrashKeeper(g)
      PROVE  keeper[k] = "ending" /\ UNCHANGED entry
  BY <1>8 DEF Dismiss, StopTimesOut, RecordFailureTimesOut, BrowserExits,
              OwnerExits, CrashKeeper, KeeperTo
<1> QED BY <1>1, <1>2, <1>3, <1>4, <1>5, <1>6, <1>7, <1>8 DEF LeaseNext

\* A keeper that stops its browser does so under its own claim, whatever was
\* launched, retained, stopped or killed since it made it.
THEOREM CloseIsClaimedTheorem == LeaseSpec => []CloseIsClaimed
<1>1. LeaseInit => CloseIsClaimed
  BY DEF LeaseInit, CloseIsClaimed
<1>2. ASSUME LeaseInv, [LeaseNext]_leaseVars, CloseIsClaimed
      PROVE  CloseIsClaimed'
  <2> SUFFICES ASSUME NEW k \in Gens, keeper'[k] = "ending"
               PROVE  HasState(k, {"closing"})'
    BY DEF CloseIsClaimed
  <2>1. CASE BeginStop(k)
    BY <1>2, <2>1 DEF BeginStop, KeeperTo, HasState, Holds, LeaseInv, LeaseTypeOK
  <2>2. CASE keeper[k] = "ending" /\ UNCHANGED entry
    BY <1>2, <2>2 DEF CloseIsClaimed, HasState, Holds
  <2> QED BY <1>2, <2>1, <2>2, EndingIsExclusive
<1> QED BY <1>1, <1>2, LeaseInvariant, PTL DEF LeaseSpec

-----------------------------------------------------------------------------
(* How the lease moves: one lemma for the three remaining properties, each   *)
(* of which relates the entry before a step to the entry after it.           *)

\* The state of one lease goes from s to t.
Moves(s, t) == \/ s = "manual" /\ t = "auto"
               \/ s = "auto" /\ t \in {"closing", "retained"}
               \/ s = "closing" /\ t = "close_failed"
               \/ s = t

\* A lease that is closing and has a keeper was claimed for a gone owner, or
\* was claimed before this step.
ClaimJustified ==
  (entry'.keeper /\ entry'.state \in {"closing", "close_failed"})
     => \/ owner[entry'.gen] = "gone"
        \/ entry.keeper /\ entry.state \in {"closing", "close_failed"}

\* The entry of a lease goes, and its browser with it or before it.
Dropped == entry' = Unregistered /\ (\/ browser[entry.gen] # "running"
                                \/ browser'[entry.gen] = "gone")

\* A launch takes the name from a browser that is gone.
Taken == /\ browser[entry.gen] # "running"
         /\ entry'.gen # entry.gen
         /\ entry'.state = "manual"

Continued == Kept /\ Moves(entry.state, entry'.state) /\ ClaimJustified

LEMMA EntryMoves == ASSUME LeaseInv, [LeaseNext]_leaseVars, entry # Unregistered
                    PROVE  Dropped \/ Taken \/ Continued
<1> USE DEF Kept, Moves, ClaimJustified
<1>1. entry \in Leases /\ entry.gen \in Gens
  BY EntryType
<1>2. UNCHANGED entry => Continued
  BY <1>1 DEF Continued
<1>3. ASSUME NEW s \in LeaseStates, SetState(s), Moves(entry.state, s),
             \/ s \notin {"closing", "close_failed"}
             \/ ~entry.keeper
             \/ owner[entry.gen] = "gone"
             \/ entry.state = "closing"
      PROVE  Continued
  BY <1>1, <1>3, StateType DEF Continued
<1>4. CASE CmdStep
  <2> USE DEF LeaseInv, LaunchWrote, LaunchState, LeaseStates
  <2>1. CASE LeaveManual \/ SpawnKeeper \/ OtherEnds
    BY <1>2, <2>1 DEF LeaveManual, SpawnKeeper, OtherEnds
  <2>2. CASE WriteLease
    BY <1>3, <2>2 DEF WriteLease
  <2>3. CASE RecordKeeper
    BY <1>1, <2>3 DEF RecordKeeper, Continued, Leases
  <2>4. CASE SetupFails
    BY <1>3, <2>4 DEF SetupFails
  <2>5. CASE CmdStopEnds
    BY <1>1, <2>5 DEF CmdStopEnds, Dropped, LeaseTypeOK
  <2>6. CASE CmdStopFails
    BY <1>2, <1>3, <2>6 DEF CmdStopFails
  <2> QED BY <1>4, <2>1, <2>2, <2>3, <2>4, <2>5, <2>6 DEF CmdStep
<1>5. CASE Retain
  BY <1>3, <1>5 DEF Retain, LeaseStates
<1>6. CASE Prune
  BY <1>6 DEF Prune, Dropped
<1>7. ASSUME NEW g \in Gens, StartLaunch(g)
      PROVE  Taken
  BY <1>7, NewType DEF StartLaunch, Taken
<1>8. ASSUME NEW g \in Gens, Claim(g)
      PROVE  Continued
  BY <1>3, <1>8 DEF Claim, HasState, Holds, LeaseStates
<1>9. ASSUME NEW g \in Gens, StopEnds(g)
      PROVE  Dropped
  BY <1>1, <1>9 DEF StopEnds, Dropped, LeaseInv, LeaseTypeOK
<1>10. ASSUME NEW g \in Gens, RecordFailure(g)
       PROVE  Continued
  BY <1>2, <1>3, <1>10 DEF RecordFailure, HasState, Holds, LeaseStates
<1>11. CASE UNCHANGED leaseVars \/ StopCommand \/ OtherCommand \/ CrashCommand
  BY <1>2, <1>11 DEF leaseVars, StopCommand, OtherCommand, CrashCommand
<1>12. ASSUME NEW g \in Gens,
              \/ Dismiss(g) \/ BeginStop(g) \/ StopFails(g) \/ StopTimesOut(g)
              \/ RecordFailureTimesOut(g) \/ BrowserExits(g) \/ OwnerExits(g)
              \/ CrashKeeper(g)
       PROVE  UNCHANGED entry
  BY <1>12 DEF Dismiss, BeginStop, StopFails, StopTimesOut,
               RecordFailureTimesOut, BrowserExits, OwnerExits, CrashKeeper
<1> QED BY <1>2, <1>4, <1>5, <1>6, <1>7, <1>8, <1>9, <1>10, <1>11, <1>12 DEF LeaseNext

\* A claimed close is never taken back, a retained instance is never claimed.
THEOREM ClaimIsFinalTheorem == LeaseSpec => ClaimIsFinal
<1>1. ASSUME LeaseInv, [LeaseNext]_leaseVars, Kept
      PROVE  Moves(entry.state, entry'.state)
  BY <1>1, EntryMoves DEF Kept, Dropped, Taken, Continued
<1>2. LeaseInv /\ [LeaseNext]_leaseVars =>
        [(Kept /\ entry'.state # entry.state)
           => CASE entry.state = "closing" -> entry'.state = "close_failed"
                [] entry.state \in {"retained", "close_failed"} -> FALSE
                [] OTHER -> TRUE]_leaseVars
  BY <1>1 DEF Moves
<1> QED BY <1>2, LeaseInvariant, PTL DEF LeaseSpec, ClaimIsFinal

\* Through every timeout and every crash, a running browser keeps its entry.
THEOREM RecoverableTheorem == LeaseSpec => Recoverable
<1>1. LeaseInv /\ [LeaseNext]_leaseVars =>
        [(entry # Unregistered /\ browser[entry.gen] = "running")
           => Kept \/ browser'[entry.gen] = "gone"]_leaseVars
  BY EntryMoves DEF Dropped, Taken, Continued
<1> QED BY <1>1, LeaseInvariant, PTL DEF LeaseSpec, Recoverable

LEMMA OwnerStaysGone ==
  ASSUME LeaseInv, [LeaseNext]_leaseVars, NEW g \in Gens, owner[g] = "gone"
  PROVE  owner'[g] = "gone"
<1>1. UNCHANGED owner \/ \E h \in Gens : OwnerExits(h)
  BY DEF LeaseNext, leaseVars, CmdStep, LeaveManual, WriteLease, SpawnKeeper,
         RecordKeeper, SetupFails, CmdStopEnds, CmdStopFails, OtherEnds,
         StopCommand, OtherCommand, Retain, Prune, CrashCommand, StartLaunch, Claim,
         Dismiss, BeginStop, StopEnds, StopFails, RecordFailure, StopTimesOut,
         RecordFailureTimesOut, BrowserExits, CrashKeeper
<1> QED BY <1>1 DEF OwnerExits, LeaseInv, LeaseTypeOK

\* Only a launch registers the name, without a lease.
LEMMA NewEntryOnly == ASSUME LeaseInv, [LeaseNext]_leaseVars, entry = Unregistered, entry' # Unregistered
                      PROVE  entry'.state = "manual"
<1> USE DEF LeaseInv, LaunchWrote
<1>1. CASE CmdStep
  <2>1. cmd \notin {"launched", "leased", "spawned", "closing", "stopping"}
    OBVIOUS
  <2> QED BY <1>1, <2>1 DEF CmdStep, LeaveManual, WriteLease, SpawnKeeper,
            RecordKeeper, SetupFails, CmdStopEnds, CmdStopFails, OtherEnds
<1>2. ASSUME NEW g \in Gens, StartLaunch(g)
      PROVE  entry'.state = "manual"
  BY <1>2, NewType DEF StartLaunch
<1>3. ASSUME NEW g \in Gens,
             \/ Claim(g) \/ Dismiss(g) \/ BeginStop(g) \/ StopEnds(g)
             \/ StopFails(g) \/ RecordFailure(g) \/ StopTimesOut(g)
             \/ RecordFailureTimesOut(g) \/ BrowserExits(g) \/ OwnerExits(g)
             \/ CrashKeeper(g)
      PROVE  FALSE
  BY <1>3 DEF Claim, Dismiss, BeginStop, StopEnds, StopFails, RecordFailure,
              StopTimesOut, RecordFailureTimesOut, BrowserExits, OwnerExits,
              CrashKeeper, HasState, Holds
<1> QED BY <1>1, <1>2, <1>3 DEF LeaseNext, leaseVars, StopCommand, OtherCommand, Retain,
                                Prune, CrashCommand

\* With its keeper in place, only the browser of a gone owner is claimed.
THEOREM ClosesOnlyOrphansTheorem == LeaseSpec => []ClosesOnlyOrphans
<1>1. LeaseInit => ClosesOnlyOrphans
  BY DEF LeaseInit, ClosesOnlyOrphans
<1>2. ASSUME LeaseInv, LeaseInv', [LeaseNext]_leaseVars, ClosesOnlyOrphans
      PROVE  ClosesOnlyOrphans'
  <2> SUFFICES ASSUME entry' # Unregistered, entry'.keeper,
                      entry'.state \in {"closing", "close_failed"}
               PROVE  owner'[entry'.gen] = "gone"
    BY DEF ClosesOnlyOrphans
  <2>1. entry' \in Leases /\ entry'.gen \in Gens
    BY <1>2 DEF LeaseInv, LeaseTypeOK, Leases
  <2>2. CASE entry = Unregistered
    BY <1>2, <2>2, NewEntryOnly
  <2>3. CASE entry # Unregistered
    BY <1>2, <2>1, <2>3, EntryMoves, OwnerStaysGone
       DEF Dropped, Taken, Continued, Kept, ClaimJustified, ClosesOnlyOrphans
  <2> QED BY <2>2, <2>3
<1> QED BY <1>1, <1>2, LeaseInvariant, PTL DEF LeaseSpec
===========================================================================
