-------------------------- MODULE LifecycleProofs ---------------------------
(***************************************************************************)
(* Proofs about the instance lifecycle.  Everything rests on the lock:     *)
(* what a command that holds it has read of the registry stays true until  *)
(* it lets go, although browsers exit, supervisors notice and other        *)
(* commands start, wait and are killed meanwhile.                          *)
(***************************************************************************)
EXTENDS Lifecycle, FiniteSetTheorems, WellFoundedInduction, TLAPS

USE LifecycleAssumption, EntryAssumption
-----------------------------------------------------------------------------
(* The invariant, one command at a time. *)

Inside == Steps \ {"idle", "wait", "rewait", "check", "rmtree"}

\* What a command does is a step of its verb.
VerbFits(c) ==
  /\ pc[c] = "wait" => job[c].verb \in {"launch", "stop", "cleanup"}
  /\ pc[c] \in {"rewait", "bound"} => job[c].verb = "cleanup"
  /\ pc[c] \in {"prune", "orphans"} => job[c].verb \in {"launch", "cleanup"}
  /\ pc[c] \in {"holder", "spawn", "boot", "register", "supervise", "record", "annotate"}
       => job[c].verb = "launch"
  /\ pc[c] \in {"lookup", "handoff", "terminate", "remove"} => job[c].verb = "stop"
  /\ job[c].verb = "stop" => job[c].slot \in Slots

\* A launch: nobody who lives holds its profile, its browser is in no entry
\* until it is in its own.
LaunchIsAlone(c) ==
  /\ (pc[c] \in {"prune", "orphans", "spawn", "boot", "register", "supervise", "record", "annotate"}
      /\ job[c].verb = "launch" /\ job[c].profile # NoProfile)
       => \A s \in Slots : Live(s) => reg[s].profile # job[c].profile
  /\ pc[c] \in {"boot", "register"}
       => /\ job[c].browser \in Browsers /\ browser[job[c].browser] # "unborn"
          /\ \A s \in Slots : reg[s] # NoEntry => reg[s].browser # job[c].browser
  /\ pc[c] \in {"supervise", "record", "annotate"}
       => /\ job[c].slot \in Slots /\ reg[job[c].slot] # NoEntry
          /\ reg[job[c].slot].browser = job[c].browser

\* A stop: the entry is still that of the browser it ends.
StopIsSure(c) ==
  /\ pc[c] \in {"handoff", "terminate", "remove"}
       => reg[job[c].slot] # NoEntry /\ reg[job[c].slot].browser = job[c].browser
  /\ pc[c] = "remove" => Users(Home(job[c].browser)) = {}

CommandInv(c) == /\ pc[c] \in Inside => lock = c
                 /\ VerbFits(c) /\ LaunchIsAlone(c) /\ StopIsSure(c)

\* A browser has one entry at most, made after it was started.
OneEntry ==
  /\ \A s \in Slots : reg[s] # NoEntry => browser[reg[s].browser] # "unborn"
  /\ \A s, t \in Slots : (s # t /\ reg[s] # NoEntry /\ reg[t] # NoEntry)
                            => reg[s].browser # reg[t].browser

LifecycleInv == TypeOK /\ OneEntry /\ HeldOnce /\ \A c \in Clis : CommandInv(c)
-----------------------------------------------------------------------------
(* And what a quiet history adds: the entries tell whose profile is whose. *)

QuietCommand(c) ==
  LET p == job[c].profile
  IN /\ pc[c] \notin {"supervise", "record", "check", "rmtree"}
     /\ (pc[c] = "prune" /\ job[c].verb = "launch" /\ p # NoProfile)
          => \A s \in Slots : Live(s) => Dir(s) # p
     /\ (pc[c] \in {"orphans", "spawn"} /\ job[c].verb = "launch" /\ p # NoProfile)
          => \A s \in Slots : reg[s] # NoEntry => Dir(s) # p
     /\ pc[c] \in {"boot", "register"}
          => /\ Home(job[c].browser) \in dirs
             /\ \A s \in Slots : reg[s] # NoEntry => Dir(s) # Home(job[c].browser)
     /\ pc[c] \in {"boot", "register", "annotate"} => bound[job[c].browser] = p

\* Every entry names the profile its browser was started on, but the last one
\* while its launch goes on.
EntriesTell ==
  \A s \in Slots : reg[s] # NoEntry =>
     \/ reg[s].profile = bound[reg[s].browser]
     \/ \E c \in Clis : pc[c] = "annotate" /\ job[c].slot = s

OwnDirs == \A s, t \in Slots : (s # t /\ reg[s] # NoEntry /\ reg[t] # NoEntry) => Dir(s) # Dir(t)

QuietInv == quiet => /\ sup = [b \in Browsers |-> "none"]
                     /\ EntriesTell /\ OwnDirs /\ LiveKeepsDir /\ Found
                     /\ \A c \in Clis : QuietCommand(c)
-----------------------------------------------------------------------------
(* The records: a job, an entry. *)

LEMMA JobFields ==
  ASSUME NEW j \in Jobs
  PROVE  /\ j.verb \in AllVerbs /\ j.profile \in Profiles \cup {NoProfile}
         /\ j.slot \in Slots \cup {NoSlot} /\ j.browser \in Browsers \cup {NoBrowser}
         /\ \A b \in Browsers : [j EXCEPT !.browser = b]
              = [verb |-> j.verb, profile |-> j.profile, slot |-> j.slot, browser |-> b]
         /\ \A s \in Slots : [j EXCEPT !.slot = s]
              = [verb |-> j.verb, profile |-> j.profile, slot |-> s, browser |-> j.browser]
BY DEF Jobs

LEMMA JobMade ==
  ASSUME NEW v \in AllVerbs, NEW p \in Profiles \cup {NoProfile}, NEW s \in Slots \cup {NoSlot},
         NEW b \in Browsers \cup {NoBrowser}
  PROVE  [verb |-> v, profile |-> p, slot |-> s, browser |-> b] \in Jobs
BY DEF Jobs

LEMMA NoJobFields == NoJob \in Jobs /\ NoJob.verb = "launch"
BY DEF NoJob, Jobs, AllVerbs

LEMMA EntryFields ==
  ASSUME NEW e \in Entries
  PROVE  /\ e # NoEntry
         /\ e.browser \in Browsers /\ e.profile \in Profiles \cup {NoProfile} /\ e.recorded \in BOOLEAN
         /\ \A p \in Profiles \cup {NoProfile} :
              [e EXCEPT !.profile = p] = [browser |-> e.browser, profile |-> p, recorded |-> e.recorded]
         /\ [e EXCEPT !.recorded = TRUE] = [browser |-> e.browser, profile |-> e.profile, recorded |-> TRUE]
<1>1. e # NoEntry
  OBVIOUS
<1>2. e = [browser |-> e.browser, profile |-> e.profile, recorded |-> e.recorded]
      /\ e.browser \in Browsers /\ e.profile \in Profiles \cup {NoProfile} /\ e.recorded \in BOOLEAN
  BY DEF Entries
<1>3. ASSUME NEW p
      PROVE  [e EXCEPT !.profile = p] = [browser |-> e.browser, profile |-> p, recorded |-> e.recorded]
  <2>1. [[browser |-> e.browser, profile |-> e.profile, recorded |-> e.recorded] EXCEPT !.profile = p]
          = [browser |-> e.browser, profile |-> p, recorded |-> e.recorded]
    OBVIOUS
  <2> QED BY <2>1, <1>2, Zenon
<1>4. ASSUME NEW r
      PROVE  [e EXCEPT !.recorded = r] = [browser |-> e.browser, profile |-> e.profile, recorded |-> r]
  <2>1. [[browser |-> e.browser, profile |-> e.profile, recorded |-> e.recorded] EXCEPT !.recorded = r]
          = [browser |-> e.browser, profile |-> e.profile, recorded |-> r]
    OBVIOUS
  <2> QED BY <2>1, <1>2, Zenon
<1>5. [e EXCEPT !.recorded = TRUE] = [browser |-> e.browser, profile |-> e.profile, recorded |-> TRUE]
  BY <1>4, Zenon
<1> QED BY <1>1, <1>2, <1>3, <1>5

LEMMA EntryOf ==
  ASSUME TypeOK, NEW s \in Slots, reg[s] # NoEntry
  PROVE  /\ reg[s] \in Entries /\ reg[s].browser \in Browsers
         /\ reg[s].profile \in Profiles \cup {NoProfile}
<1>1. reg[s] \in Entries
  BY DEF TypeOK
<1> QED BY <1>1, EntryFields

LEMMA EntryMade ==
  ASSUME NEW b \in Browsers, NEW p \in Profiles \cup {NoProfile}, NEW r \in BOOLEAN
  PROVE  /\ [browser |-> b, profile |-> p, recorded |-> r] \in Entries
         /\ NewEntry(b) \in Entries /\ NewEntry(b).browser = b /\ NewEntry(b).profile = NoProfile
BY DEF Entries, NewEntry
-----------------------------------------------------------------------------
(* The steps that every command takes. *)

LEMMA Goes ==
  ASSUME TypeOK, NEW c \in Clis, NEW s \in Steps, Goto(c, s)
  PROVE  pc' \in [Clis -> Steps] /\ pc'[c] = s /\ \A d \in Clis \ {c} : pc'[d] = pc[d]
BY DEF TypeOK, Goto

LEMMA Finishes ==
  ASSUME TypeOK, NEW c \in Clis, Finish(c)
  PROVE  /\ pc' \in [Clis -> Steps] /\ pc'[c] = "idle" /\ \A d \in Clis \ {c} : pc'[d] = pc[d]
         /\ job' \in [Clis -> Jobs] /\ job'[c] = NoJob /\ \A d \in Clis \ {c} : job'[d] = job[d]
         /\ lock' \in Clis \cup {NoCli} /\ (lock' = lock \/ lock = c)
         /\ CommandInv(c)' /\ QuietCommand(c)'
<1>1. pc' \in [Clis -> Steps] /\ pc'[c] = "idle" /\ \A d \in Clis \ {c} : pc'[d] = pc[d]
  BY DEF Finish, Goto, TypeOK, Steps
<1>2. job' \in [Clis -> Jobs] /\ job'[c] = NoJob /\ \A d \in Clis \ {c} : job'[d] = job[d]
  BY NoJobFields DEF Finish, TypeOK
<1>3. lock' \in Clis \cup {NoCli} /\ (lock' = lock \/ lock = c)
  BY DEF Finish, TypeOK
<1>4. CommandInv(c)'
  BY <1>1, <1>2, NoJobFields DEF CommandInv, Inside, VerbFits, LaunchIsAlone, StopIsSure
<1>5. QuietCommand(c)'
  BY <1>1 DEF QuietCommand
<1> QED BY <1>1, <1>2, <1>3, <1>4, <1>5

\* Browsers exit, and do nothing else; entries go, and do nothing else.
ExitsOnly == \A b \in Browsers : \/ browser'[b] = browser[b]
                                 \/ browser[b] = "running" /\ browser'[b] = "gone"
DropsOnly == \A s \in Slots : reg'[s] = reg[s] \/ reg'[s] = NoEntry

LEMMA TableKept ==
  ASSUME TypeOK, OneEntry, HeldOnce, ExitsOnly, DropsOnly
  PROVE  OneEntry' /\ HeldOnce'
<1>1. ASSUME NEW s \in Slots, reg'[s] # NoEntry
      PROVE  /\ reg'[s] = reg[s] /\ reg[s] # NoEntry /\ reg[s].browser \in Browsers
             /\ browser[reg[s].browser] = "unborn" <=> browser'[reg[s].browser] = "unborn"
             /\ browser'[reg[s].browser] = "running" => browser[reg[s].browser] = "running"
  <2>1. reg'[s] = reg[s] /\ reg[s] # NoEntry
    BY <1>1 DEF DropsOnly
  <2>2. reg[s].browser \in Browsers
    BY <2>1, EntryFields DEF TypeOK
  <2> QED BY <2>1, <2>2 DEF ExitsOnly
<1>2. OneEntry'
  BY <1>1 DEF OneEntry
<1>3. \A s \in Slots : Live(s)' => Live(s)
  BY <1>1 DEF Live
<1> QED BY <1>1, <1>2, <1>3 DEF HeldOnce, Live

\* What a command knows stays true while only browsers exit.
LEMMA CommandKept ==
  ASSUME TypeOK, NEW d \in Clis, CommandInv(d), pc'[d] = pc[d], job'[d] = job[d],
         pc[d] \in Inside => lock' = lock /\ reg' = reg /\ bound' = bound /\ ExitsOnly
  PROVE  CommandInv(d)'
<1>1. VerbFits(d)'
  BY DEF CommandInv, VerbFits
<1>2. CASE pc[d] \notin Inside
  BY <1>1, <1>2 DEF CommandInv, LaunchIsAlone, StopIsSure, Inside, Steps
<1>3. CASE pc[d] \in Inside
  <2>1. lock' = lock /\ reg' = reg /\ bound' = bound /\ ExitsOnly
    BY <1>3
  <2>2. \A s \in Slots : Live(s)' => Live(s)
    <3> SUFFICES ASSUME NEW s \in Slots, reg[s] # NoEntry, browser'[reg[s].browser] = "running"
                 PROVE  browser[reg[s].browser] = "running"
      BY <2>1 DEF Live
    <3>1. reg[s].browser \in Browsers
      BY EntryOf
    <3> QED BY <3>1, <2>1 DEF ExitsOnly
  <2>3. LaunchIsAlone(d)'
    <3>1. (pc[d] \in {"boot", "register"}) => browser'[job[d].browser] # "unborn"
      BY <2>1 DEF CommandInv, LaunchIsAlone, ExitsOnly
    <3> QED BY <2>1, <2>2, <3>1 DEF CommandInv, LaunchIsAlone
  <2>4. Users(Home(job[d].browser))' \subseteq Users(Home(job[d].browser))
    BY <2>1 DEF Users, Home, ExitsOnly
  <2>5. StopIsSure(d)'
    BY <2>1, <2>4 DEF CommandInv, StopIsSure
  <2> QED BY <1>1, <2>1, <2>3, <2>5 DEF CommandInv
<1> QED BY <1>2, <1>3

\* One command is inside at a time.
LEMMA InsideAlone ==
  ASSUME LifecycleInv, NEW c \in Clis, NEW d \in Clis, pc[c] \in Inside, pc[d] \in Inside
  PROVE  c = d
BY DEF LifecycleInv, CommandInv

\* A command steps: it holds the lock, or leaves everything as it is.
LEMMA CommandGoes ==
  ASSUME LifecycleInv, NEW c \in Clis, TypeOK', OneEntry', HeldOnce', CommandInv(c)',
         \A d \in Clis \ {c} : pc'[d] = pc[d] /\ job'[d] = job[d],
         \/ pc[c] \in Inside
         \/ /\ lock' = lock \/ lock \in {c, NoCli}
            /\ UNCHANGED <<reg, bound, browser>>
  PROVE  LifecycleInv'
<1>1. ASSUME NEW d \in Clis \ {c} PROVE CommandInv(d)'
  <2>1. pc[d] \in Inside => pc[c] \notin Inside /\ lock = d /\ lock \notin {c, NoCli}
    BY InsideAlone DEF LifecycleInv, CommandInv
  <2>2. pc[d] \in Inside => lock' = lock /\ reg' = reg /\ bound' = bound /\ ExitsOnly
    BY <2>1 DEF ExitsOnly
  <2> QED BY <2>2, CommandKept DEF LifecycleInv
<1> QED BY <1>1 DEF LifecycleInv
-----------------------------------------------------------------------------
(* There is always a name left. *)

LEMMA FreeSlot ==
  ASSUME LifecycleInv, NEW c \in Clis, pc[c] = "register"
  PROVE  FirstFree \in Slots /\ reg[FirstFree] = NoEntry
<1> DEFINE free == {s \in Slots : reg[s] = NoEntry}
           b == job[c].browser
           of == [s \in Slots |-> reg[s].browser]
<1>1. free # {}
  <2> SUFFICES ASSUME \A s \in Slots : reg[s] # NoEntry PROVE FALSE
    OBVIOUS
  <2>1. b \in Browsers /\ \A s \in Slots : reg[s].browser # b
    BY DEF LifecycleInv, CommandInv, LaunchIsAlone
  <2>2. of \in [Slots -> Browsers \ {b}]
    <3>1. \A s \in Slots : reg[s] \in Entries
      BY DEF LifecycleInv, TypeOK
    <3>2. \A s \in Slots : reg[s].browser \in Browsers \ {b}
      BY <3>1, <2>1, EntryFields
    <3> QED BY <3>2
  <2>3. /\ IsFiniteSet(Slots) /\ IsFiniteSet(Browsers) /\ Cardinality(Slots) = Cardinality(Browsers)
        /\ Cardinality(Slots) \in Nat
    BY FS_Interval, FS_CardinalityType DEF Slots, Browsers
  <2>4. IsFiniteSet(Browsers \ {b}) /\ Cardinality(Browsers \ {b}) = Cardinality(Browsers) - 1
    BY <2>1, <2>3, FS_RemoveElement
  <2>5. \E x, y \in Slots : x # y /\ of[x] = of[y]
    <3>1. Cardinality(Browsers \ {b}) < Cardinality(Slots)
      BY <2>3, <2>4
    <3> HIDE DEF of, b
    <3> QED BY <3>1, <2>2, <2>3, <2>4, FS_PigeonHole
  <2> QED BY <2>5 DEF LifecycleInv, OneEntry
<1>2. \E s \in free : \A t \in free : ~(t < s)
  <2> DEFINE R == OpToRel(<, Nat)
  <2>1. free \subseteq Nat
    BY DEF Slots
  <2>2. IsWellFoundedOn(R, Nat)
    BY NatLessThanWellFounded
  <2>3. \E s \in free : \A t \in free : <<t, s>> \notin R
    <3> HIDE DEF R, free
    <3> QED BY <1>1, <2>1, <2>2, WFMin
  <2>4. \A s, t \in Nat : t < s => <<t, s>> \in R
    BY DEF OpToRel
  <2> QED BY <2>1, <2>3, <2>4
<1>3. PICK s \in free : \A t \in free : ~(t < s)
  BY <1>2
<1>4. s \in Slots /\ reg[s] = NoEntry /\ \A t \in 1..(s - 1) : reg[t] # NoEntry
  BY <1>3 DEF Slots
<1> QED BY <1>4 DEF FirstFree

-----------------------------------------------------------------------------
(* The invariant holds at first, and every step keeps it. *)

LEMMA LifecycleStart == Init => LifecycleInv
<1> SUFFICES ASSUME Init PROVE LifecycleInv
  OBVIOUS
<1>1. TypeOK
  BY NoJobFields DEF Init, TypeOK, Steps
<1>2. OneEntry /\ HeldOnce
  BY DEF Init, OneEntry, HeldOnce, Live
<1>3. \A c \in Clis : CommandInv(c)
  BY NoJobFields DEF Init, CommandInv, Inside, VerbFits, LaunchIsAlone, StopIsSure
<1> QED BY <1>1, <1>2, <1>3 DEF LifecycleInv

\* A command gives up or is done, having changed nothing but browsers,
\* directories and supervisors.
LEMMA DoneKeeps ==
  ASSUME LifecycleInv, NEW c \in Clis, Finish(c), quiet' = quiet,
         browser' \in [Browsers -> {"unborn", "running", "gone"}], ExitsOnly,
         dirs' \subseteq Profiles \cup Browsers,
         reg' \in [Slots -> Entries \cup {NoEntry}], DropsOnly,
         sup' \in [Browsers -> {"none", "watching", "retiring", "gone"}],
         UNCHANGED <<bound, supSlot>>, crashes' \in 0..MaxCrashes,
         pc[c] \in Inside \/ UNCHANGED <<reg, browser>>
  PROVE  LifecycleInv'
<1>1. TypeOK
  BY DEF LifecycleInv
<1>2. /\ pc' \in [Clis -> Steps] /\ job' \in [Clis -> Jobs] /\ lock' \in Clis \cup {NoCli}
      /\ lock' = lock \/ lock = c
      /\ \A d \in Clis \ {c} : pc'[d] = pc[d] /\ job'[d] = job[d]
      /\ CommandInv(c)'
  BY <1>1, Finishes
<1>3. TypeOK'
  BY <1>1, <1>2 DEF TypeOK
<1>4. OneEntry' /\ HeldOnce'
  BY <1>1, TableKept DEF LifecycleInv
<1> QED BY <1>2, <1>3, <1>4, CommandGoes

\* A command that holds the lock goes on.
LEMMA ProceedKeeps ==
  ASSUME LifecycleInv, NEW c \in Clis, NEW s \in Steps, Proceed(c, s), quiet' = quiet,
         browser' \in [Browsers -> {"unborn", "running", "gone"}], ExitsOnly,
         dirs' \subseteq Profiles \cup Browsers,
         reg' \in [Slots -> Entries \cup {NoEntry}], DropsOnly,
         sup' \in [Browsers -> {"none", "watching", "retiring", "gone"}],
         supSlot' \in [Browsers -> Slots \cup {NoSlot}],
         UNCHANGED <<bound, crashes>>,
         pc[c] \in Inside \/ UNCHANGED <<reg, browser>>, s \in Inside => pc[c] \in Inside,
         (pc'[c] = s) => (VerbFits(c)' /\ LaunchIsAlone(c)' /\ StopIsSure(c)')
  PROVE  LifecycleInv'
<1>1. TypeOK
  BY DEF LifecycleInv
<1>2. /\ pc' \in [Clis -> Steps] /\ pc'[c] = s
      /\ \A d \in Clis \ {c} : pc'[d] = pc[d] /\ job'[d] = job[d]
      /\ UNCHANGED <<job, lock>>
  BY <1>1, Goes DEF Proceed
<1>3. TypeOK'
  BY <1>1, <1>2 DEF TypeOK
<1>4. OneEntry' /\ HeldOnce'
  BY <1>1, TableKept DEF LifecycleInv
<1>5. CommandInv(c)'
  BY <1>2 DEF CommandInv, LifecycleInv
<1> QED BY <1>2, <1>3, <1>4, <1>5, CommandGoes

\* Live entries under a step that changes neither entries nor browsers but
\* lets browsers exit and entries go.
LEMMA FewerLive ==
  ASSUME TypeOK, ExitsOnly, DropsOnly
  PROVE  \A s \in Slots : Live(s)' => Live(s) /\ reg'[s] = reg[s]
<1> SUFFICES ASSUME NEW s \in Slots, reg'[s] # NoEntry, browser'[reg'[s].browser] = "running"
             PROVE  Live(s) /\ reg'[s] = reg[s]
  BY DEF Live
<1>1. reg'[s] = reg[s] /\ reg[s] # NoEntry
  BY DEF DropsOnly
<1>2. reg[s].browser \in Browsers
  BY <1>1, EntryOf
<1> QED BY <1>1, <1>2 DEF ExitsOnly, Live

\* The steps before a browser is started, and of cleanup and delete.
LEMMA EarlySteps ==
  ASSUME LifecycleInv, NEW c \in Clis, quiet' = quiet,
         CheckHolder(c) \/ Prune(c) \/ SweepOrphans(c) \/ CheckDelete(c) \/ RemoveTree(c) \/ LockTimeout(c)
  PROVE  LifecycleInv'
<1>t. TypeOK /\ CommandInv(c) /\ job[c] \in Jobs
  BY DEF LifecycleInv, TypeOK
<1>j. job[c].profile \in Profiles \cup {NoProfile}
  BY <1>t, JobFields
<1>u. ASSUME UNCHANGED <<browser, reg>> PROVE ExitsOnly /\ DropsOnly
  BY <1>u DEF ExitsOnly, DropsOnly
<1>1. CASE CheckHolder(c)
  <2>1. /\ pc[c] = "holder" /\ UNCHANGED <<browser, bound, reg, sup, supSlot, crashes>>
        /\ dirs' \subseteq Profiles \cup Browsers
        /\ \/ Finish(c)
           \/ Proceed(c, "prune") /\ (job[c].profile = NoProfile \/ Holders(job[c].profile) = {})
    BY <1>1, <1>t, <1>j DEF CheckHolder, procs, TypeOK
  <2>2. CASE Finish(c)
    BY <2>1, <2>2, <1>t, <1>u, DoneKeeps DEF TypeOK
  <2>3. CASE Proceed(c, "prune") /\ (job[c].profile = NoProfile \/ Holders(job[c].profile) = {})
    <3>1. job[c].verb = "launch" /\ UNCHANGED <<job, lock>>
      BY <2>1, <2>3, <1>t DEF CommandInv, VerbFits, Proceed
    <3>2. \A s \in Slots : Live(s)' => Live(s) /\ reg'[s] = reg[s]
      BY <2>1, <1>t, <1>u, FewerLive
    <3>3. pc'[c] = "prune" => LaunchIsAlone(c)' /\ VerbFits(c)' /\ StopIsSure(c)'
      BY <2>1, <2>3, <3>1, <3>2 DEF LaunchIsAlone, VerbFits, StopIsSure, Holders
    <3> QED BY <2>1, <2>3, <3>3, <1>t, <1>u, ProceedKeeps DEF TypeOK, Inside, Steps
  <2> QED BY <2>1, <2>2, <2>3
<1>2. CASE Prune(c)
  <2>1. /\ pc[c] = "prune" /\ UNCHANGED <<browser, bound, sup, supSlot, crashes>>
        /\ dirs' \subseteq dirs /\ Proceed(c, "orphans")
        /\ reg' = Without({s \in Slots : Dead(s)})
    BY <1>2 DEF Prune, procs
  <2>2. DropsOnly /\ ExitsOnly /\ reg' \in [Slots -> Entries \cup {NoEntry}]
    BY <2>1, <1>t DEF DropsOnly, ExitsOnly, Without, TypeOK
  <2>3. UNCHANGED <<job, lock>> /\ job[c].verb \in {"launch", "cleanup"}
    BY <2>1, <1>t DEF Proceed, CommandInv, VerbFits
  <2>4. \A s \in Slots : Live(s)' => Live(s) /\ reg'[s] = reg[s]
    BY <2>2, <1>t, FewerLive
  <2>5. pc'[c] = "orphans" => LaunchIsAlone(c)' /\ VerbFits(c)' /\ StopIsSure(c)'
    BY <2>1, <2>3, <2>4, <1>t DEF CommandInv, LaunchIsAlone, VerbFits, StopIsSure
  <2> QED BY <2>1, <2>2, <2>5, <1>t, ProceedKeeps DEF TypeOK, Inside, Steps
<1>3. CASE SweepOrphans(c)
  <2>1. /\ pc[c] = "orphans" /\ UNCHANGED <<browser, bound, reg, sup, supSlot, crashes>>
        /\ dirs' \subseteq dirs
        /\ Finish(c) \/ (job[c].verb = "launch" /\ Proceed(c, "spawn"))
    BY <1>3 DEF SweepOrphans, procs
  <2>2. CASE Finish(c)
    BY <2>1, <2>2, <1>t, <1>u, DoneKeeps DEF TypeOK
  <2>3. CASE job[c].verb = "launch" /\ Proceed(c, "spawn")
    <3>1. UNCHANGED <<job, lock>>
      BY <2>3 DEF Proceed
    <3>2. \A s \in Slots : Live(s)' => Live(s) /\ reg'[s] = reg[s]
      BY <2>1, <1>t, <1>u, FewerLive
    <3>3. pc'[c] = "spawn" => LaunchIsAlone(c)' /\ VerbFits(c)' /\ StopIsSure(c)'
      BY <2>1, <2>3, <3>1, <3>2, <1>t DEF CommandInv, LaunchIsAlone, VerbFits, StopIsSure
    <3> QED BY <2>1, <2>3, <3>3, <1>t, <1>u, ProceedKeeps DEF TypeOK, Inside, Steps
  <2> QED BY <2>1, <2>2, <2>3
<1>4. CASE CheckDelete(c)
  <2>1. /\ pc[c] = "check" /\ UNCHANGED <<browser, bound, dirs, reg, sup, supSlot, crashes>>
        /\ Finish(c) \/ Proceed(c, "rmtree")
    BY <1>4 DEF CheckDelete, procs
  <2>2. CASE Finish(c)
    BY <2>1, <2>2, <1>t, <1>u, DoneKeeps DEF TypeOK
  <2>3. CASE Proceed(c, "rmtree")
    <3>1. UNCHANGED <<job, lock>>
      BY <2>3 DEF Proceed
    <3>2. pc'[c] = "rmtree" => LaunchIsAlone(c)' /\ VerbFits(c)' /\ StopIsSure(c)'
      BY <2>1, <3>1, <1>t DEF CommandInv, LaunchIsAlone, VerbFits, StopIsSure
    <3> QED BY <2>1, <2>3, <3>2, <1>t, <1>u, ProceedKeeps DEF TypeOK, Inside, Steps
  <2> QED BY <2>1, <2>2, <2>3
<1>5. CASE RemoveTree(c) \/ LockTimeout(c)
  <2>1. /\ Finish(c) /\ dirs' \subseteq dirs
        /\ UNCHANGED <<browser, bound, reg, sup, supSlot, crashes>>
    BY <1>5 DEF RemoveTree, LockTimeout, procs
  <2> QED BY <2>1, <1>t, <1>u, DoneKeeps DEF TypeOK
<1> QED BY <1>1, <1>2, <1>3, <1>4, <1>5

\* A command begins, and takes the lock.
LEMMA BeginSteps ==
  ASSUME LifecycleInv, NEW c \in Clis, quiet' = quiet, Ask(c) \/ Acquire(c)
  PROVE  LifecycleInv'
<1>t. TypeOK /\ CommandInv(c) /\ job[c] \in Jobs
  BY DEF LifecycleInv, TypeOK
<1>u. ASSUME UNCHANGED <<browser, reg>> PROVE OneEntry' /\ HeldOnce'
  <2>1. ExitsOnly /\ DropsOnly
    BY <1>u DEF ExitsOnly, DropsOnly
  <2> QED BY <2>1, TableKept DEF LifecycleInv
<1>1. ASSUME NEW verb \in AllVerbs, NEW p \in Profiles \cup {NoProfile}, NEW s \in Slots \cup {NoSlot},
             verb = "stop" => s \in Slots, Start(c, verb, p, s)
      PROVE  LifecycleInv'
  <2> DEFINE j == [verb |-> verb, profile |-> p, slot |-> s, browser |-> NoBrowser]
  <2>1. j \in Jobs /\ j.verb = verb /\ j.slot = s
    BY <1>1, JobMade
  <2>3. job' = [job EXCEPT ![c] = j] /\ UNCHANGED <<browser, bound, dirs, reg, sup, supSlot, lock, crashes>>
    BY <1>1 DEF Start, procs
  <2> HIDE DEF j
  <2>4. job' \in [Clis -> Jobs] /\ job'[c] = j /\ \A d \in Clis \ {c} : job'[d] = job[d]
    BY <2>1, <2>3, <1>t DEF TypeOK
  <2>5. PICK to \in {"wait", "check"} : Goto(c, to) /\ (to = "check" <=> verb = "delete")
    BY <1>1 DEF Start
  <2>6. pc' \in [Clis -> Steps] /\ pc'[c] = to /\ \A d \in Clis \ {c} : pc'[d] = pc[d]
    BY <2>5, <1>t, Goes DEF Steps
  <2>7. CommandInv(c)'
    BY <1>1, <2>1, <2>4, <2>5, <2>6 DEF CommandInv, Inside, VerbFits, LaunchIsAlone, StopIsSure, AllVerbs
  <2>8. TypeOK'
    BY <2>3, <2>4, <2>6, <1>t DEF TypeOK
  <2> QED BY <2>3, <2>4, <2>6, <2>7, <2>8, <1>u, CommandGoes
<1>2. CASE Ask(c)
  <2>1. 1..Bound \subseteq Slots
    BY <1>t DEF Bound, Slots, TypeOK
  <2>2. CASE \E s \in 1..Bound : Start(c, "stop", NoProfile, s)
    BY <2>1, <2>2, <1>1 DEF AllVerbs
  <2>3. CASE \E p \in Profiles \cup {NoProfile} : Start(c, "launch", p, NoSlot)
    BY <2>3, <1>1 DEF AllVerbs
  <2>4. CASE \E p \in Profiles : Start(c, "delete", p, NoSlot)
    BY <2>4, <1>1 DEF AllVerbs
  <2>5. CASE Start(c, "cleanup", NoProfile, NoSlot)
    BY <2>5, <1>1 DEF AllVerbs
  <2> QED BY <1>2, <2>2, <2>3, <2>4, <2>5 DEF Ask
<1>3. CASE Acquire(c)
  <2>1. /\ lock = NoCli /\ lock' = c
        /\ UNCHANGED <<browser, bound, dirs, reg, sup, supSlot, job, crashes>>
    BY <1>3 DEF Acquire, procs
  <2>2. PICK to \in {"holder", "lookup", "bound", "prune"} :
          /\ Goto(c, to)
          /\ to = "holder" => job[c].verb = "launch"
          /\ to = "lookup" => job[c].verb = "stop"
          /\ to \in {"bound", "prune"} => job[c].verb = "cleanup"
    <3>1. CASE pc[c] = "wait"
      <4>1. Goto(c, FirstStep(job[c].verb)) /\ job[c].verb \in {"launch", "stop", "cleanup"}
        BY <1>3, <3>1, <1>t DEF Acquire, CommandInv, VerbFits
      <4> QED BY <4>1 DEF FirstStep
    <3>2. CASE pc[c] = "rewait"
      BY <1>3, <3>2, <1>t DEF Acquire, CommandInv, VerbFits
    <3> QED BY <1>3, <3>1, <3>2 DEF Acquire
  <2>3. pc' \in [Clis -> Steps] /\ pc'[c] = to /\ \A d \in Clis \ {c} : pc'[d] = pc[d]
    BY <2>2, <1>t, Goes DEF Steps
  <2>4. CommandInv(c)'
    BY <2>1, <2>2, <2>3, <1>t DEF CommandInv, Inside, VerbFits, LaunchIsAlone, StopIsSure
  <2>5. TypeOK'
    BY <2>1, <2>3, <1>t DEF TypeOK
  <2> QED BY <2>1, <2>3, <2>4, <2>5, <1>u, CommandGoes
<1> QED BY <1>2, <1>3

\* The browser is started, and registered.
LEMMA LaunchSteps ==
  ASSUME LifecycleInv, NEW c \in Clis, quiet' = quiet,
         Spawn(c) \/ Boot(c) \/ BootFails(c) \/ Register(c)
  PROVE  LifecycleInv'
<1>t. TypeOK /\ OneEntry /\ HeldOnce /\ CommandInv(c) /\ job[c] \in Jobs
  BY DEF LifecycleInv, TypeOK
<1>j. job[c].profile \in Profiles \cup {NoProfile}
  BY <1>t, JobFields
<1>u. ASSUME UNCHANGED <<browser, reg>> PROVE ExitsOnly /\ DropsOnly
  BY <1>u DEF ExitsOnly, DropsOnly
<1>1. CASE Spawn(c)
  <2>1. PICK b \in Browsers :
          /\ browser[b] = "unborn" /\ browser' = [browser EXCEPT ![b] = "running"]
          /\ bound' = [bound EXCEPT ![b] = job[c].profile]
          /\ dirs' = dirs \cup {IF job[c].profile = NoProfile THEN b ELSE job[c].profile}
          /\ job' = [job EXCEPT ![c].browser = b]
    BY <1>1 DEF Spawn
  <2>2. pc[c] = "spawn" /\ Goto(c, "boot") /\ UNCHANGED <<reg, sup, supSlot, lock, crashes>>
    BY <1>1 DEF Spawn, procs
  <2> DEFINE j == [verb |-> job[c].verb, profile |-> job[c].profile, slot |-> job[c].slot, browser |-> b]
  <2>3. [job[c] EXCEPT !.browser = b] = j
    BY <1>t, JobFields
  <2>4. job' = [job EXCEPT ![c] = j]
    BY <2>1, <2>3
  <2>5. j \in Jobs /\ j.browser = b /\ j.verb = "launch" /\ j.profile = job[c].profile
    BY <2>2, <1>t, JobFields, JobMade DEF CommandInv, VerbFits
  <2> HIDE DEF j
  <2>6. job' \in [Clis -> Jobs] /\ job'[c] = j /\ \A d \in Clis \ {c} : job'[d] = job[d]
    BY <2>4, <2>5, <1>t DEF TypeOK
  <2>7. pc' \in [Clis -> Steps] /\ pc'[c] = "boot" /\ \A d \in Clis \ {c} : pc'[d] = pc[d]
    BY <2>2, <1>t, Goes DEF Steps
  <2>8. TypeOK'
    <3>1. /\ browser' \in [Browsers -> {"unborn", "running", "gone"}]
          /\ bound' \in [Browsers -> Profiles \cup {NoProfile}]
          /\ dirs' \subseteq Profiles \cup Browsers
      BY <2>1, <1>t, <1>j DEF TypeOK
    <3> QED BY <3>1, <2>2, <2>6, <2>7, <1>t DEF TypeOK
  <2>9. \A s \in Slots : reg[s] # NoEntry => reg[s].browser # b
    BY <2>1, <1>t DEF OneEntry
  <2>10. \A s \in Slots : reg[s] # NoEntry => browser'[reg[s].browser] = browser[reg[s].browser]
    BY <2>1, <2>9, <1>t, EntryOf DEF TypeOK
  <2>11. OneEntry' /\ HeldOnce' /\ \A s \in Slots : Live(s)' => Live(s)
    BY <2>2, <2>10, <1>t DEF OneEntry, HeldOnce, Live
  <2>12. browser'[b] = "running"
    BY <2>1, <1>t DEF TypeOK
  <2>13. CommandInv(c)'
    BY <2>2, <2>5, <2>6, <2>7, <2>9, <2>11, <2>12, <1>t
       DEF CommandInv, Inside, Steps, VerbFits, LaunchIsAlone, StopIsSure
  <2> QED BY <2>2, <2>6, <2>7, <2>8, <2>11, <2>13, CommandGoes DEF Inside, Steps
<1>2. CASE Boot(c)
  <2>1. /\ pc[c] = "boot" /\ Proceed(c, "register")
        /\ UNCHANGED <<browser, bound, dirs, reg, sup, supSlot, crashes>>
    BY <1>2 DEF Boot, procs
  <2>2. UNCHANGED <<job, lock>>
    BY <2>1 DEF Proceed
  <2>3. \A s \in Slots : Live(s)' => Live(s) /\ reg'[s] = reg[s]
    BY <2>1, <1>t, <1>u, FewerLive
  <2>4. pc'[c] = "register" => LaunchIsAlone(c)' /\ VerbFits(c)' /\ StopIsSure(c)'
    BY <2>1, <2>2, <2>3, <1>t DEF CommandInv, LaunchIsAlone, VerbFits, StopIsSure
  <2> QED BY <2>1, <2>4, <1>t, <1>u, ProceedKeeps DEF TypeOK, Inside, Steps
<1>3. CASE BootFails(c)
  <2>1. /\ pc[c] = "boot" /\ browser' = [browser EXCEPT ![job[c].browser] = "gone"]
        /\ Finish(c) /\ UNCHANGED <<bound, dirs, reg, sup, supSlot, crashes>>
    BY <1>3 DEF BootFails, procs
  <2>2. job[c].browser \in Browsers /\ browser[job[c].browser] \in {"running", "gone"}
    BY <2>1, <1>t DEF CommandInv, LaunchIsAlone, TypeOK
  <2>3. browser' \in [Browsers -> {"unborn", "running", "gone"}] /\ ExitsOnly /\ DropsOnly
    BY <2>1, <2>2, <1>t DEF ExitsOnly, DropsOnly, TypeOK
  <2> QED BY <2>1, <2>3, <1>t, DoneKeeps DEF TypeOK, Inside, Steps
<1>4. CASE Register(c)
  <2> DEFINE s == FirstFree
             e == NewEntry(job[c].browser)
             j == [verb |-> job[c].verb, profile |-> job[c].profile, slot |-> s, browser |-> job[c].browser]
  <2>1. pc[c] = "register" /\ UNCHANGED <<browser, bound, dirs, sup, supSlot, lock, crashes>>
    BY <1>4 DEF Register, procs
  <2>2. s \in Slots /\ reg[s] = NoEntry
    BY <2>1, FreeSlot
  <2>3. /\ job[c].browser \in Browsers /\ browser[job[c].browser] # "unborn"
        /\ \A t \in Slots : reg[t] # NoEntry => reg[t].browser # job[c].browser
        /\ job[c].verb = "launch"
    BY <2>1, <1>t DEF CommandInv, LaunchIsAlone, VerbFits
  <2>4. e \in Entries /\ e.browser = job[c].browser /\ e.profile = NoProfile /\ e # NoEntry
    BY <2>3, EntryMade
  <2>5. [job[c] EXCEPT !.slot = s] = j
    BY <2>2, <1>t, JobFields
  <2>6. job' = [job EXCEPT ![c] = j] /\ reg' = [reg EXCEPT ![s] = e]
    BY <1>4, <2>5 DEF Register
  <2>7. j \in Jobs /\ j.browser = job[c].browser /\ j.verb = "launch" /\ j.profile = job[c].profile /\ j.slot = s
    BY <2>2, <2>3, <1>t, JobFields, JobMade
  <2> HIDE DEF j, e, s
  <2>8. job' \in [Clis -> Jobs] /\ job'[c] = j /\ \A d \in Clis \ {c} : job'[d] = job[d]
    BY <2>6, <2>7, <1>t DEF TypeOK
  <2>9. PICK to \in {"annotate", "supervise"} : Goto(c, to)
    BY <1>4 DEF Register
  <2>10. pc' \in [Clis -> Steps] /\ pc'[c] = to /\ \A d \in Clis \ {c} : pc'[d] = pc[d]
    BY <2>9, <1>t, Goes DEF Steps
  <2>11. /\ reg' \in [Slots -> Entries \cup {NoEntry}] /\ reg'[s] = e
         /\ \A t \in Slots : t # s => reg'[t] = reg[t]
    BY <2>2, <2>4, <2>6, <1>t DEF TypeOK
  <2>12. TypeOK'
    BY <2>1, <2>8, <2>10, <2>11, <1>t DEF TypeOK
  <2>13. OneEntry'
    BY <2>1, <2>3, <2>4, <2>11, <1>t DEF OneEntry
  <2>14. HeldOnce'
    BY <2>1, <2>4, <2>11, <1>t DEF HeldOnce, Live
  <2>15. \A t \in Slots : Live(t)' => (t # s /\ Live(t)) \/ reg'[t].profile = NoProfile
    BY <2>1, <2>4, <2>11 DEF Live
  <2>16. LaunchIsAlone(c)'
    BY <2>1, <2>2, <2>3, <2>4, <2>7, <2>8, <2>10, <2>11, <2>15, <1>t DEF CommandInv, LaunchIsAlone
  <2>17. CommandInv(c)'
    BY <2>1, <2>7, <2>8, <2>10, <2>16, <1>t DEF CommandInv, Inside, Steps, VerbFits, StopIsSure
  <2> QED BY <2>1, <2>8, <2>10, <2>12, <2>13, <2>14, <2>17, CommandGoes DEF Inside, Steps
<1> QED BY <1>1, <1>2, <1>3, <1>4

\* The supervisor, and the profile in the entry.
LEMMA AnnotateSteps ==
  ASSUME LifecycleInv, NEW c \in Clis, quiet' = quiet,
         Supervise(c) \/ SuperviseFails(c) \/ Record(c) \/ Annotate(c)
  PROVE  LifecycleInv'
<1>t. TypeOK /\ OneEntry /\ HeldOnce /\ CommandInv(c) /\ job[c] \in Jobs
  BY DEF LifecycleInv, TypeOK
<1>j. job[c].profile \in Profiles \cup {NoProfile}
  BY <1>t, JobFields
<1>u. ASSUME UNCHANGED <<browser, reg>> PROVE ExitsOnly /\ DropsOnly
  BY <1>u DEF ExitsOnly, DropsOnly
<1>1. CASE Supervise(c)
  <2>1. /\ pc[c] = "supervise" /\ Proceed(c, "record")
        /\ UNCHANGED <<browser, bound, dirs, reg, crashes>>
        /\ sup' = [sup EXCEPT ![job[c].browser] = "watching"]
        /\ supSlot' = [supSlot EXCEPT ![job[c].browser] = job[c].slot]
    BY <1>1 DEF Supervise
  <2>2. UNCHANGED <<job, lock>> /\ job[c].slot \in Slots
    BY <2>1, <1>t DEF Proceed, CommandInv, LaunchIsAlone
  <2>3. /\ sup' \in [Browsers -> {"none", "watching", "retiring", "gone"}]
        /\ supSlot' \in [Browsers -> Slots \cup {NoSlot}]
    BY <2>1, <2>2, <1>t DEF TypeOK
  <2>4. \A s \in Slots : Live(s)' => Live(s) /\ reg'[s] = reg[s]
    BY <2>1, <1>t, <1>u, FewerLive
  <2>5. pc'[c] = "record" => LaunchIsAlone(c)' /\ VerbFits(c)' /\ StopIsSure(c)'
    BY <2>1, <2>2, <2>4, <1>t DEF CommandInv, LaunchIsAlone, VerbFits, StopIsSure
  <2> QED BY <2>1, <2>3, <2>5, <1>t, <1>u, ProceedKeeps DEF TypeOK, Inside, Steps
<1>2. CASE SuperviseFails(c)
  <2>1. Finish(c) /\ UNCHANGED <<browser, bound, dirs, reg, sup, supSlot, crashes>>
    BY <1>2 DEF SuperviseFails, procs
  <2> QED BY <2>1, <1>t, <1>u, DoneKeeps DEF TypeOK
(* An entry is changed: it stays its browser's. *)
<1>3. CASE Record(c)
  <2> DEFINE s == job[c].slot
             e == [browser |-> reg[s].browser, profile |-> reg[s].profile, recorded |-> TRUE]
  <2>1. /\ pc[c] = "record" /\ Goto(c, "annotate")
        /\ UNCHANGED <<browser, bound, dirs, sup, supSlot, job, lock, crashes>>
    BY <1>3 DEF Record, Proceed, procs
  <2>2. s \in Slots /\ reg[s] # NoEntry /\ reg[s].browser = job[c].browser
    BY <2>1, <1>t DEF CommandInv, LaunchIsAlone
  <2>3. e \in Entries /\ e.browser = reg[s].browser /\ e.profile = reg[s].profile /\ e # NoEntry
    BY <2>2, <1>t, EntryOf, EntryMade, EntryFields
  <2>4. reg' = [reg EXCEPT ![s] = e]
    <3>1. reg' = [reg EXCEPT ![s] = [reg[s] EXCEPT !.recorded = TRUE]]
      BY <1>3, <2>2 DEF Record
    <3>2. [reg[s] EXCEPT !.recorded = TRUE] = e
      BY <2>2, <1>t, EntryOf, EntryFields
    <3> QED BY <3>1, <3>2
  <2> HIDE DEF e, s
  <2>5. /\ reg' \in [Slots -> Entries \cup {NoEntry}] /\ reg'[s] = e
        /\ \A t \in Slots : t # s => reg'[t] = reg[t]
    BY <2>2, <2>3, <2>4, <1>t DEF TypeOK
  <2>6. pc' \in [Clis -> Steps] /\ pc'[c] = "annotate" /\ \A d \in Clis \ {c} : pc'[d] = pc[d]
    BY <2>1, <1>t, Goes DEF Steps
  <2>7. TypeOK'
    BY <2>1, <2>5, <2>6, <1>t DEF TypeOK
  <2>8. \A t \in Slots : /\ reg'[t] = NoEntry <=> reg[t] = NoEntry
                         /\ reg'[t] # NoEntry => /\ reg'[t].browser = reg[t].browser
                                                 /\ reg'[t].profile = reg[t].profile
                         /\ Live(t)' <=> Live(t)
    BY <2>1, <2>2, <2>3, <2>5 DEF Live
  <2>9. OneEntry' /\ HeldOnce'
    BY <2>1, <2>8, <1>t DEF OneEntry, HeldOnce, Live
  <2>10. VerbFits(c)' /\ LaunchIsAlone(c)' /\ StopIsSure(c)'
    <3>1. VerbFits(c)' /\ StopIsSure(c)'
      BY <2>1, <2>6, <1>t DEF CommandInv, VerbFits, StopIsSure
    <3>2. \A t \in Slots : Live(t)' => Live(t) /\ reg'[t].profile = reg[t].profile
      BY <2>8 DEF Live
    <3>3. LaunchIsAlone(c)'
      BY <2>1, <2>2, <2>3, <2>5, <2>6, <3>2, <1>t DEF s, CommandInv, LaunchIsAlone
    <3> QED BY <3>1, <3>3
  <2>11. CommandInv(c)'
    BY <2>1, <2>6, <2>10, <1>t DEF CommandInv, Inside, Steps
  <2> QED BY <2>1, <2>6, <2>7, <2>9, <2>11, CommandGoes DEF Inside, Steps
<1>4. CASE Annotate(c)
  <2> DEFINE s == job[c].slot
             e == [browser |-> reg[s].browser, profile |-> job[c].profile, recorded |-> reg[s].recorded]
  <2>1. /\ pc[c] = "annotate" /\ Finish(c)
        /\ UNCHANGED <<browser, bound, dirs, sup, supSlot, crashes>>
    BY <1>4 DEF Annotate, procs
  <2>2. /\ s \in Slots /\ reg[s] # NoEntry /\ job[c].verb = "launch"
        /\ job[c].profile # NoProfile => \A t \in Slots : Live(t) => reg[t].profile # job[c].profile
    BY <2>1, <1>t DEF CommandInv, LaunchIsAlone, VerbFits
  <2>3. e \in Entries /\ e.browser = reg[s].browser /\ e.profile = job[c].profile /\ e # NoEntry
    BY <2>2, <1>t, <1>j, EntryOf, EntryMade, EntryFields
  <2>4. reg' = [reg EXCEPT ![s] = e]
    <3>1. reg' = [reg EXCEPT ![s] = [reg[s] EXCEPT !.profile = job[c].profile]]
      BY <1>4, <2>2 DEF Annotate
    <3>2. [reg[s] EXCEPT !.profile = job[c].profile] = e
      BY <2>2, <1>t, <1>j, EntryOf, EntryFields
    <3> QED BY <3>1, <3>2
  <2> HIDE DEF e, s
  <2>5. /\ reg' \in [Slots -> Entries \cup {NoEntry}] /\ reg'[s] = e
        /\ \A t \in Slots : t # s => reg'[t] = reg[t]
    BY <2>2, <2>3, <2>4, <1>t DEF TypeOK
  <2>6. /\ pc' \in [Clis -> Steps] /\ job' \in [Clis -> Jobs] /\ lock' \in Clis \cup {NoCli}
        /\ \A d \in Clis \ {c} : pc'[d] = pc[d] /\ job'[d] = job[d]
        /\ CommandInv(c)'
    BY <2>1, <1>t, Finishes
  <2>7. TypeOK'
    BY <2>1, <2>5, <2>6, <1>t DEF TypeOK
  <2>8. \A t \in Slots : /\ reg'[t] = NoEntry <=> reg[t] = NoEntry
                         /\ reg'[t] # NoEntry => reg'[t].browser = reg[t].browser
                         /\ Live(t)' <=> Live(t)
    BY <2>1, <2>2, <2>3, <2>5 DEF Live
  <2>9. OneEntry'
    BY <2>1, <2>8, <1>t DEF OneEntry
  <2>10. HeldOnce'
    <3> SUFFICES ASSUME NEW t \in Slots, NEW u \in Slots, t # u, Live(t)', Live(u)',
                        reg'[t].profile # NoProfile, reg'[t].profile = reg'[u].profile
                 PROVE  FALSE
      BY DEF HeldOnce
    <3>1. Live(t) /\ Live(u)
      BY <2>8
    <3>2. CASE t = s
      BY <3>1, <3>2, <2>2, <2>3, <2>5
    <3>3. CASE u = s
      BY <3>1, <3>3, <2>2, <2>3, <2>5
    <3>4. CASE t # s /\ u # s
      BY <3>1, <3>4, <2>5, <1>t DEF HeldOnce
    <3> QED BY <3>2, <3>3, <3>4
  <2> QED BY <2>1, <2>6, <2>7, <2>9, <2>10, CommandGoes DEF Inside, Steps
<1> QED BY <1>1, <1>2, <1>3, <1>4

\* A stop reads the entry, ends what runs on the directory, and drops it.
LEMMA StopSteps ==
  ASSUME LifecycleInv, NEW c \in Clis, quiet' = quiet,
         Lookup(c) \/ HandOff(c) \/ Terminate(c) \/ Remove(c)
  PROVE  LifecycleInv'
<1>t. TypeOK /\ OneEntry /\ HeldOnce /\ CommandInv(c) /\ job[c] \in Jobs
  BY DEF LifecycleInv, TypeOK
<1>u. ASSUME UNCHANGED <<browser, reg>> PROVE ExitsOnly /\ DropsOnly
  BY <1>u DEF ExitsOnly, DropsOnly
<1>1. CASE Lookup(c)
  <2>1. /\ pc[c] = "lookup" /\ UNCHANGED <<browser, bound, dirs, reg, sup, supSlot, crashes>>
        /\ job[c].verb = "stop" /\ job[c].slot \in Slots
    BY <1>1, <1>t DEF Lookup, procs, CommandInv, VerbFits
  <2>2. CASE reg[job[c].slot] = NoEntry
    BY <1>1, <2>1, <2>2, <1>t, <1>u, DoneKeeps DEF Lookup, TypeOK
  <2>3. CASE reg[job[c].slot] # NoEntry
    <3> DEFINE b == reg[job[c].slot].browser
               j == [verb |-> job[c].verb, profile |-> job[c].profile, slot |-> job[c].slot, browser |-> b]
    <3>1. b \in Browsers
      BY <2>1, <2>3, <1>t, EntryOf
    <3>2. [job[c] EXCEPT !.browser = b] = j
      BY <3>1, <1>t, JobFields
    <3>3. job' = [job EXCEPT ![c] = [job[c] EXCEPT !.browser = b]] /\ Goto(c, "handoff") /\ lock' = lock
      BY <1>1, <2>3 DEF Lookup
    <3>4. job' = [job EXCEPT ![c] = j]
      BY <3>2, <3>3
    <3>5. j \in Jobs /\ j.verb = "stop" /\ j.slot = job[c].slot /\ j.browser = reg[job[c].slot].browser
      BY <3>1, <2>1, <1>t, JobFields, JobMade
    <3> HIDE DEF j, b
    <3>6. job' \in [Clis -> Jobs] /\ job'[c] = j /\ \A d \in Clis \ {c} : job'[d] = job[d]
      BY <3>4, <3>5, <1>t DEF TypeOK
    <3>7. pc' \in [Clis -> Steps] /\ pc'[c] = "handoff" /\ \A d \in Clis \ {c} : pc'[d] = pc[d]
      BY <3>3, <1>t, Goes DEF Steps
    <3>8. TypeOK'
      BY <2>1, <3>3, <3>6, <3>7, <1>t DEF TypeOK
    <3>9. OneEntry' /\ HeldOnce'
      BY <2>1, <1>t, <1>u, TableKept
    <3>10. CommandInv(c)'
      BY <2>1, <2>3, <3>3, <3>5, <3>6, <3>7, <1>t
         DEF CommandInv, Inside, Steps, VerbFits, LaunchIsAlone, StopIsSure
    <3> QED BY <2>1, <3>6, <3>7, <3>8, <3>9, <3>10, CommandGoes DEF Inside, Steps
  <2> QED BY <2>2, <2>3
<1>2. CASE HandOff(c)
  <2>1. /\ pc[c] = "handoff" /\ UNCHANGED <<browser, bound, dirs, reg, supSlot, crashes>>
        /\ sup' = sup \/ sup' = [sup EXCEPT ![job[c].browser] = "gone"]
        /\ Finish(c) \/ Proceed(c, "terminate")
    BY <1>2 DEF HandOff
  <2>2. sup' \in [Browsers -> {"none", "watching", "retiring", "gone"}]
    BY <2>1, <1>t DEF TypeOK
  <2>3. CASE Finish(c)
    BY <2>1, <2>2, <2>3, <1>t, <1>u, DoneKeeps DEF TypeOK
  <2>4. CASE Proceed(c, "terminate")
    <3>1. UNCHANGED <<job, lock>>
      BY <2>4 DEF Proceed
    <3>2. pc'[c] = "terminate" => LaunchIsAlone(c)' /\ VerbFits(c)' /\ StopIsSure(c)'
      BY <2>1, <3>1, <1>t DEF CommandInv, LaunchIsAlone, VerbFits, StopIsSure
    <3> QED BY <2>1, <2>2, <2>4, <3>2, <1>t, <1>u, ProceedKeeps DEF TypeOK, Inside, Steps
  <2> QED BY <2>1, <2>3, <2>4
<1>3. CASE Terminate(c)
  <2> DEFINE users == Users(Home(job[c].browser))
  <2>1. PICK survivors \in SUBSET users :
          /\ browser' = [b \in Browsers |-> IF b \in users \ survivors THEN "gone" ELSE browser[b]]
          /\ IF survivors = {} THEN Proceed(c, "remove") ELSE Finish(c)
    BY <1>3 DEF Terminate
  <2>2. pc[c] = "terminate" /\ UNCHANGED <<bound, dirs, reg, sup, supSlot, crashes>>
    BY <1>3 DEF Terminate, procs
  <2>3. browser' \in [Browsers -> {"unborn", "running", "gone"}] /\ ExitsOnly /\ DropsOnly
    BY <2>1, <2>2, <1>t DEF TypeOK, Users, ExitsOnly, DropsOnly
  <2>4. CASE survivors # {}
    BY <2>1, <2>2, <2>3, <2>4, <1>t, DoneKeeps DEF TypeOK, Inside, Steps
  <2>5. CASE survivors = {}
    <3>1. UNCHANGED <<job, lock>> /\ Proceed(c, "remove")
      BY <2>1, <2>5 DEF Proceed
    <3>2. Users(Home(job[c].browser))' = {}
      BY <2>1, <2>2, <2>5, <3>1 DEF Users, Home
    <3>3. pc'[c] = "remove" => LaunchIsAlone(c)' /\ VerbFits(c)' /\ StopIsSure(c)'
      BY <2>2, <3>1, <3>2, <1>t DEF CommandInv, LaunchIsAlone, VerbFits, StopIsSure
    <3> QED BY <2>2, <2>3, <3>1, <3>3, <1>t, ProceedKeeps DEF TypeOK, Inside, Steps
  <2> QED BY <2>4, <2>5
<1>4. CASE Remove(c)
  <2>1. /\ pc[c] = "remove" /\ UNCHANGED <<browser, bound, sup, supSlot, crashes>>
        /\ reg' = Without({job[c].slot}) /\ dirs' \subseteq dirs /\ Finish(c)
    BY <1>4 DEF Remove, procs
  <2>2. DropsOnly /\ ExitsOnly /\ reg' \in [Slots -> Entries \cup {NoEntry}]
    BY <2>1, <1>t DEF DropsOnly, ExitsOnly, Without, TypeOK
  <2> QED BY <2>1, <2>2, <1>t, DoneKeeps DEF TypeOK, Inside, Steps
<1> QED BY <1>1, <1>2, <1>3, <1>4

\* The first pass of a cleanup lets the lock go, and a command is killed.
LEMMA OtherSteps ==
  ASSUME LifecycleInv, NEW c \in Clis, quiet' = quiet, HideBound(c) \/ Crash(c)
  PROVE  LifecycleInv'
<1>t. TypeOK /\ CommandInv(c) /\ job[c] \in Jobs
  BY DEF LifecycleInv, TypeOK
<1>1. CASE HideBound(c)
  <2>1. /\ pc[c] = "bound" /\ Goto(c, "rewait") /\ lock' = NoCli
        /\ UNCHANGED <<browser, bound, dirs, sup, supSlot, job, crashes>>
        /\ \E hidden \in SUBSET Slots : reg' = Without(hidden)
    BY <1>1 DEF HideBound, procs
  <2>2. DropsOnly /\ ExitsOnly /\ reg' \in [Slots -> Entries \cup {NoEntry}]
    BY <2>1, <1>t DEF DropsOnly, ExitsOnly, Without, TypeOK
  <2>3. pc' \in [Clis -> Steps] /\ pc'[c] = "rewait" /\ \A d \in Clis \ {c} : pc'[d] = pc[d]
    BY <2>1, <1>t, Goes DEF Steps
  <2>4. TypeOK'
    BY <2>1, <2>2, <2>3, <1>t DEF TypeOK
  <2>5. OneEntry' /\ HeldOnce'
    BY <2>2, <1>t, TableKept DEF LifecycleInv
  <2>6. CommandInv(c)'
    BY <2>1, <2>3, <1>t DEF CommandInv, Inside, VerbFits, LaunchIsAlone, StopIsSure
  <2> QED BY <2>1, <2>3, <2>4, <2>5, <2>6, CommandGoes DEF Inside, Steps
<1>2. CASE Crash(c)
  <2>1. /\ Finish(c) /\ UNCHANGED <<browser, bound, dirs, reg, sup, supSlot>>
        /\ crashes < MaxCrashes /\ crashes' = crashes + 1
    BY <1>2 DEF Crash, Kills, procs
  <2>2. crashes' \in 0..MaxCrashes /\ ExitsOnly /\ DropsOnly
    BY <2>1, <1>t DEF TypeOK, ExitsOnly, DropsOnly
  <2> QED BY <2>1, <2>2, <1>t, DoneKeeps DEF TypeOK
<1> QED BY <1>1, <1>2

\* A browser exits, or its supervisor acts; nobody who holds the lock is
\* disturbed.
LEMMA BrowserSteps ==
  ASSUME LifecycleInv, NEW b \in Browsers, quiet' = quiet, BrowserStep(b)
  PROVE  LifecycleInv'
<1>t. TypeOK /\ OneEntry /\ HeldOnce /\ \A c \in Clis : CommandInv(c)
  BY DEF LifecycleInv
<1>g. ASSUME UNCHANGED <<bound, lock, pc, job>>, ExitsOnly, DropsOnly, TypeOK',
             reg' = reg \/ lock = NoCli
      PROVE  LifecycleInv'
  <2>1. OneEntry' /\ HeldOnce'
    BY <1>g, <1>t, TableKept
  <2>2. ASSUME NEW c \in Clis PROVE CommandInv(c)'
    <3>1. pc[c] \in Inside => reg' = reg
      BY <1>g, <1>t DEF CommandInv
    <3> QED BY <3>1, <1>g, <1>t, CommandKept
  <2> QED BY <1>g, <2>1, <2>2 DEF LifecycleInv
<1>1. CASE Exit(b)
  <2>1. /\ browser[b] = "running" /\ browser' = [browser EXCEPT ![b] = "gone"]
        /\ UNCHANGED <<bound, dirs, reg, sup, supSlot, lock, pc, job, crashes>>
    BY <1>1 DEF Exit, procs
  <2>2. ExitsOnly /\ DropsOnly /\ TypeOK'
    BY <2>1, <1>t DEF ExitsOnly, DropsOnly, TypeOK
  <2> QED BY <2>1, <2>2, <1>g
<1>2. CASE NoticeExit(b) \/ Leave(b) \/ CrashSupervisor(b)
  <2>1. /\ \E to \in {"retiring", "gone"} : sup' = [sup EXCEPT ![b] = to]
        /\ UNCHANGED <<browser, bound, dirs, reg, supSlot, lock, pc, job>>
        /\ crashes' = crashes \/ (crashes < MaxCrashes /\ crashes' = crashes + 1)
    BY <1>2 DEF NoticeExit, Leave, CrashSupervisor, Kills
  <2>2. crashes' \in 0..MaxCrashes
    BY <2>1, <1>t DEF TypeOK
  <2>3. ExitsOnly /\ DropsOnly /\ TypeOK'
    BY <2>1, <2>2, <1>t DEF ExitsOnly, DropsOnly, TypeOK
  <2> QED BY <2>1, <2>3, <1>g
<1>3. CASE Retire(b)
  <2>1. /\ lock = NoCli /\ reg' = Without({supSlot[b]}) /\ dirs' \subseteq dirs
        /\ sup' = [sup EXCEPT ![b] = "gone"]
        /\ UNCHANGED <<browser, bound, supSlot, lock, pc, job, crashes>>
    BY <1>3 DEF Retire
  <2>2. ExitsOnly /\ DropsOnly /\ reg' \in [Slots -> Entries \cup {NoEntry}]
    BY <2>1, <1>t DEF ExitsOnly, DropsOnly, Without, TypeOK
  <2>3. TypeOK'
    BY <2>1, <2>2, <1>t DEF TypeOK
  <2> QED BY <2>1, <2>2, <2>3, <1>g
<1> QED BY <1>1, <1>2, <1>3 DEF BrowserStep

LEMMA LifecyclePreserved == LifecycleInv /\ [Next]_vars => LifecycleInv'
<1> SUFFICES ASSUME LifecycleInv, [Next]_vars PROVE LifecycleInv'
  OBVIOUS
<1>1. ASSUME NEW c \in Clis, CliStep(c), quiet' = quiet PROVE LifecycleInv'
  BY <1>1, EarlySteps, BeginSteps, LaunchSteps, AnnotateSteps, StopSteps, OtherSteps DEF CliStep
<1>2. ASSUME NEW b \in Browsers, BrowserStep(b), quiet' = quiet PROVE LifecycleInv'
  BY <1>2, BrowserSteps
<1>3. CASE UNCHANGED vars
  <2>1. UNCHANGED <<quiet, browser, bound, dirs, reg, sup, supSlot, lock, pc, job, crashes>>
    BY <1>3 DEF vars
  <2>2. TypeOK' /\ ExitsOnly /\ DropsOnly
    BY <2>1 DEF LifecycleInv, TypeOK, ExitsOnly, DropsOnly
  <2> QED BY <2>1, <2>2, TableKept, CommandKept DEF LifecycleInv
<1> QED BY <1>1, <1>2, <1>3 DEF Next

LEMMA LifecycleInvariance == Spec => []LifecycleInv
<1> QED BY LifecycleStart, LifecyclePreserved, PTL DEF Spec

-----------------------------------------------------------------------------
(* What follows for every history. *)

\* A step of a command drops no entry of a browser that runs.
LEMMA CommandSpares ==
  ASSUME LifecycleInv, NEW c \in Clis, CliStep(c), NEW s \in Slots, Live(s)
  PROVE  Spares(s)
<1>t. TypeOK /\ CommandInv(c) /\ reg[s] # NoEntry /\ browser[reg[s].browser] = "running"
  BY DEF LifecycleInv, Live
<1>e. ASSUME reg'[s] # NoEntry, reg'[s].browser = reg[s].browser PROVE Spares(s)
  BY <1>e DEF Spares
<1>u. ASSUME reg' = reg PROVE Spares(s)
  BY <1>u, <1>e, <1>t
<1>1. CASE Prune(c) \/ HideBound(c)
  <2>1. \E S \in SUBSET Slots : s \notin S /\ reg' = Without(S)
    BY <1>1 DEF Prune, HideBound, Dead, Live
  <2>2. reg'[s] = reg[s]
    BY <2>1 DEF Without
  <2> QED BY <2>2, <1>e, <1>t
<1>2. CASE Register(c)
  <2>1. FirstFree # s /\ reg' = [reg EXCEPT ![FirstFree] = NewEntry(job[c].browser)]
    BY <1>2, <1>t, FreeSlot DEF Register
  <2>2. reg'[s] = reg[s]
    BY <2>1, <1>t DEF TypeOK
  <2> QED BY <2>2, <1>e, <1>t
<1>3. CASE Record(c) \/ Annotate(c)
  <2> DEFINE t == job[c].slot
  <2>1. /\ t \in Slots /\ reg[t] # NoEntry /\ job[c].profile \in Profiles \cup {NoProfile}
        /\ \/ reg' = [reg EXCEPT ![t] = [reg[t] EXCEPT !.recorded = TRUE]]
           \/ reg' = [reg EXCEPT ![t] = [reg[t] EXCEPT !.profile = job[c].profile]]
    <3>1. t \in Slots /\ reg[t] # NoEntry
      BY <1>3, <1>t DEF Record, Annotate, CommandInv, LaunchIsAlone
    <3>2. job[c].profile \in Profiles \cup {NoProfile}
      BY <1>t, JobFields DEF TypeOK
    <3> QED BY <3>1, <3>2, <1>3 DEF Record, Annotate
  <2> HIDE DEF t
  <2>2. \E e \in Entries : reg' = [reg EXCEPT ![t] = e] /\ e.browser = reg[t].browser
    <3>1. reg[t] \in Entries
      BY <2>1, <1>t, EntryOf
    <3> DEFINE e1 == [browser |-> reg[t].browser, profile |-> reg[t].profile, recorded |-> TRUE]
               e2 == [browser |-> reg[t].browser, profile |-> job[c].profile, recorded |-> reg[t].recorded]
    <3>2. /\ [reg[t] EXCEPT !.recorded = TRUE] = e1
          /\ [reg[t] EXCEPT !.profile = job[c].profile] = e2
      BY <3>1, <2>1, EntryFields
    <3>3. e1 \in Entries /\ e2 \in Entries
      BY <3>1, <2>1, EntryFields, EntryMade
    <3>4. e1.browser = reg[t].browser /\ e2.browser = reg[t].browser
      OBVIOUS
    <3>5. reg' = [reg EXCEPT ![t] = e1] \/ reg' = [reg EXCEPT ![t] = e2]
      BY <2>1, <3>2
    <3> HIDE DEF e1, e2
    <3> QED BY <3>3, <3>4, <3>5
  <2>3. reg'[s] # NoEntry /\ reg'[s].browser = reg[s].browser
    BY <2>1, <2>2, <1>t DEF TypeOK
  <2> QED BY <2>3, <1>e
<1>4. CASE Remove(c)
  <2>1. /\ pc[c] = "remove" /\ reg' = Without({job[c].slot})
        /\ reg[job[c].slot].browser = job[c].browser /\ Users(Home(job[c].browser)) = {}
    BY <1>4, <1>t DEF Remove, CommandInv, StopIsSure
  <2>2. s # job[c].slot
    <3>1. reg[s].browser \in Browsers
      BY <1>t, EntryOf
    <3> QED BY <2>1, <3>1, <1>t DEF Users
  <2>3. reg'[s] = reg[s]
    BY <2>1, <2>2 DEF Without
  <2> QED BY <2>3, <1>e, <1>t
<1>5. CASE \/ Ask(c) \/ Acquire(c) \/ LockTimeout(c) \/ Crash(c) \/ CheckHolder(c) \/ SweepOrphans(c)
           \/ Spawn(c) \/ Boot(c) \/ BootFails(c) \/ Supervise(c) \/ SuperviseFails(c) \/ Lookup(c)
           \/ HandOff(c) \/ Terminate(c) \/ CheckDelete(c) \/ RemoveTree(c)
  <2>1. reg' = reg
    BY <1>5 DEF Ask, Start, Acquire, LockTimeout, Crash, CheckHolder, SweepOrphans, Spawn, Boot,
       BootFails, Supervise, SuperviseFails, Lookup, HandOff, Terminate, CheckDelete, RemoveTree
  <2> QED BY <2>1, <1>u
<1> QED BY <1>1, <1>2, <1>3, <1>4, <1>5 DEF CliStep

(* A profile is held by at most one live instance, for any number of commands, *)
(* profiles, browsers and kills (profile_launch_lock, find_profile_holder).    *)
THEOREM HeldOnceTheorem == Spec => []HeldOnce
<1>1. LifecycleInv => HeldOnce
  BY DEF LifecycleInv
<1> QED BY <1>1, LifecycleInvariance, PTL

(* No command drops the entry of a browser that runs on: what launch, stop and *)
(* cleanup have read of it is still so when they act (core.registry.cleanup,   *)
(* _stop_managed, _remove_entry).                                              *)
THEOREM CommandsSpareLiveTheorem == Spec => CommandsSpareLive
<1>1. ASSUME LifecycleInv, [Next]_vars
      PROVE  [(pc' # pc) => \A s \in Slots : Live(s) => Spares(s)]_vars
  <2> SUFFICES ASSUME Next, pc' # pc, NEW s \in Slots, Live(s) PROVE Spares(s)
    BY <1>1
  <2>1. \A b \in Browsers : BrowserStep(b) => pc' = pc
    BY DEF BrowserStep, Exit, NoticeExit, Retire, Leave, CrashSupervisor
  <2>2. PICK c \in Clis : CliStep(c)
    BY <2>1 DEF Next
  <2> QED BY <1>1, <2>2, CommandSpares
<1> QED BY <1>1, LifecycleInvariance, PTL DEF Spec, CommandsSpareLive

(* A stop that comes to its end has left no process on the directory, whoever *)
(* started it (_stop_managed, _browser_exit_verified).                        *)
THEOREM StopLeavesNothingTheorem == Spec => StopLeavesNothing
<1>1. ASSUME LifecycleInv
      PROVE  [\A c \in Clis : (pc[c] = "remove" /\ pc'[c] # "remove")
                                => Users(Home(job[c].browser)) = {}]_vars
  BY <1>1 DEF LifecycleInv, CommandInv, StopIsSure
<1> QED BY <1>1, LifecycleInvariance, PTL DEF Spec, StopLeavesNothing

-----------------------------------------------------------------------------
(* A quiet history loses nothing. *)

LEMMA QuietStart == Init => QuietInv
<1> SUFFICES ASSUME Init PROVE QuietInv
  OBVIOUS
<1> QED BY NoJobFields DEF Init, QuietInv, EntriesTell, OwnDirs, LiveKeepsDir, Live, Found, QuietCommand

LEMMA QuietCommandKept ==
  ASSUME LifecycleInv, NEW d \in Clis, QuietCommand(d), pc'[d] = pc[d], job'[d] = job[d],
         pc[d] \in Inside => UNCHANGED <<reg, bound, dirs>> /\ ExitsOnly
  PROVE  QuietCommand(d)'
<1>1. CASE pc[d] \notin Inside
  BY <1>1 DEF QuietCommand, Inside, Steps
<1>2. CASE pc[d] \in Inside
  <2>1. UNCHANGED <<reg, bound, dirs>> /\ ExitsOnly /\ DropsOnly
    BY <1>2 DEF DropsOnly
  <2>2. \A s \in Slots : Live(s)' => Live(s) /\ reg'[s] = reg[s]
    BY <2>1, FewerLive DEF LifecycleInv
  <2>3. \A s \in Slots : Dir(s)' = Dir(s)
    BY <2>1 DEF Dir, Home
  <2>4. Home(job[d].browser)' = Home(job[d].browser)
    BY <2>1 DEF Home
  <2> QED BY <2>1, <2>2, <2>3, <2>4 DEF QuietCommand
<1> QED BY <1>1, <1>2

\* A command steps: what is left to show is the table and its own part.
LEMMA QuietGoes ==
  ASSUME LifecycleInv, QuietInv, quiet, quiet' = quiet, NEW c \in Clis, QuietCommand(c)',
         \A d \in Clis \ {c} : pc'[d] = pc[d] /\ job'[d] = job[d],
         pc[c] \in Inside \/ UNCHANGED <<reg, bound, browser, dirs>>,
         sup' = sup, EntriesTell', OwnDirs', LiveKeepsDir', Found'
  PROVE  QuietInv'
<1>1. ASSUME NEW d \in Clis \ {c} PROVE QuietCommand(d)'
  <2>1. pc[d] \in Inside => UNCHANGED <<reg, bound, dirs>> /\ ExitsOnly
    BY InsideAlone DEF ExitsOnly
  <2> QED BY <2>1, QuietCommandKept DEF QuietInv
<1> QED BY <1>1 DEF QuietInv

\* Browsers exit, entries of the dead go, directories go that no live entry
\* has: the table stays as a quiet history has it.
LEMMA TableStaysQuiet ==
  ASSUME LifecycleInv, QuietInv, quiet, bound' = bound, ExitsOnly, DropsOnly,
         \A d \in Clis : pc[d] \in {"boot", "register", "annotate"} => pc'[d] = pc[d] /\ job'[d] = job[d],
         \A s \in Slots : Live(s)' => Dir(s) \in dirs',
         \A s \in Slots : (Live(s) /\ browser'[reg[s].browser] = "running") => reg'[s] = reg[s]
  PROVE  EntriesTell' /\ OwnDirs' /\ LiveKeepsDir' /\ Found'
<1>t. TypeOK /\ EntriesTell /\ OwnDirs /\ LiveKeepsDir /\ Found
  BY DEF LifecycleInv, QuietInv
<1>1. \A s \in Slots : reg'[s] # NoEntry => reg'[s] = reg[s] /\ Dir(s)' = Dir(s)
  BY DEF DropsOnly, Dir, Home
<1>2. EntriesTell'
  <2> SUFFICES ASSUME NEW s \in Slots, reg'[s] # NoEntry, reg'[s].profile # bound'[reg'[s].browser]
               PROVE  \E d \in Clis : pc'[d] = "annotate" /\ job'[d].slot = s
    BY DEF EntriesTell
  <2>1. reg[s] # NoEntry /\ reg[s].profile # bound[reg[s].browser]
    BY <1>1
  <2>2. PICK d \in Clis : pc[d] = "annotate" /\ job[d].slot = s
    BY <2>1, <1>t DEF EntriesTell
  <2> QED BY <2>2
<1>3. OwnDirs'
  BY <1>1, <1>t DEF OwnDirs
<1>4. LiveKeepsDir'
  BY <1>1 DEF LiveKeepsDir, Live
<1>5. Found'
  <2> SUFFICES ASSUME NEW b \in Browsers, browser'[b] = "running"
               PROVE  \/ \E s \in Slots : reg'[s] # NoEntry /\ reg'[s].browser = b
                      \/ \E d \in Clis : job'[d].browser = b /\ pc'[d] \in {"boot", "register"}
    BY DEF Found
  <2>1. browser[b] = "running"
    BY DEF ExitsOnly
  <2>2. CASE \E s \in Slots : reg[s] # NoEntry /\ reg[s].browser = b
    <3>1. PICK s \in Slots : reg[s] # NoEntry /\ reg[s].browser = b
      BY <2>2
    <3>2. reg'[s] = reg[s]
      BY <3>1, <2>1 DEF Live
    <3> QED BY <3>1, <3>2
  <2>3. CASE \E d \in Clis : job[d].browser = b /\ pc[d] \in {"boot", "register"}
    BY <2>3
  <2> QED BY <2>1, <2>2, <2>3, <1>t DEF Found
<1> QED BY <1>2, <1>3, <1>4, <1>5

\* Nothing that launches or annotates is elsewhere while c is inside.
LEMMA NobodyLaunches ==
  ASSUME LifecycleInv, NEW c \in Clis, pc[c] \in Inside \ {"boot", "register", "annotate"}
  PROVE  \A d \in Clis : pc[d] \notin {"boot", "register", "annotate"}
<1> SUFFICES ASSUME NEW d \in Clis, pc[d] \in {"boot", "register", "annotate"} PROVE FALSE
  OBVIOUS
<1>1. pc[d] \in Inside /\ pc[c] \in Inside
  BY DEF Inside, Steps
<1> QED BY <1>1, InsideAlone

\* The steps that ask, wait and stop.
LEMMA QuietOutside ==
  ASSUME LifecycleInv, QuietInv, quiet, quiet' = quiet, NEW c \in Clis,
         Ask(c) \/ Acquire(c) \/ LockTimeout(c)
  PROVE  QuietInv'
<1>t. TypeOK /\ CommandInv(c) /\ QuietCommand(c)
  BY DEF LifecycleInv, QuietInv
<1>1. /\ UNCHANGED <<browser, bound, dirs, reg, sup>>
      /\ pc[c] \in {"idle", "wait", "rewait"}
  BY DEF Ask, Start, Acquire, LockTimeout, procs
<1>2. /\ \A d \in Clis \ {c} : pc'[d] = pc[d] /\ job'[d] = job[d]
      /\ pc'[c] \in {"idle", "wait", "holder", "lookup", "bound", "prune"}
      /\ pc'[c] = "prune" => job'[c].verb = "cleanup"
  <2>1. CASE Ask(c)
    <3>1. PICK verb \in {"launch", "stop", "cleanup"}, p \in Profiles \cup {NoProfile}, s \in 1..Bound \cup {NoSlot} :
            Start(c, verb, p, s)
      BY <2>1 DEF Ask
    <3>2. Goto(c, "wait") /\ \E j : job' = [job EXCEPT ![c] = j]
      BY <3>1 DEF Start
    <3> QED BY <3>2, <1>t, Goes DEF TypeOK, Steps
  <2>2. CASE Acquire(c)
    <3>1. /\ job' = job
          /\ \/ pc[c] = "wait" /\ Goto(c, FirstStep(job[c].verb)) /\ job[c].verb \in {"launch", "stop", "cleanup"}
             \/ pc[c] = "rewait" /\ Goto(c, "prune") /\ job[c].verb = "cleanup"
      BY <2>2, <1>t DEF Acquire, CommandInv, VerbFits
    <3>2. \/ Goto(c, "holder") \/ Goto(c, "lookup") \/ Goto(c, "bound")
          \/ Goto(c, "prune") /\ job[c].verb = "cleanup"
      BY <3>1 DEF FirstStep
    <3> QED BY <3>1, <3>2, <1>t, Goes DEF Steps
  <2>3. CASE LockTimeout(c)
    BY <2>3, <1>t, Finishes DEF LockTimeout
  <2> QED BY <2>1, <2>2, <2>3
<1>3. QuietCommand(c)'
  BY <1>2 DEF QuietCommand
<1>4. ExitsOnly /\ DropsOnly /\ \A s \in Slots : Live(s)' => Live(s)
  BY <1>1 DEF ExitsOnly, DropsOnly, Live
<1>5. EntriesTell' /\ OwnDirs' /\ LiveKeepsDir' /\ Found'
  <2>1. \A d \in Clis : pc[d] \in {"boot", "register", "annotate"} => pc'[d] = pc[d] /\ job'[d] = job[d]
    BY <1>1, <1>2
  <2>2. \A s \in Slots : Live(s)' => Dir(s) \in dirs'
    BY <1>1, <1>4 DEF QuietInv, LiveKeepsDir
  <2> QED BY <1>1, <1>4, <2>1, <2>2, TableStaysQuiet
<1> QED BY <1>1, <1>2, <1>3, <1>5, QuietGoes

LEMMA QuietStops ==
  ASSUME LifecycleInv, QuietInv, quiet, quiet' = quiet, NEW c \in Clis,
         Lookup(c) \/ HandOff(c) \/ Terminate(c) \/ Remove(c) \/ HideBound(c)
  PROVE  QuietInv'
<1>t. TypeOK /\ CommandInv(c) /\ QuietCommand(c) /\ OwnDirs /\ LiveKeepsDir
  BY DEF LifecycleInv, QuietInv
<1>1. pc[c] \in {"lookup", "handoff", "terminate", "remove", "bound"} /\ bound' = bound
  BY DEF Lookup, HandOff, Terminate, Remove, HideBound
<1>2. pc[c] \in Inside /\ \A d \in Clis : pc[d] \notin {"boot", "register", "annotate"}
  BY <1>1, NobodyLaunches DEF Inside, Steps
<1>3. /\ \A d \in Clis \ {c} : pc'[d] = pc[d] /\ job'[d] = job[d]
      /\ pc'[c] \in {"idle", "handoff", "terminate", "remove", "rewait"}
  <2>1. CASE Finish(c)
    BY <2>1, <1>t, Finishes
  <2>2. CASE Lookup(c) /\ ~Finish(c)
    <3>1. Goto(c, "handoff") /\ \E j : job' = [job EXCEPT ![c] = j]
      BY <2>2 DEF Lookup
    <3> QED BY <3>1, <1>t, Goes DEF Steps, TypeOK
  <2>3. CASE ~Lookup(c) /\ ~Finish(c)
    <3>1. job' = job /\ (Goto(c, "terminate") \/ Goto(c, "remove") \/ Goto(c, "rewait"))
      BY <2>3 DEF HandOff, Terminate, Remove, HideBound, Proceed
    <3> QED BY <3>1, <1>t, Goes DEF Steps
  <2> QED BY <2>1, <2>2, <2>3
<1>4. QuietCommand(c)'
  BY <1>3 DEF QuietCommand
<1>5. sup' = sup
  <2>1. CASE HandOff(c)
    <3>1. job[c].slot \in Slots /\ reg[job[c].slot] # NoEntry /\ reg[job[c].slot].browser = job[c].browser
      BY <2>1, <1>t DEF HandOff, CommandInv, VerbFits, StopIsSure
    <3>2. sup[job[c].browser] = "none"
      BY <3>1, <1>t, EntryOf DEF QuietInv
    <3> QED BY <2>1, <3>2 DEF HandOff
  <2> QED BY <2>1 DEF Lookup, Terminate, Remove, HideBound, procs
<1>6. ExitsOnly /\ DropsOnly
      /\ \A s \in Slots : (Live(s) /\ browser'[reg[s].browser] = "running") => reg'[s] = reg[s]
  <2>1. CASE Lookup(c) \/ HandOff(c)
    BY <2>1 DEF Lookup, HandOff, ExitsOnly, DropsOnly
  <2>2. CASE Terminate(c)
    BY <2>2 DEF Terminate, Users, ExitsOnly, DropsOnly
  <2>3. CASE Remove(c)
    <3>1. /\ pc[c] = "remove" /\ reg' = Without({job[c].slot}) /\ browser' = browser
          /\ reg[job[c].slot].browser = job[c].browser /\ Users(Home(job[c].browser)) = {}
      BY <2>3, <1>t DEF Remove, CommandInv, StopIsSure
    <3>2. \A s \in Slots : Live(s) => s # job[c].slot
      <4> SUFFICES ASSUME NEW s \in Slots, Live(s), s = job[c].slot PROVE FALSE
        OBVIOUS
      <4>1. reg[s].browser \in Browsers /\ browser[reg[s].browser] = "running"
        BY <1>t, EntryOf DEF Live
      <4> QED BY <3>1, <4>1 DEF Users
    <3> QED BY <3>1, <3>2 DEF Without, ExitsOnly, DropsOnly
  <2>4. CASE HideBound(c)
    <3>1. browser' = browser /\ \E S \in SUBSET Slots : (\A s \in S : Dead(s)) /\ reg' = Without(S)
      BY <2>4 DEF HideBound
    <3> QED BY <3>1 DEF Without, Dead, Live, ExitsOnly, DropsOnly
  <2> QED BY <2>1, <2>2, <2>3, <2>4
<1>7. \A s \in Slots : Live(s)' => Live(s) /\ reg'[s] = reg[s]
  BY <1>6, <1>t, FewerLive
<1>8. \A s \in Slots : Live(s)' => Dir(s) \in dirs'
  <2>1. CASE dirs' = dirs
    BY <2>1, <1>7, <1>t DEF LiveKeepsDir
  <2>2. CASE Remove(c)
    <3> SUFFICES ASSUME NEW s \in Slots, Live(s)' PROVE Dir(s) \in dirs'
      OBVIOUS
    <3>1. /\ job[c].slot \in Slots /\ reg[job[c].slot] # NoEntry /\ reg[job[c].slot].browser = job[c].browser
          /\ reg' = Without({job[c].slot})
          /\ dirs' = dirs \/ dirs' = dirs \ {Home(job[c].browser)}
      BY <2>2, <1>t DEF Remove, CommandInv, VerbFits, StopIsSure
    <3>2. s # job[c].slot
      BY <3>1 DEF Live, Without
    <3>3. Live(s) /\ Dir(s) \in dirs
      BY <1>7, <1>t DEF LiveKeepsDir
    <3>4. Dir(s) # Home(job[c].browser)
      BY <3>1, <3>2, <3>3, <1>t DEF OwnDirs, Live, Dir
    <3> QED BY <3>1, <3>3, <3>4
  <2> QED BY <2>1, <2>2 DEF Lookup, HandOff, Terminate, HideBound
<1>9. EntriesTell' /\ OwnDirs' /\ LiveKeepsDir' /\ Found'
  BY <1>1, <1>2, <1>6, <1>8, TableStaysQuiet
<1> QED BY <1>2, <1>3, <1>4, <1>5, <1>9, QuietGoes

\* While nobody annotates, an entry tells where its browser lives.
LEMMA EntryTells ==
  ASSUME LifecycleInv, EntriesTell, \A d \in Clis : pc[d] # "annotate",
         NEW s \in Slots, reg[s] # NoEntry, Dir(s) \in Profiles
  PROVE  reg[s].profile = Dir(s)
<1>1. reg[s].browser \in Browsers /\ reg[s].profile = bound[reg[s].browser]
  BY EntryOf DEF LifecycleInv, EntriesTell
<1>2. reg[s].browser \notin Profiles
  BY <1>1
<1> QED BY <1>1, <1>2 DEF Dir, Home

\* The steps of a launch before its browser, and of a cleanup.
LEMMA QuietEarly ==
  ASSUME LifecycleInv, QuietInv, quiet, quiet' = quiet, NEW c \in Clis,
         \/ CheckHolder(c) \/ Prune(c) \/ SweepOrphans(c) \/ CheckDelete(c) \/ RemoveTree(c)
  PROVE  QuietInv'
<1>t. /\ TypeOK /\ CommandInv(c) /\ QuietCommand(c) /\ EntriesTell /\ OwnDirs /\ LiveKeepsDir
      /\ job[c].profile \in Profiles \cup {NoProfile}
  BY JobFields DEF LifecycleInv, QuietInv, TypeOK
<1>1. CheckHolder(c) \/ Prune(c) \/ SweepOrphans(c)
  BY <1>t DEF QuietCommand, CheckDelete, RemoveTree
<1>2. pc[c] \in {"holder", "prune", "orphans"} /\ UNCHANGED <<bound, browser, sup>>
  BY <1>1 DEF CheckHolder, Prune, SweepOrphans, procs
<1>3. pc[c] \in Inside /\ \A d \in Clis : pc[d] \notin {"boot", "register", "annotate"}
  BY <1>2, NobodyLaunches DEF Inside, Steps
<1>4. /\ ExitsOnly /\ DropsOnly
      /\ \A s \in Slots : (Live(s) /\ browser'[reg[s].browser] = "running") => reg'[s] = reg[s]
      /\ reg' = reg \/ Prune(c)
  <2>1. CASE Prune(c)
    <3>1. reg' = Without({s \in Slots : Dead(s)})
      BY <2>1 DEF Prune
    <3> QED BY <2>1, <3>1, <1>2 DEF Without, Dead, Live, ExitsOnly, DropsOnly
  <2>2. CASE CheckHolder(c) \/ SweepOrphans(c)
    BY <2>2, <1>2 DEF CheckHolder, SweepOrphans, ExitsOnly, DropsOnly
  <2> QED BY <1>1, <2>1, <2>2
<1>5. \A s \in Slots : Live(s)' => Live(s) /\ reg'[s] = reg[s]
  BY <1>4, <1>t, FewerLive
<1>6. \A s \in Slots : Live(s)' => Dir(s) \in dirs'
  <2> SUFFICES ASSUME NEW s \in Slots, Live(s)' PROVE Dir(s) \in dirs'
    OBVIOUS
  <2>1. Live(s) /\ Dir(s) \in dirs
    BY <1>5, <1>t DEF LiveKeepsDir
  <2>2. CASE CheckHolder(c)
    BY <2>1, <2>2 DEF CheckHolder
  <2>3. CASE Prune(c)
    <3>1. \A t \in Slots : Dead(t) => Dir(t) # Dir(s)
      BY <2>1, <1>t DEF OwnDirs, Dead, Live
    <3>2. dirs' = dirs \ {Dir(t) : t \in {u \in Slots : Dead(u)}}
      BY <2>3 DEF Prune
    <3> QED BY <2>1, <3>1, <3>2
  <2>4. CASE SweepOrphans(c)
    <3>1. Dir(s) \notin Untracked
      BY <2>1 DEF Untracked, Live
    <3>2. PICK misjudged \in SUBSET Untracked : dirs' = dirs \ (misjudged \cup {d \in Untracked : Users(d) = {}})
      BY <2>4 DEF SweepOrphans
    <3> QED BY <2>1, <3>1, <3>2
  <2> QED BY <1>1, <2>2, <2>3, <2>4
<1>7. EntriesTell' /\ OwnDirs' /\ LiveKeepsDir' /\ Found'
  BY <1>2, <1>3, <1>4, <1>6, TableStaysQuiet
<1>8. QuietCommand(c)' /\ \A d \in Clis \ {c} : pc'[d] = pc[d] /\ job'[d] = job[d]
  <2>1. CASE Finish(c)
    BY <2>1, <1>t, Finishes
  <2>2. ASSUME NEW to \in {"prune", "orphans", "spawn"}, Proceed(c, to),
               to = "prune" => \A s \in Slots : (Live(s)' /\ job[c].profile # NoProfile) => Dir(s) # job[c].profile,
               to # "prune" => \A s \in Slots : (reg'[s] # NoEntry /\ job[c].profile # NoProfile
                                                   /\ job[c].verb = "launch") => Dir(s) # job[c].profile
        PROVE  QuietCommand(c)' /\ \A d \in Clis \ {c} : pc'[d] = pc[d] /\ job'[d] = job[d]
    <3>1. job' = job /\ pc'[c] = to /\ \A d \in Clis \ {c} : pc'[d] = pc[d]
      BY <2>2, <1>t, Goes DEF Proceed, Steps
    <3>2. \A s \in Slots : reg'[s] # NoEntry => Dir(s)' = Dir(s)
      BY <1>2, <1>4 DEF DropsOnly, Dir, Home
    <3>3. \A s \in Slots : Live(s)' => reg'[s] # NoEntry
      BY DEF Live
    <3>4. CASE to = "prune"
      BY <2>2, <3>1, <3>2, <3>3, <3>4 DEF QuietCommand
    <3>5. CASE to # "prune"
      BY <2>2, <3>1, <3>2, <3>5 DEF QuietCommand
    <3> QED BY <3>1, <3>4, <3>5
  <2>3. CASE CheckHolder(c)
    <3>1. CASE job[c].profile # NoProfile /\ Holders(job[c].profile) # {}
      BY <2>1, <2>3, <3>1 DEF CheckHolder
    <3>2. CASE job[c].profile = NoProfile \/ Holders(job[c].profile) = {}
      <4>1. Proceed(c, "prune")
        BY <2>3, <3>2 DEF CheckHolder
      <4>2. \A s \in Slots : (Live(s)' /\ job[c].profile # NoProfile) => Dir(s) # job[c].profile
        <5> SUFFICES ASSUME NEW s \in Slots, Live(s)', job[c].profile # NoProfile, Dir(s) = job[c].profile
                     PROVE  FALSE
          OBVIOUS
        <5>1. Live(s) /\ job[c].profile \in Profiles
          BY <1>5, <1>t
        <5>2. reg[s].profile = job[c].profile
          BY <5>1, <1>3, <1>t, EntryTells DEF Live
        <5> QED BY <5>1, <5>2, <3>2 DEF Holders
      <4> QED BY <4>1, <4>2, <2>2
    <3> QED BY <3>1, <3>2
  <2>4. CASE Prune(c)
    <3>1. Proceed(c, "orphans") /\ pc[c] = "prune" /\ reg' = Without({s \in Slots : Dead(s)})
      BY <2>4 DEF Prune
    <3>2. \A s \in Slots : reg'[s] # NoEntry => Live(s)
      BY <3>1 DEF Without, Dead, Live
    <3>3. \A s \in Slots : (reg'[s] # NoEntry /\ job[c].profile # NoProfile /\ job[c].verb = "launch")
                              => Dir(s) # job[c].profile
      BY <3>1, <3>2, <1>t DEF QuietCommand
    <3> QED BY <3>1, <3>3, <2>2
  <2>5. CASE SweepOrphans(c)
    <3>1. pc[c] = "orphans" /\ reg' = reg /\ (Finish(c) \/ Proceed(c, "spawn"))
      BY <2>5 DEF SweepOrphans
    <3>2. \A s \in Slots : (reg'[s] # NoEntry /\ job[c].profile # NoProfile /\ job[c].verb = "launch")
                              => Dir(s) # job[c].profile
      BY <3>1, <1>t DEF QuietCommand
    <3> QED BY <3>1, <3>2, <2>1, <2>2
  <2> QED BY <1>1, <2>3, <2>4, <2>5
<1> QED BY <1>2, <1>3, <1>7, <1>8, QuietGoes

\* Nobody else launches while c does.
LEMMA LaunchesAlone ==
  ASSUME LifecycleInv, NEW c \in Clis, pc[c] \in {"spawn", "boot", "register", "annotate"}
  PROVE  pc[c] \in Inside /\ \A d \in Clis : pc[d] \in {"boot", "register", "annotate"} => d = c
<1>1. pc[c] \in Inside
  BY DEF Inside, Steps
<1>2. ASSUME NEW d \in Clis, pc[d] \in {"boot", "register", "annotate"} PROVE d = c
  <2>1. pc[d] \in Inside
    BY <1>2 DEF Inside, Steps
  <2> QED BY <1>1, <2>1, InsideAlone
<1> QED BY <1>1, <1>2

\* The browser is fresh: no entry is disturbed.
LEMMA QuietSpawn ==
  ASSUME LifecycleInv, QuietInv, quiet, quiet' = quiet, NEW c \in Clis, Spawn(c)
  PROVE  QuietInv'
<1>t. /\ TypeOK /\ OneEntry /\ CommandInv(c) /\ QuietCommand(c) /\ job[c] \in Jobs
      /\ EntriesTell /\ OwnDirs /\ LiveKeepsDir /\ Found
  BY DEF LifecycleInv, QuietInv, TypeOK
<1> DEFINE p == job[c].profile
<1>1. PICK b \in Browsers :
        /\ browser[b] = "unborn" /\ browser' = [browser EXCEPT ![b] = "running"]
        /\ bound' = [bound EXCEPT ![b] = p]
        /\ dirs' = dirs \cup {IF p = NoProfile THEN b ELSE p}
        /\ job' = [job EXCEPT ![c].browser = b]
  BY DEF Spawn
<1>2. /\ pc[c] = "spawn" /\ Goto(c, "boot") /\ UNCHANGED <<reg, sup>>
      /\ p \in Profiles \cup {NoProfile} /\ job[c].verb = "launch"
  BY <1>t, JobFields DEF Spawn, procs, CommandInv, VerbFits
<1>3. /\ pc'[c] = "boot" /\ \A d \in Clis \ {c} : pc'[d] = pc[d]
      /\ job'[c].browser = b /\ job'[c].profile = p /\ \A d \in Clis \ {c} : job'[d] = job[d]
  <2> DEFINE j == [verb |-> job[c].verb, profile |-> job[c].profile, slot |-> job[c].slot, browser |-> b]
  <2>1. job' = [job EXCEPT ![c] = j]
    BY <1>1, <1>t, JobFields
  <2>2. j.browser = b /\ j.profile = job[c].profile
    OBVIOUS
  <2> HIDE DEF j
  <2>3. job'[c] = j /\ \A d \in Clis \ {c} : job'[d] = job[d]
    BY <2>1, <1>t DEF TypeOK
  <2> QED BY <2>2, <2>3, <1>2, <1>t, Goes DEF Steps
<1>4. pc[c] \in Inside /\ \A d \in Clis : pc[d] \notin {"boot", "register", "annotate"}
  BY <1>2, LaunchesAlone
<1>5. /\ bound'[b] = p /\ \A a \in Browsers \ {b} : bound'[a] = bound[a]
      /\ browser'[b] = "running" /\ \A a \in Browsers \ {b} : browser'[a] = browser[a]
      /\ Home(b)' = IF p = NoProfile THEN b ELSE p
  BY <1>1, <1>t DEF TypeOK, Home
<1>6. ASSUME NEW s \in Slots, reg[s] # NoEntry
      PROVE  /\ reg[s].browser \in Browsers \ {b} /\ Dir(s)' = Dir(s)
             /\ bound'[reg[s].browser] = bound[reg[s].browser]
             /\ browser'[reg[s].browser] = browser[reg[s].browser]
  <2>1. reg[s].browser \in Browsers /\ reg[s].browser # b
    BY <1>6, <1>1, <1>t, EntryOf DEF OneEntry
  <2> QED BY <2>1, <1>2, <1>5 DEF Dir, Home
<1>7. \A s \in Slots : reg[s] # NoEntry => Dir(s) # Home(b)'
  <2> SUFFICES ASSUME NEW s \in Slots, reg[s] # NoEntry PROVE Dir(s) # Home(b)'
    OBVIOUS
  <2>1. CASE p = NoProfile
    <3>1. bound[reg[s].browser] \in Profiles \cup {NoProfile} /\ reg[s].browser # b
      BY <1>6, <1>t DEF TypeOK
    <3>2. b \notin Profiles
      OBVIOUS
    <3> QED BY <2>1, <3>1, <3>2, <1>5 DEF Dir, Home
  <2>2. CASE p # NoProfile
    BY <2>2, <1>2, <1>5, <1>t DEF QuietCommand
  <2> QED BY <2>1, <2>2
<1> HIDE DEF p
<1>8. QuietCommand(c)'
  <2>1. Home(b)' \in dirs'
    BY <1>1, <1>5
  <2>2. Home(job[c].browser)' = Home(b)'
    BY <1>3 DEF Home
  <2>3. \A s \in Slots : reg'[s] # NoEntry => Dir(s)' # Home(job[c].browser)'
    BY <1>2, <1>6, <1>7, <2>2
  <2> QED BY <1>3, <1>5, <2>1, <2>2, <2>3 DEF QuietCommand
<1>9. EntriesTell' /\ OwnDirs' /\ LiveKeepsDir'
  BY <1>1, <1>2, <1>4, <1>6, <1>t DEF EntriesTell, OwnDirs, LiveKeepsDir, Live
<1>10. Found'
  BY <1>2, <1>3, <1>4, <1>5, <1>t DEF Found
<1> QED BY <1>2, <1>3, <1>4, <1>8, <1>9, <1>10, QuietGoes

\* The port answers, or the launch gives up.
LEMMA QuietBoot ==
  ASSUME LifecycleInv, QuietInv, quiet, quiet' = quiet, NEW c \in Clis, Boot(c) \/ BootFails(c)
  PROVE  QuietInv'
<1>t. /\ TypeOK /\ CommandInv(c) /\ QuietCommand(c) /\ EntriesTell /\ OwnDirs /\ LiveKeepsDir /\ Found
  BY DEF LifecycleInv, QuietInv
<1>1. pc[c] = "boot" /\ UNCHANGED <<bound, dirs, reg, sup>>
  BY DEF Boot, BootFails, procs
<1>2. pc[c] \in Inside /\ \A d \in Clis : pc[d] \in {"boot", "register", "annotate"} => d = c
  BY <1>1, LaunchesAlone
<1>3. CASE Boot(c)
  <2>1. /\ UNCHANGED <<browser, job>>
        /\ pc'[c] = "register" /\ \A d \in Clis \ {c} : pc'[d] = pc[d]
    BY <1>3, <1>t, Goes DEF Boot, Proceed, Steps
  <2>2. QuietCommand(c)'
    BY <1>1, <2>1, <1>t DEF QuietCommand, Home, Dir
  <2>3. EntriesTell' /\ OwnDirs' /\ LiveKeepsDir'
    BY <1>1, <1>2, <2>1, <1>t DEF EntriesTell, OwnDirs, LiveKeepsDir, Live, Dir, Home
  <2>4. Found'
    BY <1>1, <1>2, <2>1, <1>t DEF Found
  <2> QED BY <1>1, <1>2, <2>1, <2>2, <2>3, <2>4, QuietGoes
<1>4. CASE BootFails(c)
  <2>1. /\ QuietCommand(c)' /\ pc'[c] = "idle"
        /\ \A d \in Clis \ {c} : pc'[d] = pc[d] /\ job'[d] = job[d]
    BY <1>4, <1>t, Finishes DEF BootFails
  <2>2. /\ job[c].browser \in Browsers
        /\ browser' = [browser EXCEPT ![job[c].browser] = "gone"]
        /\ \A s \in Slots : reg[s] # NoEntry => reg[s].browser # job[c].browser
    BY <1>1, <1>4, <1>t DEF BootFails, CommandInv, LaunchIsAlone
  <2>3. \A a \in Browsers : browser'[a] = "running" => a # job[c].browser /\ browser[a] = "running"
    BY <2>2, <1>t DEF TypeOK
  <2>4. EntriesTell' /\ OwnDirs'
    BY <1>1, <1>2, <2>1, <1>t DEF EntriesTell, OwnDirs, Dir, Home
  <2>5. LiveKeepsDir'
    <3> SUFFICES ASSUME NEW s \in Slots, Live(s)' PROVE Dir(s)' \in dirs'
      BY DEF LiveKeepsDir
    <3>1. reg[s].browser \in Browsers /\ reg[s] # NoEntry
      BY <1>1, <1>t, EntryOf DEF Live
    <3>2. Live(s) /\ Dir(s)' = Dir(s)
      BY <1>1, <2>3, <3>1 DEF Live, Dir, Home
    <3> QED BY <1>1, <3>2, <1>t DEF LiveKeepsDir
  <2>6. Found'
    BY <1>1, <1>2, <2>1, <2>3, <1>t DEF Found
  <2> QED BY <1>1, <1>2, <2>1, <2>4, <2>5, <2>6, QuietGoes
<1> QED BY <1>3, <1>4

\* The browser gets its entry.
LEMMA QuietRegister ==
  ASSUME LifecycleInv, QuietInv, quiet, quiet' = quiet, NEW c \in Clis, Register(c)
  PROVE  QuietInv'
<1>t. /\ TypeOK /\ CommandInv(c) /\ QuietCommand(c) /\ job[c] \in Jobs
      /\ EntriesTell /\ OwnDirs /\ LiveKeepsDir /\ Found
  BY DEF LifecycleInv, QuietInv, TypeOK
<1> DEFINE s == FirstFree
           b == job[c].browser
           e == NewEntry(b)
           j == [verb |-> job[c].verb, profile |-> job[c].profile, slot |-> s, browser |-> b]
<1>1. /\ pc[c] = "register" /\ Goto(c, "annotate") /\ UNCHANGED <<browser, bound, dirs, sup>>
  BY DEF Register, procs
<1>2. pc[c] \in Inside /\ \A d \in Clis : pc[d] \in {"boot", "register", "annotate"} => d = c
  BY <1>1, LaunchesAlone
<1>3. s \in Slots /\ reg[s] = NoEntry
  BY <1>1, FreeSlot
<1>4. b \in Browsers /\ e \in Entries /\ e.browser = b /\ e # NoEntry
  BY <1>1, <1>t, EntryMade DEF CommandInv, LaunchIsAlone
<1>5. [job[c] EXCEPT !.slot = s] = j
  BY <1>3, <1>t, JobFields
<1>6. job' = [job EXCEPT ![c] = j] /\ reg' = [reg EXCEPT ![s] = e]
  BY <1>5 DEF Register
<1>7. j.browser = b /\ j.profile = job[c].profile /\ j.slot = s
  OBVIOUS
<1>8. /\ Home(b) \in dirs /\ bound[b] = job[c].profile
      /\ \A t \in Slots : reg[t] # NoEntry => Dir(t) # Home(b)
  BY <1>1, <1>t DEF QuietCommand
<1> HIDE DEF s, e, j
<1>9. job'[c] = j /\ \A d \in Clis \ {c} : job'[d] = job[d]
  BY <1>6, <1>t DEF TypeOK
<1>10. pc'[c] = "annotate" /\ \A d \in Clis \ {c} : pc'[d] = pc[d]
  BY <1>1, <1>t, Goes DEF Steps
<1>11. reg'[s] = e /\ \A t \in Slots : t # s => reg'[t] = reg[t]
  BY <1>3, <1>6, <1>t DEF TypeOK
<1> HIDE DEF b
<1>12. QuietCommand(c)'
  BY <1>1, <1>7, <1>8, <1>9, <1>10 DEF QuietCommand
<1>13. EntriesTell'
  BY <1>1, <1>2, <1>7, <1>9, <1>10, <1>11, <1>t DEF EntriesTell
<1>14. \A t \in Slots : Dir(t)' = IF t = s THEN Home(b) ELSE Dir(t)
  BY <1>1, <1>4, <1>11 DEF Dir, Home
<1>15. OwnDirs'
  BY <1>8, <1>11, <1>14, <1>t DEF OwnDirs
<1>16. LiveKeepsDir'
  BY <1>1, <1>8, <1>11, <1>14, <1>t DEF LiveKeepsDir, Live
<1>17. Found'
  <2> SUFFICES ASSUME NEW a \in Browsers, browser[a] = "running"
               PROVE  \E t \in Slots : reg'[t] # NoEntry /\ reg'[t].browser = a
    BY <1>1 DEF Found
  <2>1. CASE a = b
    BY <2>1, <1>3, <1>4, <1>11
  <2>2. CASE a # b
    <3>1. PICK t \in Slots : reg[t] # NoEntry /\ reg[t].browser = a
      BY <2>2, <1>2, <1>t DEF Found, b
    <3> QED BY <3>1, <1>3, <1>11
  <2> QED BY <2>1, <2>2
<1> QED BY <1>1, <1>2, <1>9, <1>10, <1>12, <1>13, <1>15, <1>16, <1>17, QuietGoes

\* The entry says whose profile it is.
LEMMA QuietAnnotate ==
  ASSUME LifecycleInv, QuietInv, quiet, quiet' = quiet, NEW c \in Clis, Annotate(c)
  PROVE  QuietInv'
<1>t. /\ TypeOK /\ CommandInv(c) /\ QuietCommand(c) /\ job[c] \in Jobs
      /\ EntriesTell /\ OwnDirs /\ LiveKeepsDir /\ Found
      /\ job[c].profile \in Profiles \cup {NoProfile}
  BY JobFields DEF LifecycleInv, QuietInv, TypeOK
<1> DEFINE s == job[c].slot
           e == [browser |-> reg[s].browser, profile |-> job[c].profile, recorded |-> reg[s].recorded]
<1>1. pc[c] = "annotate" /\ Finish(c) /\ UNCHANGED <<browser, bound, dirs, sup>>
  BY DEF Annotate, procs
<1>2. pc[c] \in Inside /\ \A d \in Clis : pc[d] \in {"boot", "register", "annotate"} => d = c
  BY <1>1, LaunchesAlone
<1>3. /\ s \in Slots /\ reg[s] # NoEntry /\ reg[s].browser = job[c].browser
      /\ bound[job[c].browser] = job[c].profile
  BY <1>1, <1>t DEF CommandInv, LaunchIsAlone, QuietCommand
<1>4. reg' = [reg EXCEPT ![s] = e]
  <2>1. reg' = [reg EXCEPT ![s] = [reg[s] EXCEPT !.profile = job[c].profile]]
    BY <1>3 DEF Annotate
  <2>2. [reg[s] EXCEPT !.profile = job[c].profile] = e
    BY <1>3, <1>t, EntryOf, EntryFields
  <2> QED BY <2>1, <2>2
<1>5. e.browser = reg[s].browser /\ e.profile = job[c].profile /\ e \in Entries
  BY <1>3, <1>t, EntryOf, EntryFields, EntryMade
<1>6. QuietCommand(c)' /\ pc'[c] = "idle" /\ \A d \in Clis \ {c} : pc'[d] = pc[d] /\ job'[d] = job[d]
  BY <1>1, <1>t, Finishes
<1> HIDE DEF e
<1>7. reg'[s] = e /\ \A t \in Slots : t # s => reg'[t] = reg[t]
  BY <1>3, <1>4, <1>t DEF TypeOK
<1>8. \A t \in Slots : /\ reg'[t] = NoEntry <=> reg[t] = NoEntry
                       /\ reg'[t] # NoEntry => reg'[t].browser = reg[t].browser /\ Dir(t)' = Dir(t)
  BY <1>1, <1>3, <1>5, <1>7 DEF Dir, Home
<1>9. EntriesTell'
  <2> SUFFICES ASSUME NEW t \in Slots, reg'[t] # NoEntry PROVE reg'[t].profile = bound'[reg'[t].browser]
    BY DEF EntriesTell
  <2>1. CASE t = s
    BY <2>1, <1>1, <1>3, <1>5, <1>7
  <2>2. CASE t # s
    BY <2>2, <1>1, <1>2, <1>7, <1>t DEF EntriesTell
  <2> QED BY <2>1, <2>2
<1>10. OwnDirs' /\ LiveKeepsDir'
  BY <1>1, <1>8, <1>t DEF OwnDirs, LiveKeepsDir, Live
<1>11. Found'
  <2> SUFFICES ASSUME NEW a \in Browsers, browser[a] = "running"
               PROVE  \E t \in Slots : reg'[t] # NoEntry /\ reg'[t].browser = a
    BY <1>1 DEF Found
  <2>1. PICK t \in Slots : reg[t] # NoEntry /\ reg[t].browser = a
    BY <1>1, <1>2, <1>t DEF Found
  <2> QED BY <2>1, <1>8
<1> QED BY <1>1, <1>2, <1>6, <1>9, <1>10, <1>11, QuietGoes

\* A browser exits; nobody watches it.
LEMMA QuietBrowsers ==
  ASSUME LifecycleInv, QuietInv, quiet, quiet' = quiet, NEW b \in Browsers, BrowserStep(b)
  PROVE  QuietInv'
<1>t. /\ TypeOK /\ LiveKeepsDir /\ sup[b] = "none" /\ \A c \in Clis : QuietCommand(c)
  BY DEF LifecycleInv, QuietInv
<1>1. Exit(b)
  BY <1>t DEF BrowserStep, NoticeExit, Retire, Leave, CrashSupervisor
<1>2. /\ browser' = [browser EXCEPT ![b] = "gone"] /\ browser[b] = "running"
      /\ UNCHANGED <<bound, dirs, reg, sup, pc, job>>
  BY <1>1 DEF Exit, procs
<1>3. ExitsOnly /\ DropsOnly
  BY <1>2, <1>t DEF ExitsOnly, DropsOnly, TypeOK
<1>4. \A s \in Slots : Live(s)' => Dir(s) \in dirs'
  BY <1>2, <1>3, <1>t, FewerLive DEF LiveKeepsDir
<1>5. EntriesTell' /\ OwnDirs' /\ LiveKeepsDir' /\ Found'
  BY <1>2, <1>3, <1>4, TableStaysQuiet
<1>6. \A c \in Clis : QuietCommand(c)'
  BY <1>2, <1>3, <1>t, QuietCommandKept
<1> QED BY <1>2, <1>5, <1>6 DEF QuietInv

LEMMA QuietPreserved == LifecycleInv /\ QuietInv /\ [Next]_vars => QuietInv'
<1> SUFFICES ASSUME LifecycleInv, QuietInv, [Next]_vars PROVE QuietInv'
  OBVIOUS
<1>1. CASE UNCHANGED vars
  BY <1>1 DEF vars, QuietInv, EntriesTell, OwnDirs, LiveKeepsDir, Live, Found, QuietCommand, Dir, Home
<1>2. CASE Next
  <2>1. quiet' = quiet
    BY <1>2 DEF Next
  <2>2. CASE ~quiet
    BY <2>1, <2>2 DEF QuietInv
  <2>3. ASSUME quiet, NEW c \in Clis, CliStep(c) PROVE QuietInv'
    <3>1. ~Crash(c)
      BY <2>3 DEF Crash, Kills
    <3>2. pc[c] \notin {"supervise", "record"}
      BY <2>3 DEF QuietInv, QuietCommand
    <3>3. ~Supervise(c) /\ ~SuperviseFails(c) /\ ~Record(c)
      BY <3>2 DEF Supervise, SuperviseFails, Record
    <3> QED BY <2>1, <2>3, <3>1, <3>3, QuietOutside, QuietEarly, QuietSpawn, QuietBoot, QuietRegister,
               QuietAnnotate, QuietStops DEF CliStep
  <2> QED BY <1>2, <2>1, <2>2, <2>3, QuietBrowsers DEF Next
<1> QED BY <1>1, <1>2

LEMMA QuietInvariance == Spec => [](LifecycleInv /\ QuietInv)
<1> QED BY LifecycleStart, QuietStart, LifecyclePreserved, QuietPreserved, PTL DEF Spec

(* In a history in which nothing is killed, no profile is deleted and no     *)
(* browser is headed, whatever exits by itself: what is registered and runs  *)
(* keeps its directory, and what runs is registered or about to be (launch,  *)
(* cleanup_sessions, _remove_entry).                                         *)
THEOREM LiveIsKeptTheorem == Spec => []LiveIsKept
<1>1. LifecycleInv /\ QuietInv => LiveIsKept
  BY DEF LifecycleInv, QuietInv, LiveIsKept
<1> QED BY <1>1, QuietInvariance, PTL

(* And in such a history a profile never has two browsers, not even while    *)
(* the second launch has yet to register (profile_launch_lock,               *)
(* find_profile_holder, launch_browser).                                     *)
THEOREM OneBrowserTheorem == Spec => []OneBrowser
<1>1. ASSUME LifecycleInv, QuietInv, quiet, NEW a \in Browsers, NEW b \in Browsers, a # b,
             browser[a] = "running", browser[b] = "running", bound[a] # NoProfile
      PROVE  bound[a] # bound[b]
  <2> SUFFICES ASSUME bound[a] = bound[b] PROVE FALSE
    OBVIOUS
  <2>1. Home(a) = Home(b)
    BY <1>1 DEF Home
  <2>2. /\ \A s, t \in Slots : (s # t /\ reg[s] # NoEntry /\ reg[t] # NoEntry) => Dir(s) # Dir(t)
        /\ \A c \in Clis : pc[c] \in {"boot", "register"} =>
             \A s \in Slots : reg[s] # NoEntry => Dir(s) # Home(job[c].browser)
        /\ \A c, d \in Clis : (pc[c] \in {"boot", "register"} /\ pc[d] \in {"boot", "register"}) => c = d
        /\ Found
    BY <1>1, LaunchesAlone DEF QuietInv, OwnDirs, QuietCommand
  <2>3. CASE /\ \E s \in Slots : reg[s] # NoEntry /\ reg[s].browser = a
             /\ \E s \in Slots : reg[s] # NoEntry /\ reg[s].browser = b
    BY <2>1, <2>2, <2>3, <1>1 DEF Dir
  <2>4. CASE \/ /\ \E s \in Slots : reg[s] # NoEntry /\ reg[s].browser = a
                /\ \E c \in Clis : job[c].browser = b /\ pc[c] \in {"boot", "register"}
             \/ /\ \E s \in Slots : reg[s] # NoEntry /\ reg[s].browser = b
                /\ \E c \in Clis : job[c].browser = a /\ pc[c] \in {"boot", "register"}
    BY <2>1, <2>2, <2>4, <1>1 DEF Dir
  <2>5. CASE /\ \E c \in Clis : job[c].browser = a /\ pc[c] \in {"boot", "register"}
             /\ \E c \in Clis : job[c].browser = b /\ pc[c] \in {"boot", "register"}
    BY <2>2, <2>5, <1>1
  <2> QED BY <2>2, <2>3, <2>4, <2>5, <1>1 DEF Found
<1>2. LifecycleInv /\ QuietInv => OneBrowser
  BY <1>1 DEF OneBrowser, ProfileExclusive
<1> QED BY <1>2, QuietInvariance, PTL

=============================================================================
