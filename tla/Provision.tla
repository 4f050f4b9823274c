---------------------------- MODULE Provision ---------------------------
(* Two things the tool puts on disk for other programs to run. The        *)
(* registration of the 1Password helper is published whole or not at all  *)
(* and never over another one; the engine of the trace insights is set up *)
(* under a lock that its users share.                                     *)
EXTENDS Naturals

CONSTANT MaxEdits   \* bound: what others do to the registration, and who dies

VARIABLES
  source,   \* the official registration, and its helper
  target,   \* what the profile has under the registration's name
  staged,   \* the staging file
  launch,   \* where the launch is that provisions
  wrote,    \* something that was there was replaced by the launch
  edits,    \* what others have done
  user,     \* where each user of the engine is
  mode,     \* what it wants: to set it up, or to run it
  tree,     \* the packages of the engine that are there
  marker,   \* the marker of a finished setup is there
  broke     \* a run of the engine found packages missing

regVars == <<source, target, staged, launch, wrote>>
engineVars == <<user, mode, tree, marker, broke>>
provisionVars == <<regVars, edits, engineVars>>

Users == {1, 2, 3}
Packages == {"engine", "parser"}

ProvisionInit ==
  /\ source \in {"official", "missing", "unsigned"} /\ staged = "none" /\ wrote = FALSE
  /\ target \in {"none", "canonical", "link", "other"} /\ launch = "idle" /\ edits = 0
  /\ user = [u \in Users |-> "idle"] /\ mode = [u \in Users |-> IF u = 3 THEN "run" ELSE "setup"]
  /\ tree \in {{}, {"engine"}, Packages} /\ marker \in BOOLEAN /\ (marker => tree = Packages)
  /\ broke = FALSE

------------------------------------------------------------------------
(* The registration. The official one is read and its helper's signature  *)
(* checked; then what is there already is looked at.                      *)
At(s) == launch' = s
ValidatedSource ==
  /\ launch = "idle" /\ At(IF source = "official" THEN "valid" ELSE "refused")
  /\ UNCHANGED <<source, target, staged, wrote, edits, engineVars>>
LooksAtTarget ==
  /\ launch = "valid" /\ At(IF target = "none" THEN "stage" ELSE "accept")
  /\ UNCHANGED <<source, target, staged, wrote, edits, engineVars>>
StagesManifest ==
  /\ launch \in {"stage", "sync"}
  /\ staged' = IF launch = "stage" THEN "cut" ELSE "canonical"
  /\ At(IF launch = "stage" THEN "sync" ELSE "link")
  /\ UNCHANGED <<source, target, wrote, edits, engineVars>>

(* link refuses a name that exists; the staging file goes either way.     *)
Taken == target # "none"
WriteManifest ==
  /\ launch = "link"
  /\ IF Taken THEN At("accept") /\ UNCHANGED target
     ELSE At("provisioned") /\ target' = staged
  /\ wrote' = (wrote \/ (target # "none" /\ target' # target))
  /\ staged' = "none" /\ UNCHANGED <<source, edits, engineVars>>

(* What is there is accepted if it says just what would have been written, *)
(* or is the direct link to the official file.                            *)
AcceptExisting ==
  /\ launch = "accept"
  /\ At(IF target = "canonical" \/ (target = "link" /\ source = "official")
        THEN "provisioned" ELSE "refused")
  /\ UNCHANGED <<source, target, staged, wrote, edits, engineVars>>

Edits == edits < MaxEdits /\ edits' = edits + 1
OthersRegister ==
  /\ Edits /\ target' \in {"none", "other", "link"} \ {target}
  /\ UNCHANGED <<source, staged, launch, wrote, engineVars>>
LaunchDies ==
  /\ Edits /\ launch \notin {"idle", "provisioned", "refused"} /\ At("refused")
  /\ UNCHANGED <<source, target, staged, wrote, engineVars>>

------------------------------------------------------------------------
(* The engine. Setup holds the lock alone, a run of it shares the lock.   *)
Inside == {"decide", "stamp", "install", "check", "running"}
Excludes(u, v) == "setup" \in {mode[u], mode[v]}
MayEnter(u) == \A v \in Users \ {u} : user[v] \in Inside => ~Excludes(u, v)
Sets(u, s) == user' = [user EXCEPT ![u] = s]

Ready == marker /\ tree = Packages
Begins(u) ==
  /\ user[u] = "idle" /\ Sets(u, IF mode[u] = "run" /\ ~Ready THEN "failed" ELSE "waits")
  /\ UNCHANGED <<regVars, edits, mode, tree, marker, broke>>
Enters(u) ==
  /\ user[u] = "waits" /\ MayEnter(u) /\ Sets(u, "decide")
  /\ UNCHANGED <<regVars, edits, mode, tree, marker, broke>>

(* setup: what is whole is only stamped; else the marker goes first, and   *)
(* npm ci takes everything away before it installs.                       *)
Decides(u) ==
  /\ user[u] = "decide" /\ mode[u] = "setup"
  /\ IF Ready THEN Sets(u, "done") /\ UNCHANGED <<tree, marker>>
     ELSE IF ~marker /\ tree = Packages THEN Sets(u, "stamp") /\ UNCHANGED <<tree, marker>>
     ELSE Sets(u, "install") /\ marker' = FALSE /\ tree' = {}
  /\ UNCHANGED <<regVars, edits, mode, broke>>
Installs(u) ==
  /\ user[u] = "install"
  /\ IF tree = Packages THEN Sets(u, "check") /\ UNCHANGED tree
     ELSE \/ \E p \in Packages \ tree : tree' = tree \cup {p} /\ UNCHANGED user
          \/ Sets(u, "failed") /\ UNCHANGED tree
  /\ UNCHANGED <<regVars, edits, mode, marker, broke>>
DependenciesMatch(u) ==
  /\ user[u] = "check" /\ Sets(u, IF tree = Packages THEN "stamp" ELSE "failed")
  /\ UNCHANGED <<regVars, edits, mode, tree, marker, broke>>
Stamps(u) ==
  /\ user[u] = "stamp" /\ Sets(u, "done") /\ marker' = TRUE
  /\ UNCHANGED <<regVars, edits, mode, tree, broke>>

(* analyze looks before it takes the lock and again when it has it.       *)
Analyzes(u) ==
  /\ user[u] = "decide" /\ mode[u] = "run" /\ Sets(u, IF Ready THEN "running" ELSE "failed")
  /\ UNCHANGED <<regVars, edits, mode, tree, marker, broke>>
Reads(u) ==
  /\ user[u] = "running" /\ Sets(u, "done") /\ broke' = (broke \/ tree # Packages)
  /\ UNCHANGED <<regVars, edits, mode, tree, marker>>

(* A setup that dies takes its npm with it.                               *)
UserDies(u) ==
  /\ Edits /\ user[u] \in Inside /\ Sets(u, "idle")
  /\ UNCHANGED <<regVars, mode, tree, marker, broke>>

RegistrationStep ==
  ValidatedSource \/ LooksAtTarget \/ StagesManifest \/ WriteManifest \/ AcceptExisting
EngineStep ==
  \E u \in Users : Begins(u) \/ Enters(u) \/ Decides(u) \/ Installs(u) \/ DependenciesMatch(u) \/ Stamps(u)
                   \/ Analyzes(u) \/ Reads(u) \/ UserDies(u)

------------------------------------------------------------------------
(* What somebody else has registered is never replaced, and nobody ever   *)
(* sees a registration that is cut short (_write_manifest).               *)
KeepsRegistrations == ~wrote /\ target # "cut"

(* A run of the engine never finds packages missing, though it was set up *)
(* again, or a setup died, at any time (setup, analyze, _locked).         *)
EngineIsWhole == ~broke
=======================================================================
