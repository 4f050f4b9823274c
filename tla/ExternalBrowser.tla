------------------------- MODULE ExternalBrowser ------------------------
(* A browser that was named by its address: discovery of a Chrome from    *)
(* the port file of its directory, and the one bounded connection to it.  *)
(* Chrome exits and starts again, and another program takes its port, at  *)
(* any time. A run of Chrome is a number; its browser path is its own.    *)
EXTENDS Naturals

CONSTANT MaxEvents   \* bound: what happens to the port and the file

ASSUME ExternalAssumption == MaxEvents \in Nat

Families == {"v4", "v6"}      \* the loopback addresses a port may be listened on
None == 0
Other == MaxEvents + 2        \* a program that is not the browser
Mute == MaxEvents + 3         \* one that accepts and says nothing
Runs == 1..MaxEvents + 1

VARIABLES
  file,     \* the run that wrote the port file, None if it cannot be read
  at,       \* who listens on the recorded port
  ran,      \* the last run of Chrome
  events,   \* what has happened
  hung,     \* the browser has stopped answering
  via,      \* how it was named: by its directory, or a URL of either scheme
  step,     \* where the client is
  path,     \* the browser path it holds
  proved,   \* who answered the probe of each family with a path, None for nobody
  family,   \* the address it dials
  task,     \* the task of the handshake
  peer,     \* who is at the other end of the connection
  given,    \* the caller was given the connection
  well      \* the verb was answered

hostVars == <<file, at, ran, events, hung>>
extVars == <<hostVars, via, step, path, proved, family, task, peer, given, well>>

ExtTypeOK ==
  /\ file \in Runs \cup {None} /\ at \in [Families -> Runs \cup {None, Other, Mute}]
  /\ ran \in Runs /\ events \in 0..MaxEvents /\ hung \in BOOLEAN
  /\ via \in {"profile", "ws", "http"}
  /\ step \in {"idle", "read", "probe", "found", "refused", "version", "dial", "await",
               "session", "body", "detach", "close", "failed", "answered"}
  /\ path \in Runs \cup {None} /\ proved \in [Families -> Runs \cup {None, Mute}]
  /\ family \in Families /\ task \in {"none", "handshake", "verify", "done", "failed"}
  /\ peer \in Runs \cup {None} /\ given \in BOOLEAN /\ well \in BOOLEAN

(* Chrome has run once, on one of the families. A typed URL names that    *)
(* run, or one that has gone, or a port that something else holds.        *)
ExtInit ==
  /\ ran = 1 /\ events = 0 /\ hung = FALSE /\ file \in {None, 1}
  /\ at \in [Families -> {None, 1, Other, Mute}]
  /\ \A f, g \in Families : at[f] = 1 /\ at[g] = 1 => f = g
  /\ via \in {"profile", "ws", "http"} /\ step = "idle" /\ path = None
  /\ proved = [f \in Families |-> None] /\ family = "v4"
  /\ task = "none" /\ peer = None /\ given = FALSE /\ well = FALSE

------------------------------------------------------------------------
(* The host. Chrome binds the family that is free; a connection ends with *)
(* the run at its other end.                                              *)
Host ==
  /\ events < MaxEvents /\ events' = events + 1
  /\ UNCHANGED <<via, step, path, proved, family, task, given, well>>
ChromeExits(f) ==
  /\ Host /\ at[f] \in Runs /\ at' = [at EXCEPT ![f] = None]
  /\ peer' = None /\ UNCHANGED <<file, ran, hung>>
ChromeStarts(f) ==
  /\ Host /\ at[f] = None /\ \A g \in Families : at[g] \notin Runs
  /\ ran' = ran + 1 /\ hung' = FALSE /\ file' = ran'
  /\ at' \in {at, [at EXCEPT ![f] = ran']}     \* on this port, or on another
  /\ peer' = None
PortIsTaken(f) ==
  /\ Host /\ at[f] = None /\ \E o \in {Other, Mute} : at' = [at EXCEPT ![f] = o]
  /\ UNCHANGED <<file, ran, hung, peer>>
ChromeHangs ==
  /\ Host /\ ~hung /\ hung' = TRUE /\ UNCHANGED <<file, at, ran, peer>>

Silent(who) == who = Mute \/ (hung /\ who \in Runs)
Gone == peer = None

------------------------------------------------------------------------
Client(s) == step' = s
Hold == UNCHANGED hostVars

(* discover_chrome: a directory that Chrome or a policy refuses, a file   *)
(* that is missing or malformed, or the two probes, which run together.   *)
StartsDiscovery ==
  /\ step = "idle" /\ via = "profile" /\ \E s \in {"read", "refused"} : Client(s)
  /\ Hold /\ UNCHANGED <<via, path, proved, family, task, peer, given, well>>
ReadPortFile ==
  /\ step = "read" /\ path' = file
  /\ Client(IF file = None THEN "refused" ELSE "probe")
  /\ Hold /\ UNCHANGED <<via, proved, family, task, peer, given, well>>

(* A probe: what /json/version said is remembered, Mute for nothing said. *)
KnowsThePath(f) ==
  /\ step = "probe" /\ proved[f] = None
  /\ proved' = [proved EXCEPT ![f] = IF at[f] \in Runs /\ ~hung THEN at[f] ELSE Mute]
  /\ Hold /\ UNCHANGED <<via, step, path, family, task, peer, given, well>>

Verified(f) == proved[f] = path

Chosen ==
  /\ step = "probe" /\ \A f \in Families : proved[f] # None
  /\ IF \E f \in Families : Verified(f)
     THEN /\ family' = IF Verified("v4") THEN "v4" ELSE "v6"
          /\ Client("found")
     ELSE Client("refused") /\ UNCHANGED family
  /\ Hold /\ UNCHANGED <<via, path, proved, task, peer, given, well>>

(* An address that was typed: resolve_endpoint_port has checked it. The   *)
(* HTTP form has its browser path still to be read from the peer, and     *)
(* what the peer names is checked by the same rule.                       *)
StartsTyped ==
  /\ step = "idle" /\ via # "profile" /\ \E f \in Families : family' = f
  /\ path' = IF via = "ws" THEN 1 ELSE None
  /\ Client(IF via = "ws" THEN "dial" ELSE "version")
  /\ Hold /\ UNCHANGED <<via, proved, task, peer, given, well>>
ReadVersion ==
  /\ step = "version"
  /\ IF at[family] \in Runs /\ ~hung
     THEN path' = at[family] /\ proved' = [proved EXCEPT ![family] = path'] /\ Client("dial")
     ELSE Client("failed") /\ UNCHANGED <<path, proved>>
  /\ Hold /\ UNCHANGED <<via, family, task, peer, given, well>>

------------------------------------------------------------------------
(* external_browser_connection: the handshake runs in a task of its own.  *)
Connect ==
  /\ step \in {"dial", "found"} /\ Client("await") /\ task' = "handshake"
  /\ Hold /\ UNCHANGED <<via, path, proved, family, peer, given, well>>

(* The task. A Chrome takes the handshake on its own path only, and may   *)
(* ask the person first, who allows it, forbids it, or does not look.     *)
Handshake ==
  /\ task = "handshake" /\ ~Silent(at[family])
  /\ \/ at[family] = path /\ task' = "verify" /\ peer' = path
     \/ task' = "failed" /\ UNCHANGED peer
  /\ Hold /\ UNCHANGED <<via, step, path, proved, family, given, well>>
Verify ==
  /\ task = "verify" /\ (Gone \/ ~hung)
  /\ IF Gone THEN task' = "failed" ELSE task' = "done"
  /\ Hold /\ UNCHANGED <<via, step, path, proved, family, peer, given, well>>

(* The waiter takes the result, or its thirty seconds pass, which may be  *)
(* just when the task has ended.                                          *)
TaskEnds ==
  /\ step = "await" /\ task \in {"done", "failed"}
  /\ given' = (task = "done") /\ Client(IF task = "done" THEN "session" ELSE "close")
  /\ Hold /\ UNCHANGED <<via, path, proved, family, task, peer, well>>
ApprovalTimesOut ==
  /\ step = "await" /\ Client("close")
  /\ Hold /\ UNCHANGED <<via, path, proved, family, task, peer, given, well>>

(* Every command after that is answered, or its connection drops, or its  *)
(* bound passes (ExternalClient.send); the bound of the last one is short *)
(* and nobody asks how it went.                                           *)
(* Fault: a command waits for its answer as long as that takes.           *)
Unbounded == FALSE
Bounded == TRUE
Fails == Gone \/ Bounded
Drive ==
  /\ \/ step = "session" /\ ~Gone /\ ~hung /\ Client("body") /\ UNCHANGED well
     \/ step = "session" /\ Fails /\ Client("close") /\ UNCHANGED well
     \/ step = "body" /\ ~Gone /\ ~hung /\ Client("detach") /\ well' = TRUE
     \/ step = "body" /\ Fails /\ Client("detach") /\ UNCHANGED well
     \/ step = "detach" /\ (~hung \/ Fails) /\ Client("close") /\ UNCHANGED well
  /\ Hold /\ UNCHANGED <<via, path, proved, family, task, peer, given>>

(* The end: the task is cancelled if it runs, and what it has opened is   *)
(* closed, whether or not the caller was given it.                        *)

(* Fault: only a connection that the caller was given is closed.          *)
ClosesWhatItGave == given
ClosesWhatIsOpen == given \/ task = "done"

Close ==
  /\ step = "close" /\ Client(IF well THEN "answered" ELSE "failed")
  /\ peer' = IF ClosesWhatIsOpen \/ task # "done" THEN None ELSE peer
  /\ task' = IF task \in {"handshake", "verify"} THEN "failed" ELSE task
  /\ Hold /\ UNCHANGED <<via, path, proved, family, given, well>>

ExtStep ==
  \/ ReadPortFile \/ Chosen \/ ReadVersion \/ Handshake \/ Verify \/ TaskEnds
  \/ ApprovalTimesOut \/ Drive \/ Close
  \/ \E f \in Families : KnowsThePath(f)
HostStep ==
  \/ ChromeHangs
  \/ \E f \in Families : ChromeExits(f) \/ ChromeStarts(f) \/ PortIsTaken(f)

------------------------------------------------------------------------
(* A browser that was named by its directory is dialled where it has      *)
(* shown that it wrote the port file, and nowhere else (discover_chrome). *)
DialsOnlyTheWriter ==
  via = "profile" /\ task # "none" => path \in Runs /\ proved[family] = path

(* A connection to a browser that the tool does not own is closed when    *)
(* the verb ends, also one that was made as its time ran out              *)
(* (external_browser_connection).                                         *)
LeavesNoConnection == step \in {"failed", "answered"} => Gone /\ task \in {"none", "done", "failed"}
=======================================================================
