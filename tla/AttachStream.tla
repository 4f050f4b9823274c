--------------------------- MODULE AttachStream -------------------------
(* attach: a stream of events until its input ends, a signal, or its      *)
(* browser goes. The stream of a registered instance also watches its     *)
(* socket and polls the registry; the one of an endpoint does not.        *)
EXTENDS Naturals, FiniteSets

CONSTANTS
  StreamEvents,   \* the events of one domain
  MaxCommands,    \* bound: lines on its standard input
  Strikes         \* adverse polls in a row that end a stream

ASSUME StreamAssumption == MaxCommands \in Nat /\ Strikes \in Nat /\ Strikes > 1

VARIABLES
  by,           \* how the browser was named: "registry" or "endpoint"
  at,           \* where the stream is
  todo,         \* the events it was started with and has not subscribed to
  graceful,     \* the signal handlers are installed
  entry,        \* the registry: "listed", "retired", "unreadable"
  browser,      \* the browser: "ours", "blip", "gone"
  socket,       \* its connection: "up", "wedged", "dropped"
  stdin,        \* "open", "eof" or "unwatchable"
  signalled,    \* SIGTERM or SIGINT has come
  strikes,      \* adverse polls in a row
  lastPoll,     \* the last poll was adverse
  named,        \* the events that have a handler in the table
  callbacks,    \* how many callbacks the client has for each
  twice,        \* events subscribed to again while subscribed
  commands      \* lines read

streamVars == <<by, at, todo, graceful, entry, browser, socket, stdin, signalled, strikes,
                lastPoll, named, callbacks, twice, commands>>
world == <<entry, browser, socket, stdin, signalled>>
table == <<named, callbacks, twice>>

StreamTypeOK ==
  /\ by \in {"registry", "endpoint"} /\ at \in {"subscribing", "ready", "detaching", "killed", "over"}
  /\ todo \subseteq StreamEvents /\ named \subseteq StreamEvents /\ twice \subseteq StreamEvents
  /\ callbacks \in [StreamEvents -> 0..MaxCommands + 1] /\ strikes \in 0..Strikes
  /\ entry \in {"listed", "retired", "unreadable"} /\ browser \in {"ours", "blip", "gone"}
  /\ socket \in {"up", "wedged", "dropped"} /\ stdin \in {"open", "eof", "unwatchable"}
  /\ {graceful, signalled, lastPoll} \subseteq BOOLEAN /\ commands \in 0..MaxCommands

StreamInit ==
  /\ by \in {"registry", "endpoint"} /\ at = "subscribing"
  /\ todo \in SUBSET StreamEvents \ {{}} /\ graceful = FALSE
  /\ entry = "listed" /\ browser = "ours" /\ socket = "up" /\ signalled = FALSE /\ strikes = 0 /\ lastPoll = FALSE
  /\ stdin \in {"open", "unwatchable"} /\ named = {} /\ twice = {} /\ commands = 0
  /\ callbacks = [e \in StreamEvents |-> 0]

------------------------------------------------------------------------
(* A second subscription replaces the handler in the table and leaves the *)
(* first one registered.                                                  *)
Subscribe(e) ==
  /\ callbacks' = [callbacks EXCEPT ![e] = @ + 1] /\ named' = named \union {e}
  /\ twice' = IF e \in named THEN twice \union {e} ELSE twice

Off(n) == IF n = 0 THEN 0 ELSE n - 1

Unsubscribe(e) ==
  /\ named' = named \ {e}
  /\ callbacks' = IF e \in named THEN [callbacks EXCEPT ![e] = Off(@)] ELSE callbacks
  /\ UNCHANGED twice

(* The first of a domain's events enables it, which a lost connection     *)
(* turns into an error that ends the stream.                              *)
SubscribeFirst ==
  /\ at = "subscribing" /\ todo # {}
  /\ \/ socket = "up" /\ \E e \in todo : Subscribe(e) /\ todo' = todo \ {e} /\ UNCHANGED at
     \/ socket = "dropped" /\ at' = "over" /\ UNCHANGED <<todo, table>>
  /\ UNCHANGED <<by, graceful, world, strikes, lastPoll, commands>>

(* The handlers of the signals are in place before the ready line.        *)
Installed == TRUE

Ready ==
  /\ at = "subscribing" /\ todo = {} /\ at' = "ready" /\ graceful' = Installed
  /\ UNCHANGED <<by, todo, world, strikes, lastPoll, table, commands>>

(* One line of its input. An input that cannot be watched only keeps the  *)
(* external stream waiting; the registered one does not ask.              *)
ReadLine ==
  /\ at = "ready" /\ stdin = "open" /\ commands < MaxCommands /\ commands' = commands + 1
  /\ \E e \in StreamEvents : Subscribe(e) \/ Unsubscribe(e)
  /\ UNCHANGED <<by, at, todo, graceful, world, strikes, lastPoll>>

Leaves == at' = "detaching" /\ UNCHANGED <<by, todo, graceful, world, table, commands>>

InputEnds == at = "ready" /\ stdin = "eof" /\ Leaves /\ UNCHANGED <<strikes, lastPoll>>
SignalEnds == at = "ready" /\ signalled /\ graceful /\ Leaves /\ UNCHANGED <<strikes, lastPoll>>

(* The receive task of the client is watched, through a shield.           *)
DropEnds == at = "ready" /\ by = "registry" /\ socket = "dropped" /\ Leaves /\ UNCHANGED <<strikes, lastPoll>>

(* A registry that cannot be read is no verdict; a browser that does not  *)
(* answer is one, whether it is gone or only slow.                        *)
Adverse == entry = "retired" \/ browser # "ours"

Poll ==
  /\ at = "ready" /\ by = "registry"
  /\ lastPoll' = Adverse
  /\ strikes' = IF Adverse THEN strikes + 1 ELSE 0
  /\ IF Adverse /\ strikes + 1 = Strikes THEN Leaves
     ELSE UNCHANGED <<by, at, todo, graceful, world, table, commands>>

(* The detach is bounded, so a wedged connection does not hold it.        *)
Detaches ==
  /\ at = "detaching" /\ at' = "over" /\ callbacks' = [e \in StreamEvents |-> 0]
  /\ named' = {}
  /\ UNCHANGED <<by, todo, graceful, world, strikes, lastPoll, twice, commands>>

StreamStep ==
  \/ SubscribeFirst \/ Ready \/ ReadLine \/ InputEnds \/ SignalEnds \/ DropEnds \/ Poll \/ Detaches

------------------------------------------------------------------------
(* The world. A blip of the port, like a torn read, may end at any time.  *)
Happens ==
  /\ at \in {"subscribing", "ready"}
  /\ \/ entry = "listed" /\ entry' \in {"retired", "unreadable"} /\ UNCHANGED <<browser, socket, stdin>>
     \/ entry = "unreadable" /\ entry' = "listed" /\ UNCHANGED <<browser, socket, stdin>>
     \/ browser = "ours" /\ browser' \in {"blip", "gone"} /\ UNCHANGED <<entry, socket, stdin>>
     \/ browser = "blip" /\ browser' = "ours" /\ UNCHANGED <<entry, socket, stdin>>
     \/ socket = "up" /\ socket' \in {"wedged", "dropped"} /\ UNCHANGED <<entry, browser, stdin>>
     \/ stdin = "open" /\ stdin' = "eof" /\ UNCHANGED <<entry, browser, socket>>
  /\ UNCHANGED <<by, at, todo, graceful, signalled, strikes, lastPoll, table, commands>>

Signal ==
  /\ at \in {"subscribing", "ready"} /\ ~signalled /\ signalled' = TRUE
  /\ at' = IF graceful THEN at ELSE "killed"
  /\ UNCHANGED <<by, todo, graceful, entry, browser, socket, stdin, strikes, lastPoll, table, commands>>

StreamNext == StreamStep \/ Happens \/ Signal

------------------------------------------------------------------------
(* A supervisor that read the ready line gets the graceful end, whenever  *)
(* it signals (run_attach, phase 7).                                      *)
ReadyIsGraceful == at = "ready" => graceful

(* An event that was unsubscribed is silent: no callback of it is left on *)
(* the client, unless it had been subscribed to twice (_unsubscribe).     *)
Silenced == \A e \in StreamEvents \ (named \union twice) : callbacks[e] = 0

(* One blip does not end a stream: the poll that does was adverse, and so *)
(* was the one before it (liveness_loop).                                 *)
OneBlipIsForgiven ==
  [][at = "ready" /\ at' = "detaching" /\ strikes' # strikes => Adverse /\ lastPoll]_streamVars

(* A stream does not outlive its purpose: one of an instance ends when    *)
(* the instance was retired, its browser or its connection has gone; and  *)
(* every stream ends on a signal and at the end of its input (run_attach).*)
Purpose ==
  /\ ~signalled /\ stdin # "eof"
  /\ by = "registry" => entry # "retired" /\ browser # "gone" /\ socket # "dropped"
OutlivesNothing == []<>(at # "ready" \/ Purpose)
=======================================================================
