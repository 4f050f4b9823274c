--------------------------- MODULE CdpRuntime ---------------------------
(* CDPRuntime over its client: a background thread connects, subscribes,   *)
(* enables, reads the frame tree and the contexts, and then waits to be    *)
(* stopped; the caller polls it, submits verbs to its loop one after       *)
(* another, and stops it. The page goes on making and destroying           *)
(* execution contexts all the while.                                       *)
EXTENDS CdpClient

CONSTANTS
  Verbs,         \* the verbs of the invocation, in order
  AllFrames,     \* --frames all: frame sessions are looked for
  Contexts,      \* execution contexts the page may make
  MaxChanges     \* bound: contexts made or destroyed after the start

Setup == {"page", "tree", "runtime"}
ASSUME RuntimeAssumption ==
  /\ Verbs \in Seq(Cmds) /\ AllFrames \in BOOLEAN /\ MaxChanges \in Nat
  /\ Cmds = Setup \union {"frames", "detach"} \union ToSet(Verbs)
  /\ Bounded = Setup \union ToSet(Verbs)
  /\ (Setup \union {"frames", "detach"}) \intersect ToSet(Verbs) = {}
  /\ IsInjective(Verbs)
  /\ IsFiniteSet(Contexts)

VARIABLES
  thread,        \* where the background thread is
  client,        \* _cdp_client: "none", "up", and "closed" once disconnected
  failed,        \* connect_error is set
  ready,         \* _ready
  stop,          \* _stop_event
  subs,          \* the event groups subscribed to
  tree,          \* the frame is in the frame manager
  known,         \* the contexts it has filed for the frame
  live,          \* the page's contexts
  replayed,      \* Chrome has executed Runtime.enable
  caller,        \* where the calling thread is
  step,          \* the verb it is at
  changes        \* contexts made or destroyed

view == <<subs, tree, known>>
page == <<live, replayed, changes>>
body == <<caller, step>>
vars == <<clientVars, thread, client, failed, ready, stop, view, page, body>>

(* What the receive loop reads: answers, and events about contexts.       *)
Messages == [kind : {"result", "error"}, of : Cmds] \union [kind : {"made", "gone"}, of : Contexts]

TypeOK ==
  /\ ClientTypeOK /\ inbox \in Seq(Messages)
  /\ thread \in {"new", "open", "page", "tree", "runtime", "frames", "wait",
                 "detach", "close", "closing", "finished"}
  /\ client \in {"none", "up", "closed"}
  /\ {failed, ready, stop, tree, replayed} \subseteq BOOLEAN
  /\ subs \subseteq {"page", "runtime"} /\ known \subseteq Contexts /\ live \subseteq Contexts
  /\ caller \in {"poll", "between", "waiting", "leaving", "done", "unreached"}
  /\ step \in 1..Len(Verbs) + 1 /\ changes \in 0..MaxChanges

Init ==
  /\ ClientInit /\ thread = "new" /\ client = "none"
  /\ failed = FALSE /\ ready = FALSE /\ stop = FALSE
  /\ subs = {} /\ tree = FALSE /\ known = {}
  /\ live \in SUBSET Contexts /\ replayed = FALSE
  /\ caller = "poll" /\ step = 1 /\ changes = 0

Connected == client = "up" /\ connected

(* available                                                              *)
Available == Connected /\ ready

------------------------------------------------------------------------
(* The thread. _connect_cdp assigns the client before anything else.      *)
ConnectFails ==
  /\ thread = "new" /\ thread' = "wait" /\ failed' = TRUE /\ ready' = TRUE
  /\ UNCHANGED <<clientVars, client, stop, view, page, body>>

OpenSession ==
  /\ thread = "new" /\ Connect
  /\ client' = "up" /\ thread' = "page"
  /\ UNCHANGED <<failed, ready, stop, view, page, body>>

(* The subscriptions each command of the setup comes after.               *)
Subscribed(c) ==
  CASE c = "page" -> {"page"} [] c = "runtime" -> {"page", "runtime"} [] OTHER -> subs

SendSetup ==
  /\ thread \in Setup /\ Send(thread)
  /\ subs' = Subscribed(thread)
  /\ UNCHANGED <<thread, client, failed, ready, stop, tree, known, page, body>>

(* Fault: the tree is read after the replay, which clears it.             *)
AfterSetupSwapped(c) ==
  CASE c = "page" -> "runtime" [] c = "runtime" -> "tree" [] c = "tree" -> IF AllFrames THEN "frames" ELSE "wait"
AfterSetup(c) ==
  CASE c = "page" -> "tree" [] c = "tree" -> "runtime"
    [] c = "runtime" -> IF AllFrames THEN "frames" ELSE "wait"

SetupAnswered ==
  /\ thread \in Setup /\ call[thread] = "result"
  /\ thread' = AfterSetup(thread)
  /\ IF thread = "tree" THEN tree' = TRUE /\ known' = {} ELSE UNCHANGED <<tree, known>>
  /\ ready' = (thread' = "wait")
  /\ UNCHANGED <<clientVars, client, failed, stop, subs, page, body>>

SetupFails ==
  /\ thread \in Setup /\ call[thread] \in Over \ {"result"}
  /\ client' = "none" /\ failed' = TRUE /\ ready' = TRUE /\ thread' = "wait"
  /\ UNCHANGED <<clientVars, stop, view, page, body>>

(* Frame sessions: unbounded, and a failure leaves the page session as it *)
(* is.                                                                    *)
SendFrames ==
  /\ thread = "frames" /\ Send("frames")
  /\ UNCHANGED <<thread, client, failed, ready, stop, view, page, body>>
FramesSettled ==
  /\ thread = "frames" /\ call["frames"] \in Over
  /\ thread' = "wait" /\ ready' = TRUE
  /\ UNCHANGED <<clientVars, client, failed, stop, view, page, body>>

(* Teardown: the adapter refuses, the session is detached, the connection *)
(* closed, and the receive task waited for.                               *)
StartTeardown ==
  /\ thread = "wait" /\ stop
  /\ client' = IF client = "up" THEN "closed" ELSE client
  /\ thread' = IF socket = "none" THEN "finished" ELSE "detach"
  /\ UNCHANGED <<clientVars, failed, ready, stop, view, page, body>>
SendDetach ==
  /\ thread = "detach" /\ Send("detach")
  /\ UNCHANGED <<thread, client, failed, ready, stop, view, page, body>>
Detached ==
  /\ thread = "detach" /\ call["detach"] \in Over /\ thread' = "close"
  /\ UNCHANGED <<clientVars, client, failed, ready, stop, view, page, body>>
CloseConnection ==
  /\ thread = "close" /\ Close /\ thread' = "closing"
  /\ UNCHANGED <<client, failed, ready, stop, view, page, body>>
Finished ==
  /\ thread = "closing" /\ recv = "ended" /\ thread' = "finished"
  /\ UNCHANGED <<clientVars, client, failed, ready, stop, view, page, body>>

------------------------------------------------------------------------
(* The events of the frame manager that the view is made of.              *)
Filed(e) ==
  IF "runtime" \in subs /\ tree
  THEN IF e.kind = "made" THEN known \union {e.of} ELSE known \ {e.of}
  ELSE known

HandleEvent ==
  /\ ReceiveEvent /\ known' = Filed(Head(inbox))
  /\ UNCHANGED <<thread, client, failed, ready, stop, subs, tree, page, body>>

ClientRuns ==
  /\ \/ \E c \in Cmds : Written(c) \/ WriteFails(c) \/ WriteCancelled(c) \/ Resume(c)
                        \/ Abandon(c, "timer")
     \/ ReceiveAnswer \/ LoopEnds
  /\ UNCHANGED <<thread, client, failed, ready, stop, view, page, body>>

ClientBreaks ==
  /\ CallbackRaises \/ SocketDrops
  /\ UNCHANGED <<thread, client, failed, ready, stop, view, page, body>>

(* Chrome replays the contexts that exist before it answers the enable.   *)
Replay == LET q == SetToSeq(live) IN [i \in DOMAIN q |-> [kind |-> "made", of |-> q[i]]]

ChromeAnswers(c) ==
  /\ \/ ChromeSays(c, "error", <<>>) /\ UNCHANGED replayed
     \/ ChromeSays(c, "result", IF c = "runtime" THEN Replay ELSE <<>>)
        /\ replayed' = (replayed \/ c = "runtime")
  /\ UNCHANGED <<thread, client, failed, ready, stop, view, live, changes, body>>

PageChanges(x) ==
  /\ changes < MaxChanges /\ changes' = changes + 1
  /\ live' = IF x \in live THEN live \ {x} ELSE live \union {x}
  /\ IF replayed /\ socket = "open"
     THEN ChromeEmits([kind |-> IF x \in live THEN "gone" ELSE "made", of |-> x])
     ELSE UNCHANGED clientVars
  /\ UNCHANGED <<thread, client, failed, ready, stop, view, replayed, body>>

------------------------------------------------------------------------
(* The caller: it polls, runs its verbs on the loop, and stops it.        *)
SeesReady ==
  /\ caller = "poll" /\ Available /\ caller' = "between"
  /\ UNCHANGED <<clientVars, thread, client, failed, ready, stop, view, page, step>>

(* The reason is read, or the deadline of the poll passes.                *)
StopRuntime == stop' = (stop \/ thread # "new")
GivesUpConnecting ==
  /\ caller = "poll" /\ caller' = "unreached" /\ StopRuntime
  /\ UNCHANGED <<clientVars, thread, client, failed, ready, view, page, step>>

(* submit: the session is required, and the coroutine goes to the loop.   *)
SubmitVerb ==
  /\ caller = "between" /\ step <= Len(Verbs)
  /\ IF Available THEN Send(Verbs[step]) /\ caller' = "waiting"
     ELSE caller' = "leaving" /\ UNCHANGED clientVars
  /\ UNCHANGED <<thread, client, failed, ready, stop, view, page, step>>

VerbAnswered ==
  /\ caller = "waiting" /\ call[Verbs[step]] \in Over
  /\ caller' = "between" /\ step' = step + 1
  /\ UNCHANGED <<clientVars, thread, client, failed, ready, stop, view, page>>

(* The wait is over before the coroutine is: it is cancelled, and the     *)
(* next verb may come before it has been.                                 *)
Unwind(c) == IF give[c] = "none" THEN Abandon(c, "cancel") ELSE UNCHANGED clientVars
SubmitTimesOut ==
  /\ caller = "waiting" /\ call[Verbs[step]] \notin Over
  /\ Unwind(Verbs[step])
  /\ caller' = "between" /\ step' = step + 1
  /\ UNCHANGED <<thread, client, failed, ready, stop, view, page>>

LeavesSession ==
  /\ \/ caller = "between" /\ step > Len(Verbs)
     \/ caller = "leaving"
  /\ StopRuntime /\ caller' = "done"
  /\ UNCHANGED <<clientVars, thread, client, failed, ready, view, page, step>>

------------------------------------------------------------------------
ThreadStep == ConnectFails \/ OpenSession \/ SendSetup \/ SetupAnswered \/ SetupFails
              \/ SendFrames \/ FramesSettled \/ StartTeardown \/ SendDetach \/ Detached
              \/ CloseConnection \/ Finished
CallerStep == SeesReady \/ GivesUpConnecting \/ SubmitVerb \/ VerbAnswered
              \/ SubmitTimesOut \/ LeavesSession
ChromeStep == (\E c \in Cmds : ChromeAnswers(c)) \/ \E x \in Contexts : PageChanges(x)

Next == ThreadStep \/ CallerStep \/ HandleEvent \/ ClientRuns \/ ClientBreaks \/ ChromeStep

(* The loop runs what is ready, its timers fire and its writes end; the   *)
(* caller goes on. Chrome owes no answer, the page no event, and a verb   *)
(* whose caller gave no bound is not given up.                            *)
Fairness ==
  /\ WF_vars(ThreadStep \/ HandleEvent \/ ClientRuns) 
  /\ WF_vars(SeesReady \/ GivesUpConnecting \/ SubmitVerb \/ VerbAnswered \/ LeavesSession)
Spec == Init /\ [][Next]_vars /\ Fairness

------------------------------------------------------------------------
(* The contexts a view of k comes to when the events in s have been       *)
(* handled: of the events about a context only the last one counts.       *)
About(m, x) == ~IsAnswer(m) /\ m.of = x
LeftBy(k, s) ==
  {x \in Contexts :
     \/ x \in k /\ \A i \in DOMAIN s : ~About(s[i], x)
     \/ \E i \in DOMAIN s : /\ About(s[i], x) /\ s[i].kind = "made"
                            /\ \A j \in DOMAIN s : j > i => ~About(s[j], x)}
Reaches == LeftBy(known, inbox)

(* A verb starts on a whole map, never on however much of it the setup    *)
(* has built: what the frame manager has filed, and the events on their   *)
(* way to it, are the contexts the page has (CDPRuntime.available, and    *)
(* the subscribe-first order of _connect_cdp).                            *)
VerbSeesWholeMap ==
  caller \in {"between", "waiting"} /\ recv = "running" /\ socket = "open"
     => Reaches = live

(* A thread that has finished leaves nothing of the connection: the       *)
(* socket is closed, the receive task over, and no entry registered.      *)
FinishedLeavesNothing ==
  thread = "finished" => socket \in {"none", "closed"} /\ recv # "running" /\ pending = {}

(* Work given up does not go on beside the next verb: a verb whose wait   *)
(* ended early has its cancellation on the way.                           *)
AbandonedIsCancelled ==
  \A i \in 1..step - 1 : call[Verbs[i]] \notin Over => give[Verbs[i]] # "none"

(* A command comes to one end only: it never waits on a loop that is      *)
(* gone, and an answer that comes after it was given up finds its entry   *)
(* retired and harms nothing (CDPClient.send, _receive_loop).             *)
CallsSettle == NoWaiterOnDeadLoop /\ LateAnswerIsHarmless /\ GivenUpIsRetired

(* A verb starts only on a whole map of frames and contexts, a caller     *)
(* that gave up has its verb cancelled, and an ended runtime leaves no    *)
(* loop or socket behind (CDPRuntime.start, submit, stop).                *)
VerbsSeeTheMap == TypeOK /\ VerbSeesWholeMap /\ FinishedLeavesNothing /\ AbandonedIsCancelled

(* Every invocation ends, whether Chrome answers or not.                  *)
CallerEnds == <>(caller \in {"done", "unreached"})

(* Nobody waits for ever: a command with a bound ends whatever becomes of *)
(* the connection, and any command ends with it.                          *)
NobodyWaits ==
  <>[](\A c \in Cmds : c \in Bounded \/ socket = "closed" => call[c] # "waiting")
=======================================================================
