-------------------------- MODULE FrameContexts --------------------------
(* The script contexts of a page with one iframe, which Chrome may move   *)
(* to a renderer of its own and back. A context id means something in one *)
(* renderer only, and what the verbs know of the contexts is what the     *)
(* connection has delivered so far.                                       *)
(*                                                                        *)
(* Session 0 is the page's. The events of a session come in order; the    *)
(* death of a context may be told late, since the renderer that loses it  *)
(* is not the one that gains the frame.                                   *)
EXTENDS Naturals, Sequences, FiniteSets, SequencesExt

CONSTANTS MaxRenderers,   \* renderers of its own that the iframe gets
          MaxMoves,       \* what Chrome does to the frames
          MaxWire         \* events that are under way at a time

ASSUME RenderersAssumption == MaxRenderers \in Nat

Processes == 0..MaxRenderers
Top == "top"
Kid == "kid"
None == "none"
Gone == MaxRenderers + 1

VARIABLES
  allFrames,  \* --frames all
  home,       \* the renderer of the iframe, or Gone
  contexts,   \* the live contexts
  dying,      \* those that have died untold
  given,      \* the ids each renderer has given out
  inFlight,       \* what the connection has yet to deliver
  moves,
  tracked,      \* FrameManager._frames: who answers, and the default context
  filed,      \* _execution_contexts
  setup,      \* what the setup task of each session does
  chosen,     \* the frame the selection's pattern matches
  selected,   \* _selected_frame_id
  ran         \* where the last script was meant to run, and where it did

chrome == <<home, contexts, dying, given, moves>>
client == <<tracked, filed, setup, selected>>
contextVars == <<allFrames, chrome, inFlight, client, chosen, ran>>

Context(f, r, id, default) == [frame |-> f, by |-> r, id |-> id, default |-> default]

ContextInit ==
  /\ allFrames \in BOOLEAN /\ home = 0
  /\ contexts = {Context(Top, 0, 1, TRUE), Context(Kid, 0, 2, TRUE)} /\ dying = {}
  /\ given = [r \in Processes |-> IF r = 0 THEN 2 ELSE 0]
  /\ inFlight = <<>> /\ moves = 0
  /\ tracked = [f \in {Top, Kid} |-> [by |-> 0, ctx |-> IF f = Top THEN 1 ELSE 2]]
  /\ filed = {<<0, 1, Top>>, <<0, 2, Kid>>}
  /\ setup = [r \in Processes |-> IF r = 0 THEN "on" ELSE "none"]
  /\ chosen = None /\ selected = None /\ ran = <<>>

Keeps == UNCHANGED <<allFrames, chosen, ran>>

------------------------------------------------------------------------
(* Chrome. *)

Created(c) == [ev |-> "created", c |-> c]
Destroyed(c) == [ev |-> "destroyed", c |-> c]
On(ev, r) == [ev |-> ev, of |-> r]

\* Sends what the client listens to: the contexts of a session that has
\* asked for them, and the targets of an invocation that follows them.
Heard(e) == CASE e.ev \in {"created", "destroyed"} -> setup[e.c.by] = "on"
              [] e.ev = "cleared" -> setup[e.of] = "on"
              [] e.ev \in {"attached", "detached"} -> allFrames
              [] OTHER -> TRUE
Tells(e) == IF Heard(e) THEN <<e>> ELSE <<>>
Emit(events) == inFlight' = inFlight \o events /\ Len(inFlight') <= MaxWire

Moves == moves < MaxMoves /\ moves' = moves + 1 /\ UNCHANGED client /\ Keeps

Of(f) == {c \in contexts : c.frame = f}
NextId(r) == given[r] + 1
Replaces(gone, f, r) ==
  /\ contexts' = (contexts \ gone) \union {Context(f, r, NextId(r), TRUE)}
  /\ given' = [given EXCEPT ![r] = @ + 1]
New(f, r) == Created(Context(f, r, NextId(r), TRUE))
Lost(cs) == [i \in 1..Cardinality(cs) |-> Destroyed(SetToSeq(cs)[i])]

TopReloads ==
  /\ Moves /\ Replaces(contexts, Top, 0) /\ home' = Gone /\ UNCHANGED dying
  /\ Emit(Tells(On("cleared", 0)) \o (IF home \in Processes \ {0} THEN Tells(On("detached", home)) ELSE <<>>)
          \o Tells(On("navigated", Top)) \o Tells(New(Top, 0)))

\* The frame is the whole of its own renderer, but a part of the page's,
\* whose session always listens.
KidReloads ==
  /\ home # Gone /\ Moves /\ Replaces(Of(Kid), Kid, home) /\ UNCHANGED <<home, dying>>
  /\ Emit(IF home = 0 THEN Lost(Of(Kid)) \o Tells(On("navigated", Kid)) \o Tells(New(Kid, 0))
          ELSE Tells(On("cleared", home)) \o Tells(New(Kid, home)))

\* The page's session may report the frame that left as detached.
MovesOut(r) ==
  /\ home = 0 /\ given[r] = 0 /\ (r > 1 => given[r - 1] > 0)
  /\ Moves /\ Replaces(Of(Kid), Kid, r) /\ home' = r /\ dying' = dying \union Of(Kid)
  /\ LET attached == Tells(On("attached", r))
         swapped == Tells(On("swapped", Kid))
     IN Emit(attached) \/ Emit(attached \o swapped) \/ Emit(swapped \o attached)

MovesBack ==
  /\ home \in Processes \ {0} /\ Moves /\ Replaces(Of(Kid), Kid, 0) /\ home' = 0 /\ UNCHANGED dying
  /\ LET navigated == Tells(On("navigated", Kid))
         detached == Tells(On("detached", home))
         created == Tells(New(Kid, 0))
     IN \/ Emit(detached \o navigated \o created) \/ Emit(navigated \o detached \o created)
        \/ Emit(navigated \o created \o detached)

\* A world of its own for a script, such as the sign-in's.
WorldAdded(f) ==
  /\ Of(f) # {} /\ UNCHANGED <<home, dying>> /\ Moves
  /\ LET r == (CHOOSE c \in Of(f) : TRUE).by
         c == Context(f, r, NextId(r), FALSE)
     IN contexts' = contexts \union {c} /\ given' = [given EXCEPT ![r] = @ + 1] /\ Emit(Tells(Created(c)))

DeathIsTold ==
  \E c \in dying : /\ dying' = dying \ {c} /\ Emit(Tells(Destroyed(c)))
                   /\ UNCHANGED <<home, contexts, given, moves, client>> /\ Keeps

------------------------------------------------------------------------
(* The handlers, on the receive loop. *)

Listed == DOMAIN tracked
Without(f) == [g \in Listed \ {f} |-> tracked[g]]
Resolve(map) == selected' = IF chosen \in DOMAIN map THEN chosen ELSE None
Holding(f, id) == [tracked EXCEPT ![f].ctx = id]

Takes(ev) ==
  /\ inFlight # <<>> /\ Head(inFlight).ev = ev
  /\ UNCHANGED chrome /\ Keeps

Consumes == inFlight' = Tail(inFlight)

handle_execution_context_created ==
  /\ Takes("created") /\ Consumes
  /\ LET c == Head(inFlight).c
     IN /\ filed' = {x \in filed : <<x[1], x[2]>> # <<c.by, c.id>>} \union {<<c.by, c.id, c.frame>>}
        /\ tracked' = IF c.default /\ c.frame \in Listed THEN Holding(c.frame, c.id) ELSE tracked
  /\ UNCHANGED <<setup, selected>>

handle_execution_context_destroyed ==
  /\ Takes("destroyed") /\ Consumes
  /\ LET c == Head(inFlight).c
         was == {x \in filed : <<x[1], x[2]>> = <<c.by, c.id>>}
         holds == {x \in was : x[3] \in Listed /\ tracked[x[3]] = [by |-> c.by, ctx |-> c.id]}
     IN /\ filed' = filed \ was
        /\ tracked' = [f \in Listed |-> IF \E x \in holds : x[3] = f THEN [tracked[f] EXCEPT !.ctx = 0] ELSE tracked[f]]
  /\ UNCHANGED <<setup, selected>>

handle_execution_contexts_cleared ==
  /\ Takes("cleared") /\ Consumes
  /\ LET r == Head(inFlight).of
     IN /\ filed' = {x \in filed : x[1] # r}
        /\ tracked' = [f \in Listed |-> IF tracked[f].by = r THEN [tracked[f] EXCEPT !.ctx = 0] ELSE tracked[f]]
  /\ UNCHANGED <<setup, selected>>

handle_frame_navigated ==
  /\ Takes("navigated") /\ Consumes
  /\ tracked' = IF Head(inFlight).of = Top THEN Without(Kid)
                ELSE IF Kid \in Listed THEN tracked
                ELSE [f \in {Top, Kid} |-> IF f = Kid THEN [by |-> 0, ctx |-> 0] ELSE tracked[Top]]
  /\ Resolve(tracked') /\ UNCHANGED <<filed, setup>>

handle_frame_detached ==
  /\ Takes("swapped") /\ Consumes /\ tracked' = Without(Kid)
  /\ selected' = (IF selected = Kid THEN None ELSE selected) /\ UNCHANGED <<filed, setup>>

------------------------------------------------------------------------
(* The setup of a session: read its tree, splice it, then ask for its     *)
(* contexts. Chrome's answers come behind what it has sent.               *)

Asks(r, events) == IF home = r THEN events ELSE <<On("failed", r)>>

Attached ==
  /\ Takes("attached")
  /\ LET r == Head(inFlight).of
     IN setup' = [setup EXCEPT ![r] = "reading"] /\ inFlight' = Tail(inFlight) \o Asks(r, <<On("tree", r)>>)
  /\ UNCHANGED <<tracked, filed, selected>>

TreeRead ==
  /\ Takes("tree") /\ Consumes
  /\ LET r == Head(inFlight).of IN setup' = [setup EXCEPT ![r] = IF @ = "reading" THEN "read" ELSE @]
  /\ UNCHANGED <<tracked, filed, selected>>

\* The task goes on, unless its session has gone.
Spliced(r) ==
  /\ setup[r] = "read"
  /\ tracked' = [f \in {Top, Kid} |-> IF f = Kid THEN [by |-> r, ctx |-> 0] ELSE tracked[Top]]
  /\ setup' = [setup EXCEPT ![r] = "on"]
  /\ LET replayed == SetToSeq({c \in contexts : c.by = r})
     IN inFlight' = inFlight \o Asks(r, [i \in 1..Len(replayed) |-> Created(replayed[i])])
  /\ UNCHANGED <<chrome, filed, selected>> /\ Keeps

SessionDropped ==
  /\ Takes("detached") \/ Takes("failed")
  /\ Consumes
  /\ LET r == Head(inFlight).of
     IN /\ setup' = [setup EXCEPT ![r] = "over"]
        /\ tracked' = IF Kid \in Listed /\ tracked[Kid].by = r THEN Without(Kid) ELSE tracked
  /\ Resolve(tracked') /\ UNCHANGED filed

------------------------------------------------------------------------
(* The verbs of the run. *)

select_frame(f) ==
  /\ chosen' = f /\ selected' = (IF f \in Listed THEN f ELSE None)
  /\ UNCHANGED <<allFrames, chrome, inFlight, tracked, filed, setup, ran>>

reset_frame ==
  /\ chosen' = None /\ selected' = None
  /\ UNCHANGED <<allFrames, chrome, inFlight, tracked, filed, setup, ran>>

get_selected_context == <<tracked[selected].by, tracked[selected].ctx>>

\* A script on the selected frame, a read of its storage among them. It is
\* refused when the frame holds no context, and fails when that is gone.
RunScript ==
  /\ IF chosen = None
     THEN \E c \in Of(Top) : c.default /\ ran' = <<Top, c>>
     ELSE /\ selected # None /\ tracked[selected].ctx # 0
          /\ \E c \in contexts : <<c.by, c.id>> = get_selected_context /\ ran' = <<selected, c>>
  /\ UNCHANGED <<allFrames, chrome, inFlight, client, chosen>>

------------------------------------------------------------------------
ContextNext ==
  \/ TopReloads \/ KidReloads \/ MovesBack \/ DeathIsTold
  \/ \E r \in Processes \ {0} : MovesOut(r) \/ Spliced(r)
  \/ \E f \in {Top, Kid} : WorldAdded(f) \/ select_frame(f)
  \/ handle_execution_context_created \/ handle_execution_context_destroyed
  \/ handle_execution_contexts_cleared \/ handle_frame_navigated \/ handle_frame_detached
  \/ Attached \/ TreeRead \/ SessionDropped
  \/ reset_frame \/ RunScript

(* A script runs in the frame that was selected and in its own world, not *)
(* in whatever frame of another renderer has a context of that number     *)
(* (get_selected_context, client_for_session).                            *)
ScriptRunsInItsFrame ==
  ran # <<>> => ran[2].frame = ran[1] /\ ran[2].default

AtRest == inFlight = <<>> /\ dying = {} /\ \A r \in Processes : setup[r] # "read"

(* Once everything has been heard, a listed frame holds the context it    *)
(* lives in, and none that has died: no event of one renderer was applied *)
(* to a frame of another (handle_execution_context_created, _destroyed,   *)
(* _contexts_cleared).                                                    *)
ContextIsHeld ==
  AtRest => \A f \in Listed :
    LET live == {c \in Of(f) : c.default /\ c.by = tracked[f].by}
    IN tracked[f].ctx = IF live = {} THEN 0 ELSE (CHOOSE c \in live : TRUE).id
=======================================================================
