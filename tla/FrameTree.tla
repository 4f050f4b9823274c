------------------------------ MODULE FrameTree ------------------------------
(***************************************************************************)
(* `--frames all': the one frame tree of an invocation and the CDP         *)
(* sessions, one per out-of-process frame, whose trees are spliced into    *)
(* it.  Handlers run on the receive loop and setup runs as a task per      *)
(* session, so a step is what one of them does between two awaits.         *)
(*                                                                         *)
(* Chrome sends lifecycle events of the frames in any order, since some    *)
(* are in flight when a session ends.  Parents[f] are the frames a frame f *)
(* can be attached under; a frame that has a target of its own keeps its   *)
(* parent, and its frame id is its target id.  URLs are left out: which    *)
(* listed frame matches the pattern of a selection, if any, is a choice.   *)
(*                                                                         *)
(* MaxAttaches bounds the sessions Chrome attaches; MaxSessions, MaxSetup  *)
(* and MaxDepth are the code's MAX_SESSIONS, MAX_CONCURRENT_SETUP and      *)
(* MAX_DEPTH.                                                              *)
(***************************************************************************)
EXTENDS Naturals, FiniteSets, Functions, TLC

CONSTANTS Frames, Root, NoFrame,
          Parents,            \* [Frames -> SUBSET Frames]
          OutOfProcess,       \* the frames that may get their own target
          Page,               \* the page session
          NoTree,
          MaxAttaches, MaxSessions, MaxSetup, MaxDepth

Sids == 1..MaxAttaches

ASSUME FrameAssumption ==
  /\ IsFiniteSet(Frames) /\ Root \in Frames /\ NoFrame \notin Frames
  /\ Parents \in [Frames -> SUBSET Frames] /\ Parents[Root] = {}
  /\ OutOfProcess \subseteq Frames \ {Root}
  /\ \A f \in OutOfProcess : Cardinality(Parents[f]) = 1
  /\ Page \notin Sids
  /\ {MaxAttaches, MaxSessions, MaxSetup, MaxDepth} \subseteq Nat

VARIABLES map,         \* FrameManager._frames: a partial function
          sel,         \* _selected_frame_id
          pattern,     \* is _selected_url_pattern set?
          live,        \* FrameSessions._sessions
          target,      \* the target of each session
          task,        \* what its setup task does
          pending,     \* the tree it holds
          ready,       \* sessions that are set up
          unreachable, \* _unreachable
          ended,       \* sessions Chrome has ended
          stage        \* of the invocation

selection == <<sel, pattern>>
sessions == <<live, target, task, pending, ready, unreachable, ended>>
vars == <<map, selection, sessions, stage>>

Tasks == {"none", "queued", "reading", "enabling", "attaching", "done"}
InSetup == {"reading", "enabling", "attaching"}
-----------------------------------------------------------------------------
(* Trees.  Closure(S, Succ) is what Succ leads to from the frames S. *)

Closure(S, Succ(_)) ==
  LET reach[n \in 0..Cardinality(Frames)] ==
        IF n = 0 THEN S
        ELSE reach[n - 1] \cup UNION {Succ(g) : g \in reach[n - 1]}
  IN  reach[Cardinality(Frames)]

\* The descendants of f, by parent_frame_id.
Below(m, f) ==
  LET Held(g) == {h \in DOMAIN m : m[h].up = g}
  IN  Closure(Held(f), Held)

\* What `frames list' walks: children, from the root.
Listed(m) ==
  LET Kids(g) == m[g].kids \cap DOMAIN m
  IN  Closure({Root} \cap DOMAIN m, Kids)

Above(m, f) ==
  LET Parent(g) == {m[g].up} \cap DOMAIN m
  IN  Closure(Parent(f), Parent)

\* Frames that lie inside f whatever happens.
Inside(f) ==
  LET Kids(g) == {h \in Frames : Parents[h] = {g}}
  IN  Closure(Kids(f), Kids)

\* A tree of f, as Page.getFrameTree answers it, is the parent of each frame
\* below f.
Trees == [f \in Frames |->
  {t \in UNION {[S -> Frames] : S \in SUBSET (Frames \ {f, Root})} :
     /\ f # Root => DOMAIN t \subseteq Inside(f)
     /\ \A g \in DOMAIN t : t[g] \in Parents[g] \cap (DOMAIN t \cup {f})
     /\ LET Kids(g) == {h \in DOMAIN t : t[h] = g}
        IN  DOMAIN t \subseteq Closure({f}, Kids)}]

Tree(f, up, t, session) ==
  [g \in DOMAIN t \cup {f} |->
     [up |-> IF g = f THEN up ELSE t[g],
      kids |-> {h \in DOMAIN t : t[h] = g},
      by |-> session]]

FromFrameTree(t) == Tree(Root, NoFrame, t, Page)

Remove(m, S) == Restrict(m, DOMAIN m \ S)

Unlink(m, f) == [g \in DOMAIN m |-> [m[g] EXCEPT !.kids = @ \ {f}]]

Add(m, tree, up, f) == [tree @@ m EXCEPT ![up].kids = @ \cup {f}]

\* The old subtree of f goes, and the new one hangs from `up'.
Splice(m, f, up, t, session) ==
  Add(Unlink(Remove(m, Below(m, f) \cup {f}), f),
      Tree(f, up, t, session), up, f)

Owned(m, s) == {f \in DOMAIN m : m[f].by = s}

\* Frames removed together leave the selection without its frame.
Deselect(S) == IF sel \in S THEN NoFrame ELSE sel

Reresolve(m, old) == IF pattern THEN sel' \in Listed(m) \cup {NoFrame}
                     ELSE sel' = old
-----------------------------------------------------------------------------
Init == /\ \E t \in Trees[Root] : map = FromFrameTree(t)
        /\ sel = NoFrame /\ pattern = FALSE
        /\ live = {} /\ ready = {} /\ unreachable = {} /\ ended = {}
        /\ target = [s \in Sids |-> NoFrame]
        /\ task = [s \in Sids |-> "none"]
        /\ pending = [s \in Sids |-> NoTree]
        /\ stage = "discovering"

\* resplice_pending runs to its end without an await.
LoopRuns == stage # "settling"
-----------------------------------------------------------------------------
(* Page events, on the page session *)

\* handle_frame_attached: a parent that is not in the map, or is below the
\* frame, leaves nothing to hang it from.  The selection is not resolved again.
FrameAttached(f, p) ==
  /\ LoopRuns
  /\ IF p \notin DOMAIN map \/ p = f \/ p \in Below(map, f)
     THEN /\ map' = Unlink(Remove(map, Below(map, f) \cup {f}), f)
          /\ sel' = Deselect(Below(map, f) \cup {f})
     ELSE /\ map' = Splice(map, f, p, <<>>, Page)
          /\ sel' = Deselect(Below(map, f))
  /\ UNCHANGED <<pattern, sessions, stage>>

\* Fault: the frames inside the detached one stay.
DetachedAlone(f) ==
  /\ LoopRuns
  /\ map' = Unlink(Remove(map, {f}), f)
  /\ sel' = Deselect({f})
  /\ UNCHANGED <<pattern, sessions, stage>>

\* The reason, "swap" or "remove", makes no difference.
FrameDetached(f) ==
  /\ LoopRuns
  /\ map' = Unlink(Remove(map, Below(map, f) \cup {f}), f)
  /\ sel' = Deselect(Below(map, f) \cup {f})
  /\ UNCHANGED <<pattern, sessions, stage>>

\* A navigation destroys what is below f ...
FrameNavigated(f) ==
  /\ LoopRuns
  /\ f \in DOMAIN map
  /\ map' = [Remove(map, Below(map, f)) EXCEPT ![f].kids = {}]
  /\ Reresolve(map', Deselect(Below(map, f)))
  /\ UNCHANGED <<pattern, sessions, stage>>

\* ... and creates f when it was not attached before, if its parent is known.
NavigatedFirst(f, p) ==
  /\ LoopRuns
  /\ f \notin DOMAIN map /\ p \in DOMAIN map
  /\ map' = Add(map, Tree(f, p, <<>>, Page), p, f)
  /\ Reresolve(map', sel)
  /\ UNCHANGED <<pattern, sessions, stage>>

\* handle_navigated_within_document: only the URL changes.
RouteChanged(f) ==
  /\ LoopRuns
  /\ f \in DOMAIN map
  /\ Reresolve(map, sel)
  /\ UNCHANGED <<map, pattern, sessions, stage>>
-----------------------------------------------------------------------------
(* The caller: the invocation starts once discovery has settled. *)

Select == /\ stage = "running"
          /\ pattern' = TRUE
          /\ sel' \in Listed(map) \cup {NoFrame}
          /\ UNCHANGED <<map, sessions, stage>>

Reset == /\ stage = "running"
         /\ pattern' = FALSE
         /\ sel' = NoFrame
         /\ UNCHANGED <<map, sessions, stage>>

\* `frames list' finds nothing and reads the page session's tree again.
Refresh == /\ stage = "running"
           /\ Listed(map) = {}
           /\ \E t \in Trees[Root] : map' = FromFrameTree(t)
           /\ UNCHANGED <<selection, sessions, stage>>
-----------------------------------------------------------------------------
(* Frame sessions: attach and detach *)

Attached == {s \in Sids : task[s] # "none"} \ ended

\* Chrome gives a frame one target at a time, reports those inside a session
\* that asked for them, and moves a frame to its own process only after what
\* was inside it has gone.
MayAttach(s, f) ==
  /\ task[s] = "none" /\ \A r \in 1..(s - 1) : task[r] # "none"
  /\ \A r \in Attached :
       /\ target[r] # f /\ target[r] \notin Inside(f)
       /\ f \in Inside(target[r]) => task[r] = "attaching" \/ r \in ready

\* _admit, past the check for a duplicate.
Admit(s, f) ==
  IF Cardinality(live) >= MaxSessions
  THEN /\ unreachable' = unreachable \cup {f}
       /\ task' = [task EXCEPT ![s] = "done"]
       /\ UNCHANGED live
  ELSE /\ live' = live \cup {s}
       /\ task' = [task EXCEPT ![s] = "queued"]
       /\ UNCHANGED unreachable

HasTarget(f) == \E s \in live : target[s] = f

TargetAttached(s, f) ==
  /\ LoopRuns
  /\ MayAttach(s, f)
  /\ target' = [target EXCEPT ![s] = f]
  /\ IF HasTarget(f)
     THEN /\ task' = [task EXCEPT ![s] = "done"]
          /\ UNCHANGED <<live, unreachable>>
     ELSE Admit(s, f)
  /\ UNCHANGED <<map, selection, pending, ready, ended, stage>>

\* The sessions below s whose target is a frame that s still answers for.
Orphans(m, s) == {r \in live \ {s} : target[r] \in Owned(m, s)}

\* What drop leaves of the map m and of the sessions.  An orphan owns no frame
\* (OwnsItsTarget), so that dropping it changes nothing else.
Doomed(m, s) == Owned(m, s) \cup UNION {Below(m, f) : f \in Owned(m, s)}

Forgotten(m, s) ==
  LET left == Remove(m, Doomed(m, s))
  IN  [g \in DOMAIN left |-> [left[g] EXCEPT !.kids = @ \ Doomed(m, s)]]

Drop(m, s) ==
  LET dropped == {s} \cup Orphans(m, s)
  IN  /\ live' = live \ dropped
      /\ pending' = [r \in Sids |-> IF r \in dropped THEN NoTree ELSE pending[r]]
      /\ ready' = ready \ dropped
      /\ map' = Forgotten(m, s)
      /\ Reresolve(map', Deselect(Doomed(m, s)))
      /\ UNCHANGED pattern

DropsUnreachable(m, s) == {target[r] : r \in {s} \cup Orphans(m, s)}

\* Chrome ends s and the sessions inside it; only the event of s is certain.
TargetDetached(s) ==
  /\ LoopRuns
  /\ s \in Attached
  /\ ended' = ended \cup {r \in Attached : target[r] \in {target[s]} \cup Inside(target[s])}
  /\ IF s \in live
     THEN /\ Drop(map, s)
          /\ unreachable' = unreachable \ DropsUnreachable(map, s)
     ELSE UNCHANGED <<map, selection, live, pending, ready, unreachable>>
  /\ UNCHANGED <<target, task, stage>>
-----------------------------------------------------------------------------
(* Frame sessions: setup *)

TaskTo(s, step) == task' = [task EXCEPT ![s] = step]

Busy == {s \in Sids : task[s] \in InSetup}

TakeSlot(s) ==
  /\ LoopRuns
  /\ task[s] = "queued"
  /\ Cardinality(Busy) < MaxSetup
  /\ TaskTo(s, "reading")
  /\ UNCHANGED <<map, selection, live, target, pending, ready, unreachable, ended, stage>>

\* Fault: the frame is recorded before the drop clears it.
AbandonRecordsFirst(m, s) ==
  /\ IF s \in live THEN /\ Drop(m, s)
                        /\ unreachable' = (unreachable \cup {target[s]}) \ DropsUnreachable(m, s)
     ELSE /\ map' = m
          /\ UNCHANGED <<selection, live, pending, ready>>
          /\ unreachable' = unreachable \cup {target[s]}
  /\ TaskTo(s, "done")

\* _abandon, from the map m: drop, then list the frame.
Abandon(m, s) ==
  /\ IF s \in live THEN /\ Drop(m, s)
                        /\ unreachable' = (unreachable \ DropsUnreachable(m, s)) \cup {target[s]}
     ELSE /\ map' = m
          /\ UNCHANGED <<selection, live, pending, ready>>
          /\ unreachable' = unreachable \cup {target[s]}
  /\ TaskTo(s, "done")

\* A command fails, or the five seconds are over.
SetupFails(s) ==
  /\ LoopRuns
  /\ task[s] \in InSetup
  /\ Abandon(map, s)
  /\ UNCHANGED <<target, ended, stage>>

\* Fault: what arrives is applied.
StaleNever(s) == FALSE

\* A completion whose session has gone is discarded.
Stale(s) == s \notin live

StaleAnswer(s) ==
  /\ LoopRuns
  /\ task[s] \in {"reading", "enabling"}
  /\ Stale(s)
  /\ TaskTo(s, "done")
  /\ UNCHANGED <<map, selection, live, target, pending, ready, unreachable, ended, stage>>

Depth(m, f) == Cardinality(Above(m, f))

\* Page.getFrameTree answers, and the parent is in the map: splice, unless
\* that shows the frame to be too deep.
TreeSpliced(s, t) ==
  /\ LoopRuns
  /\ ~Stale(s)
  /\ \E up \in Parents[target[s]] \cap DOMAIN map :
       LET spliced == Splice(map, target[s], up, t, s)
       IN  IF Depth(spliced, target[s]) > MaxDepth
           THEN Abandon(spliced, s)
           ELSE /\ map' = spliced
                /\ sel' = Deselect(Below(map, target[s]))
                /\ TaskTo(s, "enabling")
                /\ UNCHANGED <<pattern, live, pending, ready, unreachable>>
  /\ UNCHANGED <<target, ended, stage>>

\* The parent is not there yet, and the tree is held.
TreeHeld(s, t) ==
  /\ LoopRuns
  /\ ~Stale(s)
  /\ Parents[target[s]] \cap DOMAIN map = {}
  /\ pending' = [pending EXCEPT ![s] = t]
  /\ TaskTo(s, "enabling")
  /\ UNCHANGED <<map, selection, live, target, ready, unreachable, ended, stage>>

RuntimeEnabled(s) ==
  /\ LoopRuns
  /\ task[s] = "enabling" /\ ~Stale(s)
  /\ TaskTo(s, "attaching")
  /\ UNCHANGED <<map, selection, live, target, pending, ready, unreachable, ended, stage>>

\* setAutoAttach and its barrier are answered.  Nothing is checked after them.
SetUp(s) ==
  /\ LoopRuns
  /\ task[s] = "attaching"
  /\ TaskTo(s, "done")
  /\ ready' = ready \cup ({s} \cap live)
  /\ UNCHANGED <<map, selection, live, target, pending, unreachable, ended, stage>>
-----------------------------------------------------------------------------
(* settle: every task has ended or three seconds are over, and the held    *)
(* trees are tried once, to a fixpoint.                                    *)

Settle == /\ stage = "discovering"
          /\ stage' = "settling"
          /\ UNCHANGED <<map, selection, sessions>>

Spliceable(s) == /\ s \in live /\ pending[s] # NoTree
                 /\ Parents[target[s]] \subseteq DOMAIN map

ResplicePending(s) ==
  /\ stage = "settling"
  /\ Spliceable(s)
  /\ \E up \in Parents[target[s]] : map' = Splice(map, target[s], up, pending[s], s)
  /\ sel' = Deselect(Below(map, target[s]))
  /\ pending' = [pending EXCEPT ![s] = NoTree]
  /\ UNCHANGED <<pattern, live, target, task, ready, unreachable, ended, stage>>

Settled == /\ stage = "settling"
           /\ \A s \in Sids : ~Spliceable(s)
           /\ stage' = "running"
           /\ UNCHANGED <<map, selection, sessions>>
-----------------------------------------------------------------------------
SetupStep(s) == \/ TakeSlot(s) \/ SetupFails(s) \/ StaleAnswer(s)
                \/ RuntimeEnabled(s) \/ SetUp(s)
                \/ /\ task[s] = "reading"
                   /\ \E t \in Trees[target[s]] : TreeSpliced(s, t) \/ TreeHeld(s, t)

Next == \/ \E f \in Frames : \/ FrameDetached(f) \/ FrameNavigated(f) \/ RouteChanged(f)
                             \/ \E p \in Parents[f] : FrameAttached(f, p) \/ NavigatedFirst(f, p)
        \/ Select \/ Reset \/ Refresh
        \/ \E s \in Sids : \/ \E f \in OutOfProcess : TargetAttached(s, f)
                           \/ TargetDetached(s)
                           \/ SetupStep(s)
                           \/ ResplicePending(s)
        \/ Settle \/ Settled

Spec == Init /\ [][Next]_vars
-----------------------------------------------------------------------------
(* Properties *)

\* Each variable has its type, and no bound of frame_sessions.py is exceeded.
TypeOK ==
  /\ DOMAIN map \subseteq Frames
  /\ \A f \in DOMAIN map : map[f] \in [up : Frames \cup {NoFrame}, kids : SUBSET Frames,
                                        by : Sids \cup {Page}]
  /\ sel \in Frames \cup {NoFrame} /\ pattern \in BOOLEAN
  /\ target \in [Sids -> OutOfProcess \cup {NoFrame}]
  /\ task \in [Sids -> Tasks]
  /\ \A s \in Sids : pending[s] # NoTree => pending[s] \in Trees[target[s]]
  /\ ready \subseteq live /\ live \subseteq Sids /\ ended \subseteq Sids
  /\ unreachable \subseteq OutOfProcess
  /\ stage \in {"discovering", "settling", "running"}
  /\ Cardinality(live) <= MaxSessions
  /\ Cardinality(Busy) <= MaxSetup

\* The two representations of the tree agree (_reachable_frames): what the map
\* holds is what `frames list' walks, each frame under the one parent it names.
TreeAgrees ==
  /\ Listed(map) = DOMAIN map
  /\ \A f \in DOMAIN map \ {Root} : map[f].up \in DOMAIN map /\ f \in map[map[f].up].kids
  /\ \A f \in DOMAIN map : \A g \in map[f].kids : g \in DOMAIN map /\ map[g].up = f

\* A completion whose session has gone does not bring its frames back: a frame
\* is answered by the page or by a session that still exists.
AnsweredByLive == \A f \in DOMAIN map : map[f].by \in live \cup {Page}

\* The frames of a session hang below the frame that is its target, so that
\* forgetting the session takes out one subtree.
OwnsItsTarget ==
  \A f \in DOMAIN map : map[f].by # Page =>
    /\ target[map[f].by] \in DOMAIN map
    /\ map[target[map[f].by]].by = map[f].by
    /\ f \in {target[map[f].by]} \cup Below(map, target[map[f].by])

\* A read goes to the selected frame only while `frames list' shows it.
SelectedIsListed == sel # NoFrame => sel \in Listed(map)

\* A frame with a target of its own that Chrome reported has a session, or is
\* listed as unreachable or lies inside a frame that is, whatever refused or
\* failed its setup.
NeverSilentlyDropped ==
  \A s \in Attached :
    \/ HasTarget(target[s])
    \/ \E f \in unreachable : target[s] \in {f} \cup Inside(f)

=============================================================================
