---------------------------- MODULE MCFrameTree ----------------------------
(* An instance of FrameTree for TLC: a chain of three frames below the root,  *)
(* each of which may have a target of its own.                                *)
EXTENDS FrameTree

CONSTANTS r, a, x, y

MCParents == (r :> {}) @@ (a :> {r}) @@ (x :> {a}) @@ (y :> {x})

(* The frames of all sessions make one tree, whatever the order in which  *)
(* their targets come and go (FrameManager).                              *)
OneTree == TypeOK /\ TreeAgrees

(* A frame is answered by a session that lives and that owns its target   *)
(* (FrameManager.session_for, FrameSessions.drop).                        *)
AnsweredByItsOwn == AnsweredByLive /\ OwnsItsTarget

(* No target is lost without a word and no frame stays selected that is   *)
(* not listed (FrameSessions.adopt, FrameManager.forget_session).         *)
NothingIsLost == NeverSilentlyDropped /\ SelectedIsListed

=============================================================================
