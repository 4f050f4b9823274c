---------------------------- MODULE UidAction ---------------------------
(* A snapshot names the nodes of a page, and a later click, fill or hover *)
(* acts on one by its name. The page has a top frame and one child, which *)
(* may live in another renderer; both navigate at any time, between any   *)
(* two commands of a read or of an action. A document stands for its      *)
(* frame and loader; backend ids are handed out per renderer.             *)
EXTENDS Naturals, Sequences, SequencesExt, FiniteSets

CONSTANT MaxDocuments   \* bound: the documents of both frames together

ASSUME DocumentsAssumption == MaxDocuments \in Nat /\ MaxDocuments > 1

PageFrames == {"top", "kid"}
Renderers == {"page", "other"}

VARIABLES
  framesAll,  \* --frames all: the child's own session may be attached
  rend,       \* the renderer of each document, in the order they were loaded
  doc,        \* the document of each frame
  known,      \* the document of each frame in the frame manager's map
  reader,     \* where the snapshot is
  token,      \* the documents whose tokens the read took
  tree,       \* the documents whose trees it was given, 0 for none
  owner,      \* the document of the child's owner and its backend id there, 0 for none
  printed,    \* the nodes of the snapshot in order: [uid, doc, node]
  actor,      \* where the action is
  held,       \* the printed node that the caller acts on
  moved,      \* a document has gone since the action checked
  behind,     \* the map was behind the page when the action checked
  hit         \* the nodes an input may have reached: [doc, node]

docVars == <<rend, doc, known>>
readVars == <<reader, token, tree, owner, printed>>
actVars == <<actor, held, moved, behind, hit>>
uidVars == <<framesAll, docVars, readVars, actVars>>

(* The nodes of a document: its root, an element (in the top document the *)
(* Iframe), a text node, and an inline box that has no DOM node.          *)
Nodes == <<"root", "element", "text", "box">>
Place(n) == CHOOSE i \in 1..4 : Nodes[i] = n
Backend(d, n) ==
  IF n = "box" THEN 0
  ELSE 3 * Cardinality({e \in 1..d - 1 : rend[e] = rend[d]}) + Place(n)

Live == {doc[f] : f \in PageFrames}
Fresh == Len(rend) + 1

------------------------------------------------------------------------
(* The names. A UID is a token and a backend id, or "x" and an ordinal.   *)

(* Fault: every node gets the token of the top document.                  *)
TopToken(own) == token["top"]
NodeToken(own) == own

(* stitch_ax_frames: the child's nodes follow its owner. Without an owner *)
(* they are in the tree, but not below its root.                          *)
NodesOf(d, tok) == [i \in 1..4 |-> [doc |-> d, node |-> Nodes[i], tok |-> NodeToken(tok)]]
OwnerNode == [doc |-> tree["top"], node |-> "element"]
Owned == owner[1] = token["top"] /\ owner[2] = Backend(tree["top"], "element")
Stitched ==
  LET top == NodesOf(tree["top"], token["top"])
  IN IF tree["kid"] = 0 \/ ~Owned THEN top
     ELSE SubSeq(top, 1, 2) \o NodesOf(tree["kid"], token["kid"]) \o SubSeq(top, 3, 4)

(* build: the walk gives a node its backend id unless an earlier node has *)
(* claimed that name.                                                     *)
Claims(walk, i) ==
  LET b == Backend(walk[i].doc, walk[i].node)
  IN /\ b # 0
     /\ \A j \in 1..i - 1 : Backend(walk[j].doc, walk[j].node) = b => walk[j].tok # walk[i].tok
Mint(walk, i) ==
  IF Claims(walk, i) THEN <<walk[i].tok, "n", Backend(walk[i].doc, walk[i].node)>>
  ELSE <<walk[i].tok, "x", i>>
Build(walk) ==
  [i \in DOMAIN walk |-> [uid |-> Mint(walk, i), doc |-> walk[i].doc, node |-> walk[i].node]]

------------------------------------------------------------------------
UidTypeOK ==
  /\ framesAll \in BOOLEAN /\ rend \in Seq(Renderers) /\ Len(rend) <= MaxDocuments
  /\ doc \in [PageFrames -> 1..Len(rend)] /\ known \in [PageFrames -> 1..Len(rend)]
  /\ reader \in {"idle", "top", "owner", "kid", "read", "built"}
  /\ token \in [PageFrames -> 0..Len(rend)] /\ tree \in [PageFrames -> 0..Len(rend)]
  /\ actor \in {"idle", "checked", "described", "input", "refused", "failed", "acted"}
  /\ moved \in BOOLEAN /\ behind \in BOOLEAN /\ hit \subseteq [doc : 1..Len(rend), node : Range(Nodes)]

UidInit ==
  /\ framesAll \in BOOLEAN /\ \E r \in Renderers : rend = <<"page", r>>
  /\ doc = [f \in PageFrames |-> IF f = "top" THEN 1 ELSE 2] /\ known = doc
  /\ reader = "idle" /\ token = [f \in PageFrames |-> 0] /\ tree = token /\ owner = <<0, 0>>
  /\ printed = <<>> /\ actor = "idle" /\ moved = FALSE /\ behind = FALSE /\ hit = {}
  /\ held = [uid |-> <<0, "x", 0>>, doc |-> 0, node |-> "root"]

(* A navigation, to a document of any renderer. The top's takes the child *)
(* with it: the new page has its own.                                     *)
Navigate ==
  /\ Len(rend) < MaxDocuments /\ moved' = TRUE
  /\ \/ \E r \in Renderers : rend' = Append(rend, r) /\ doc' = [doc EXCEPT !["kid"] = Fresh]
     \/ \E r \in Renderers :
          /\ rend' = rend \o <<"page", r>>
          /\ doc' = [doc EXCEPT !["top"] = Fresh, !["kid"] = Fresh + 1]
  /\ Len(rend') <= MaxDocuments
  /\ UNCHANGED <<framesAll, known, readVars, actor, held, behind, hit>>

(* The frame manager learns of it by an event.                            *)
MapLearns ==
  /\ \E f \in PageFrames : known[f] # doc[f] /\ known' = [known EXCEPT ![f] = doc[f]]
  /\ UNCHANGED <<framesAll, rend, doc, readVars, actVars>>

------------------------------------------------------------------------
(* take_snapshot. When a frame has a session of its own every frame is    *)
(* read on its own session, and the tokens are those of the map; else the *)
(* page session answers for all, and the tokens are read first.           *)
CrossProcess == framesAll /\ rend[known["kid"]] = "other"

Tokens == IF CrossProcess THEN known ELSE doc

ReadTokens ==
  /\ reader = "idle" /\ reader' = "top" /\ token' = Tokens
  /\ UNCHANGED <<framesAll, docVars, tree, owner, printed, actVars>>

ReadTop ==
  /\ reader = "top" /\ reader' = "owner" /\ tree' = [tree EXCEPT !["top"] = doc["top"]]
  /\ UNCHANGED <<framesAll, docVars, token, owner, printed, actVars>>

(* The owner is asked of the parent's document, and the tree of the       *)
(* session that owns the child. A child that does not answer is skipped.  *)
ReadOwner ==
  /\ reader = "owner"
  /\ \/ reader' = "kid" /\ owner' = <<token["top"], Backend(doc["top"], "element")>>
     \/ reader' = "read" /\ UNCHANGED owner
  /\ UNCHANGED <<framesAll, docVars, token, tree, printed, actVars>>

AnswersHere == rend[doc["kid"]] = "page" \/ framesAll
ReadKid ==
  /\ reader = "kid" /\ reader' = "read"
  /\ tree' \in {tree, IF AnswersHere THEN [tree EXCEPT !["kid"] = doc["kid"]] ELSE tree}
  /\ UNCHANGED <<framesAll, docVars, token, owner, printed, actVars>>

PrintTree ==
  /\ reader = "read" /\ reader' = "built"
  /\ token' = [f \in PageFrames |-> IF token[f] = 0 THEN doc[f] ELSE token[f]]
  /\ printed' = Build(Stitched)
  /\ UNCHANGED <<framesAll, docVars, tree, owner, actVars>>

------------------------------------------------------------------------
(* The action. The UID's document gives the session; the live tokens are  *)
(* read there; the node is described there; then the input is sent.       *)
Wanted == held.uid[1]

SessionOf(d) ==
  IF framesAll /\ (\E f \in PageFrames : known[f] = d /\ rend[known[f]] = "other") THEN "other" ELSE "page"

LiveTokens(s) == {d \in Live : rend[d] = s}

Check ==
  /\ actor = "idle" /\ reader = "built"
  /\ \E i \in DOMAIN printed :
        /\ held' = printed[i]
        /\ LET u == printed[i].uid
           IN actor' = IF u[1] \in LiveTokens(SessionOf(u[1])) /\ u[2] = "n" THEN "checked" ELSE "refused"
  /\ moved' = FALSE /\ behind' = (known # doc)
  /\ UNCHANGED <<framesAll, docVars, readVars, hit>>

(* What the session's renderer has under that id.                         *)
Found == {x \in [doc : {d \in Live : rend[d] = SessionOf(Wanted)}, node : Range(Nodes)] :
            Backend(x.doc, x.node) = held.uid[3]}
IsElement(x) == x.node \in {"root", "element"}

Acts(x) == IsElement(x)

Describe ==
  /\ actor = "checked"
  /\ actor' = IF Found = {} THEN "failed" ELSE IF \A x \in Found : Acts(x) THEN "described" ELSE "refused"
  /\ UNCHANGED <<framesAll, docVars, readVars, held, moved, behind, hit>>

(* Scroll, then the box and the mouse, or the focus, the object and the   *)
(* function that sets the value; each fails when the node has gone.       *)
Input ==
  /\ actor \in {"described", "input"}
  /\ \/ Found = {} /\ actor' = "failed" /\ UNCHANGED hit
     \/ Found # {} /\ actor = "described" /\ actor' = "input" /\ UNCHANGED hit
     \/ Found # {} /\ actor = "input" /\ actor' = "acted" /\ hit' = hit \union Found
  /\ UNCHANGED <<framesAll, docVars, readVars, held, moved, behind>>

UidNext ==
  \/ Navigate \/ MapLearns \/ ReadTokens \/ ReadTop \/ ReadOwner \/ ReadKid \/ PrintTree
  \/ Check \/ Describe \/ Input

------------------------------------------------------------------------
(* A name is one node's: no two nodes of a snapshot share it, and every   *)
(* node that is in the DOM can be acted on by it, whatever ids the        *)
(* renderers have given (NativeSnapshotReader.build, stitch_ax_frames).   *)
NamesAreOne ==
  \A i \in DOMAIN printed :
    /\ \A j \in DOMAIN printed : i # j => printed[i].uid # printed[j].uid
    /\ printed[i].uid[2] = "n" <=> printed[i].node # "box"

(* An input reaches the element that the snapshot showed under the name,  *)
(* however often the page navigated since and during the snapshot. The    *)
(* one exception is a document that goes between the check and the input, *)
(* where another one may have the id (click_steps, fill_steps).           *)
ActsOnWhatItShowed ==
  hit # {} /\ ~moved => hit = {[doc |-> held.doc, node |-> held.node]} /\ IsElement([node |-> held.node])

(* Nothing that is on the screen is refused: a name of an element that    *)
(* the action can reach resolves, whichever frame it is in, unless the    *)
(* read straddled a navigation or the map has not learned of it.          *)
LiveIsNotRefused ==
  actor = "refused" /\ ~moved /\ held.doc \in Live /\ held.uid[1] = held.doc
     /\ IsElement([node |-> held.node]) =>
  rend[held.doc] = "other" /\ (framesAll => behind)
=======================================================================
