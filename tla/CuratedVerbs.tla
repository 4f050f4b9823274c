-------------------------- MODULE CuratedVerbs -------------------------
(* The verbs that drive a page over the handler's session, one to an      *)
(* invocation: input that is guarded by a look at the page, waits that    *)
(* watch it, a detection that looks again, a storage read that borrows    *)
(* the frame selection, and a navigation that a prompt may decline. The   *)
(* page changes between any two commands.                                 *)
EXTENDS Naturals, Sequences, SequencesExt, FiniteSets

CONSTANTS
  Patience,    \* ticks that a wait may last
  Quiet,       \* ticks without a change that count as quiet
  MaxRetries   \* retries of a detection

ASSUME VerbsAssumption == Patience \in Nat /\ Quiet \in Nat \ {0} /\ MaxRetries \in Nat

Guarded == {"press", "hover", "type", "click", "fill"}
Waits == {"wait-text", "wait-idle", "wait-stable"}
Verbs == Guarded \union Waits \union {"detect", "screenshot", "storage", "navigate"}
Holders == {"editable", "frame", "other"}
(* What the detection script looks for, in its order: an obstacle that    *)
(* may solve itself by its title and by its elements, one that a person   *)
(* must solve by its vendor's cookie and by its frame. A challenge is the *)
(* obstacle itself; a cookie only shows that the site uses the vendor.    *)
Checks ==
  LET Check(kind, sure, challenge) == [kind |-> kind, sure |-> sure, challenge |-> challenge]
  IN <<Check("solvable", 3, TRUE), Check("solvable", 1, TRUE),
       Check("human", 3, FALSE), Check("human", 3, TRUE)>>
Signs == DOMAIN Checks

VARIABLES
  verb, shared,  \* the verb; the session belongs to a Step Run
  stand,          \* where the verb is
  hidden,      \* the tab is in the background
  focus,       \* what has the focus in the frame that the verb drives
  shown,       \* the page renders the text
  signs,       \* the checks that the page meets now
  spoiled,       \* the page changed after the verb looked, or a look failed
  landed,      \* the input that was sent reached something that takes it
  clock, since, ago,  \* ticks of the wait; since the change it last noticed; since the last change
  appeared,    \* the text was rendered after a task that the wait observes
  passes,      \* the signs that each pass of a detection found
  tries,       \* screenshots taken: blank or not
  pattern, lent,  \* the frame selection, and the one that was lent out
  declined, told, \* a prompt was declined, and the caller's error says so
  said         \* what the caller was answered

watched == <<hidden, focus, shown, signs>>
wait == <<clock, since, ago, appeared>>
frames == <<pattern, lent>>
prompt == <<declined, told>>
verbVars == <<verb, shared, stand, watched, spoiled, landed, wait, passes, tries, frames, prompt, said>>

VerbTypeOK ==
  /\ verb \in Verbs /\ shared \in BOOLEAN /\ stand \in {"start", "looked", "focused", "sent", "waiting", "pass", "reading", "restore", "answered"}
  /\ hidden \in BOOLEAN /\ focus \in Holders /\ shown \in BOOLEAN /\ signs \subseteq Signs
  /\ spoiled \in BOOLEAN /\ landed \in BOOLEAN /\ clock \in 0..Patience + 1
  /\ since \in 0..Quiet /\ ago \in 0..Quiet /\ appeared \in BOOLEAN
  /\ passes \in Seq(SUBSET Signs) /\ Len(passes) <= MaxRetries + 1 /\ tries \in Seq(BOOLEAN)
  /\ pattern \in {"none", "run", "key"} /\ lent \in {"none", "run"}
  /\ declined \in BOOLEAN /\ told \in BOOLEAN /\ said \in {"nothing", "done", "no", "error"}

VerbInit ==
  /\ verb \in Verbs /\ shared \in BOOLEAN /\ stand = "start"
  /\ hidden \in BOOLEAN /\ focus \in Holders /\ shown \in BOOLEAN /\ signs \in SUBSET Signs
  /\ verb \notin Guarded => hidden = FALSE /\ focus = "other"
  /\ verb # "wait-text" => ~shown
  /\ verb # "detect" => signs = {}
  /\ spoiled = FALSE /\ landed = FALSE /\ clock = 0 /\ since = 0 /\ ago = 0 /\ appeared = FALSE
  /\ passes = <<>> /\ tries = <<>> /\ pattern \in {"none", "run"} /\ lent = pattern
  /\ ~shared => pattern = "none"
  /\ declined = FALSE /\ told = FALSE /\ said = "nothing"

Answer(what) == stand' = "answered" /\ said' = what

------------------------------------------------------------------------
(* The page. A change of the focus or of the tab spoils what a guard saw. *)
PageMoves ==
  /\ verb \in Guarded /\ stand # "answered" /\ spoiled' = (stand # "start")
  /\ \/ hidden' = ~hidden /\ UNCHANGED focus
     \/ focus' \in Holders \ {focus} /\ UNCHANGED hidden
  /\ UNCHANGED <<verb, shared, stand, shown, signs, landed, wait, passes, tries, frames, prompt, said>>

------------------------------------------------------------------------
(* Input. Chrome drops what is sent to a background tab, and text that    *)
(* nothing editable receives, without an error.                           *)

Refuses == hidden

(* A look that gets no answer lets the input through.                     *)
RefuseHidden ==
  /\ stand = "start" /\ verb \in Guarded
  /\ \/ Refuses /\ Answer("error") /\ UNCHANGED spoiled
     \/ ~Refuses /\ stand' = "looked" /\ UNCHANGED <<said, spoiled>>
     \/ stand' = "looked" /\ spoiled' = TRUE /\ UNCHANGED said
  /\ UNCHANGED <<verb, shared, watched, landed, wait, passes, tries, frames, prompt>>

(* With a selected frame the focus goes to that frame's own active        *)
(* element first, whatever it is; the frame may have none, or be gone.    *)
FocusSelected ==
  /\ stand = "looked"
  /\ \/ stand' = "focused" /\ UNCHANGED <<focus, said>>
     \/ verb \in {"press", "type"} /\ pattern # "none" /\ stand' = "focused" /\ focus' \in Holders /\ UNCHANGED said
     \/ verb \in {"press", "type", "hover"} /\ pattern # "none" /\ Answer("error") /\ UNCHANGED focus
  /\ UNCHANGED <<verb, shared, hidden, shown, signs, spoiled, landed, wait, passes, tries, frames, prompt>>

MayTake(kind) == kind \in {"editable", "frame"}

RefuseTypeWithoutATarget ==
  /\ stand = "focused" /\ verb = "type"
  /\ \/ ~MayTake(focus) /\ Answer("error") /\ UNCHANGED spoiled
     \/ MayTake(focus) /\ stand' = "sent" /\ spoiled' = (spoiled \/ focus = "frame") /\ UNCHANGED said
     \/ stand' = "sent" /\ spoiled' = TRUE /\ UNCHANGED said
  /\ UNCHANGED <<verb, shared, watched, landed, wait, passes, tries, frames, prompt>>

SendInput ==
  /\ stand = "sent" \/ (stand = "focused" /\ verb # "type")
  /\ landed' = (~hidden /\ (verb = "type" => focus = "editable"))
  /\ \E what \in {"done", "error"} : Answer(what)
  /\ UNCHANGED <<verb, shared, watched, spoiled, wait, passes, tries, frames, prompt>>

------------------------------------------------------------------------
(* Waits, as scripts in the page. A page task may change what a wait      *)
(* watches: an observed change notifies it before the next task, and the  *)
(* text may also change without one (a style sheet).                      *)

FirstLook == shown

WaitStarts ==
  /\ stand = "start" /\ verb \in Waits
  /\ IF verb = "wait-text" /\ FirstLook THEN Answer("done") ELSE stand' = "waiting" /\ UNCHANGED said
  /\ appeared' = shown
  /\ UNCHANGED <<verb, shared, watched, spoiled, landed, clock, since, ago, passes, tries, frames, prompt>>

TextMutates ==
  /\ stand = "waiting" /\ verb = "wait-text" /\ shown' \in BOOLEAN /\ appeared' = (appeared \/ shown')
  /\ IF shown' THEN Answer("done") ELSE UNCHANGED <<stand, said>>
  /\ UNCHANGED <<verb, shared, hidden, focus, signs, spoiled, landed, clock, since, ago, passes, tries, frames, prompt>>

TextRestyled ==
  /\ stand = "waiting" /\ verb = "wait-text" /\ shown' = ~shown
  /\ UNCHANGED <<verb, shared, stand, hidden, focus, signs, spoiled, landed, wait, passes, tries, frames, prompt, said>>

(* A resource that loads, or a change of the tree: the observer of        *)
(* wait-stable restarts its timer at once; wait-idle notices at its next  *)
(* poll.                                                                  *)
Restarted == 0

Stirs ==
  /\ stand = "waiting" /\ verb \in {"wait-idle", "wait-stable"} /\ ago' = 0
  /\ since' = IF verb = "wait-stable" THEN Restarted ELSE since
  /\ UNCHANGED <<verb, shared, stand, watched, spoiled, landed, clock, appeared, passes, tries, frames, prompt, said>>

Elapsed == clock + 1

Ticks ==
  /\ stand = "waiting" /\ verb \in Waits /\ clock <= Patience
  /\ clock' = Elapsed
  /\ ago' = IF ago = Quiet THEN Quiet ELSE ago + 1
  /\ since' = IF verb = "wait-idle" /\ ago < since THEN Restarted
              ELSE IF since = Quiet THEN Quiet ELSE since + 1
  /\ UNCHANGED <<verb, shared, stand, watched, spoiled, landed, appeared, passes, tries, frames, prompt, said>>

IsQuiet ==
  /\ stand = "waiting" /\ verb \in {"wait-idle", "wait-stable"} /\ since = Quiet
  /\ verb = "wait-idle" => clock <= Patience /\ ago >= since
  /\ Answer("done")
  /\ UNCHANGED <<verb, shared, watched, spoiled, landed, wait, passes, tries, frames, prompt>>

LastLook == shown

(* The deadline; or the page went away, or the connection did.            *)
WaitEnds ==
  /\ stand = "waiting" /\ verb \in Waits
  /\ \/ clock > Patience /\ Answer(IF verb = "wait-text" /\ LastLook THEN "done" ELSE "no")
     \/ Answer("error")
  /\ UNCHANGED <<verb, shared, watched, spoiled, landed, wait, passes, tries, frames, prompt>>

------------------------------------------------------------------------
(* detect: two looks to a pass. Of the signs of one kind the challenge is *)
(* kept; only challenges make an obstacle, and only an obstacle that may  *)
(* solve itself is looked at again. A look that fails finds nothing.      *)

SameKind(i, j) == Checks[i].kind = Checks[j].kind
ChallengeAt(i) == Checks[i].challenge

(* The script keeps for each kind the first of the surest signs.          *)
DetectInterstitials(met) ==
  {i \in met : \A j \in met : SameKind(i, j) =>
     Checks[j].sure < Checks[i].sure \/ (Checks[j].sure = Checks[i].sure /\ j >= i)}

(* Fault: the sign that was seen first is kept.                           *)
PresenceFirst(found) == {i \in found : \A j \in found : SameKind(i, j) => j >= i}
Deduplicate(found) ==
  {i \in found : \A j \in found : SameKind(i, j) =>
     \/ ChallengeAt(i) /\ ~ChallengeAt(j)
     \/ ChallengeAt(i) = ChallengeAt(j) /\ Checks[j].sure <= Checks[i].sure}
Challenges(found) == {i \in Deduplicate(found) : ChallengeAt(i)}
Retryable(found) == \E i \in Challenges(found) : Checks[i].kind = "solvable"

(* A look has an answer, or finds nothing.                                *)
RunDetection(found) ==
  \/ found = DetectInterstitials(signs) /\ UNCHANGED spoiled
  \/ found = {} /\ spoiled' = TRUE

PageResolves ==
  /\ verb = "detect" /\ stand # "answered" /\ signs' \in SUBSET Signs /\ signs' # signs
  /\ spoiled' = (spoiled \/ stand # "start")
  /\ UNCHANGED <<verb, shared, stand, hidden, focus, shown, landed, wait, passes, tries, frames, prompt, said>>

Look ==
  /\ verb = "detect" /\ stand = "start" /\ stand' = "pass"
  /\ \E found \in SUBSET signs : RunDetection(found) /\ passes' = Append(passes, found)
  /\ UNCHANGED <<verb, shared, watched, landed, wait, tries, frames, prompt, said>>

LookAgain ==
  /\ verb = "detect" /\ stand = "pass"
  /\ \E found \in SUBSET signs :
       LET pass == Last(passes) \union found
       IN /\ RunDetection(found)
          /\ passes' = [passes EXCEPT ![Len(passes)] = pass]
          /\ IF Retryable(pass) /\ Len(passes) <= MaxRetries THEN stand' = "start" /\ UNCHANGED said
             ELSE Answer(IF Challenges(pass) = {} THEN "done" ELSE "no")
  /\ UNCHANGED <<verb, shared, watched, landed, wait, tries, frames, prompt>>

(* A command that Chrome refuses, or the budget of the whole detection.   *)
DetectFails ==
  /\ verb = "detect" /\ stand # "answered" /\ Answer("error")
  /\ UNCHANGED <<verb, shared, watched, spoiled, landed, wait, passes, tries, frames, prompt>>

------------------------------------------------------------------------
(* screenshot: a blank image is taken again, once.                        *)
Capture ==
  /\ verb = "screenshot" /\ stand = "start"
  /\ \/ \E blank \in BOOLEAN :
          /\ tries' = Append(tries, blank)
          /\ IF blank /\ Len(tries) < 1 THEN UNCHANGED <<stand, said>> ELSE Answer("done")
     \/ Answer("error") /\ UNCHANGED tries
  /\ UNCHANGED <<verb, shared, watched, spoiled, landed, wait, passes, frames, prompt>>

------------------------------------------------------------------------
(* storage get --key: the selection is lent to the read. A key that names *)
(* no frame, a read that fails and a deadline all leave through the end   *)
(* of the scope.                                                          *)

Restored(ok) == lent

Borrow ==
  /\ verb = "storage" /\ stand = "start" /\ lent' = pattern
  /\ \/ pattern' = "key" /\ stand' \in {"reading", "restore"}
     \/ pattern # "none" /\ UNCHANGED pattern /\ stand' = "reading"
  /\ UNCHANGED <<verb, shared, watched, spoiled, landed, wait, passes, tries, prompt, said>>

ReadStorage ==
  /\ verb = "storage" /\ stand = "reading"
  /\ \/ stand' = "answered" /\ said' = "done" /\ pattern' = Restored(TRUE)
     \/ stand' = "restore" /\ UNCHANGED <<said, pattern>>
  /\ UNCHANGED <<verb, shared, watched, spoiled, landed, wait, passes, tries, lent, prompt>>

GiveBack ==
  /\ verb = "storage" /\ stand = "restore" /\ Answer("error") /\ pattern' = Restored(FALSE)
  /\ UNCHANGED <<verb, shared, watched, spoiled, landed, wait, passes, tries, lent, prompt>>

------------------------------------------------------------------------
(* navigate: the page may ask to confirm, and a policy that dismisses     *)
(* cancels the navigation. A verb that has a session of its own collects  *)
(* what the policy answered on the failing path too.                      *)

Collects(ok) == ~shared \/ ok

NavigatePage ==
  /\ verb = "navigate" /\ stand = "start"
  /\ \/ Answer("done") /\ UNCHANGED prompt
     \/ Answer("error") /\ UNCHANGED prompt
     \/ Answer("error") /\ declined' = TRUE /\ told' = Collects(FALSE)
  /\ UNCHANGED <<verb, shared, watched, spoiled, landed, wait, passes, tries, frames>>

(* What the process and the timers of a wait do, as opposed to the page.  *)
VerbStep ==
  \/ RefuseHidden \/ FocusSelected \/ RefuseTypeWithoutATarget \/ SendInput
  \/ WaitStarts \/ Ticks \/ IsQuiet \/ WaitEnds
  \/ Look \/ LookAgain \/ DetectFails \/ Capture
  \/ Borrow \/ ReadStorage \/ GiveBack \/ NavigatePage

VerbNext ==
  VerbStep \/ PageMoves \/ TextMutates \/ TextRestyled \/ Stirs \/ PageResolves

------------------------------------------------------------------------
(* Input that a verb reports reached a page that takes it: the exceptions *)
(* are a page that changed after the looks, a look that had no answer and *)
(* a focus inside a frame (RefuseHidden, RefuseTypeWithoutATarget).       *)
InputArrives == said = "done" /\ verb \in Guarded /\ ~spoiled => landed

(* A wait says what the page did: text that was rendered at a moment the  *)
(* wait observes is not missed, text that is there at the deadline is not *)
(* denied, and quiet means that nothing changed for that long.            *)
WaitsTellTheTruth ==
  /\ verb = "wait-text" /\ said = "no" => ~shown /\ ~appeared
  /\ verb = "wait-text" /\ said = "done" => shown
  /\ verb \in {"wait-idle", "wait-stable"} /\ said = "done" => ago = Quiet

(* A detection that calls the page clear saw no challenge in its last     *)
(* pass, one that calls it blocked saw one there, and it looked again     *)
(* only while each pass before had one that may solve itself.             *)
ReportsTheLastPass ==
  /\ verb = "detect" /\ said \in {"done", "no"} =>
       (said = "no" <=> \E s \in Last(passes) : ChallengeAt(s))
  /\ \A i \in DOMAIN passes : i < Len(passes) =>
       \E s \in passes[i] : ChallengeAt(s) /\ Checks[s].kind = "solvable"

(* A page that shows a challenge is not called clear, whatever other sign *)
(* of the same vendor it shows (interstitial._deduplicate says so of the  *)
(* signs it is given; the script has dropped some before).                *)
ChallengeIsReported ==
  verb = "detect" /\ said = "done" /\ ~spoiled => \A s \in signs : ~ChallengeAt(s)

(* A read that names its frame gives the run's selection back however it  *)
(* ends, a blank image is never kept while another try is left, and a     *)
(* navigation that a prompt cancelled says so to the caller who asked.    *)
HandsBack ==
  /\ verb = "storage" /\ stand = "answered" => pattern = lent
  /\ tries # <<>> /\ said = "done" => (Last(tries) => Len(tries) = 2)
  /\ declined /\ ~shared => told

(* Every verb answers, however the page behaves: a wait that watches a    *)
(* page that never rests has its deadline, a detection its retries.       *)
VerbAnswers == <>(stand = "answered")
=======================================================================
