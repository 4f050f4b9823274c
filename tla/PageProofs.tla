---------------------------- MODULE PageProofs ----------------------------
(* The verbs on a page, for any number of events, frames, documents,       *)
(* retries and ticks. Each component has an invariant of its own, and a    *)
(* step is one of one component, which leaves the others where they are.   *)
EXTENDS MCPage, FiniteSetTheorems, SequenceTheorems, WellFoundedInduction, TLAPS

(***************************************************************************)
(* The curated verbs.                                                      *)
(***************************************************************************)
VerbTypes ==
  /\ verb \in Verbs /\ shared \in BOOLEAN
  /\ stand \in {"start", "looked", "focused", "sent", "waiting", "pass", "reading", "restore",
                "answered"}
  /\ hidden \in BOOLEAN /\ focus \in Holders /\ shown \in BOOLEAN /\ signs \subseteq Signs
  /\ spoiled \in BOOLEAN /\ landed \in BOOLEAN /\ clock \in 0..Patience + 1
  /\ since \in 0..Quiet /\ ago \in 0..Quiet /\ appeared \in BOOLEAN
  /\ passes \in Seq(SUBSET Signs) /\ tries \in Seq(BOOLEAN)
  /\ pattern \in {"none", "run", "key"} /\ lent \in {"none", "run"}
  /\ declined \in BOOLEAN /\ told \in BOOLEAN /\ said \in {"nothing", "done", "no", "error"}

(* Where a verb stands says which verb it is, and whether it has answered. *)
StandsAsItIs ==
  /\ stand = "answered" <=> said # "nothing"
  /\ stand \in {"looked", "focused", "sent"} => verb \in Guarded
  /\ stand = "sent" => verb = "type"
  /\ stand = "waiting" => verb \in Waits
  /\ stand = "pass" => verb = "detect"
  /\ stand \in {"reading", "restore"} => verb = "storage"

(* What a guard saw holds until the input is sent, or the page moved.      *)
GuardStands ==
  verb \in Guarded /\ ~spoiled =>
    /\ stand \in {"looked", "focused", "sent"} => ~hidden
    /\ stand = "sent" => focus = "editable"
    /\ said = "done" => landed

(* A wait that goes on has not seen its text, and a stable page is as old  *)
(* as its timer.                                                           *)
WaitStands ==
  /\ verb = "wait-text" /\ stand = "waiting" => ~appeared
  /\ verb = "wait-stable" => since = ago
  /\ WaitsTellTheTruth

(* A detection looks again only after a pass that may solve itself.        *)
MaySolve(found) == \E s \in found : ChallengeAt(s) /\ Checks[s].kind = "solvable"
PassesStand ==
  /\ verb # "detect" => passes = <<>>
  /\ stand = "start" => Len(passes) <= MaxRetries
  /\ stand = "pass" => Len(passes) > 0
  /\ Len(passes) <= MaxRetries + 1
  /\ \A i \in 1..Len(passes) : stand = "start" \/ i < Len(passes) => MaySolve(passes[i])
  /\ verb = "detect" /\ said \in {"done", "no"} =>
       /\ Len(passes) > 0
       /\ said = "no" <=> \E s \in passes[Len(passes)] : ChallengeAt(s)

(* The selection is lent once, and given back at the end.                  *)
LoanStands ==
  /\ verb # "storage" \/ stand = "start" => pattern = lent
  /\ verb = "storage" /\ stand = "answered" => pattern = lent
  /\ tries # <<>> => verb = "screenshot"
  /\ stand = "start" => Len(tries) <= 1
  /\ tries # <<>> /\ said = "done" => (tries[Len(tries)] => Len(tries) = 2)
  /\ declined /\ ~shared => told

VerbInv ==
  VerbTypes /\ StandsAsItIs /\ GuardStands /\ WaitStands /\ PassesStand /\ LoanStands

---------------------------------------------------------------------------
(* What a verb does leaves alone what is not about it.                     *)
LEMMA GuardsOnly ==
  ASSUME verb \notin Guarded, UNCHANGED verb
  PROVE  GuardStands'
BY DEF GuardStands

LEMMA WaitsOnly ==
  ASSUME verb \notin Waits, UNCHANGED verb
  PROVE  WaitStands'
BY DEF WaitStands, WaitsTellTheTruth, Waits

LEMMA DetectsOnly ==
  ASSUME VerbInv, verb # "detect", stand' # "pass", UNCHANGED <<verb, passes>>
  PROVE  PassesStand'
<1>1. passes = <<>> /\ Len(passes) = 0 /\ MaxRetries \in Nat
  BY VerbsAssumption DEF VerbInv, PassesStand
<1>2. QED
  BY <1>1 DEF PassesStand

LEMMA LendsOnly ==
  ASSUME VerbInv, verb \notin {"storage", "screenshot"},
         UNCHANGED <<verb, shared, frames, tries, prompt>>
  PROVE  LoanStands'
<1>1. UNCHANGED <<pattern, lent, declined, told>> /\ tries = <<>> /\ Len(tries) = 0
  BY DEF VerbInv, LoanStands, frames, prompt
<1>2. QED
  BY <1>1 DEF VerbInv, LoanStands

LEMMA VerbStarts == VerbInit => VerbInv
<1>1. SUFFICES ASSUME VerbInit PROVE VerbInv
  OBVIOUS
<1>2. passes \in Seq(SUBSET Signs) /\ Len(passes) = 0 /\ passes = <<>>
      /\ tries \in Seq(BOOLEAN) /\ Len(tries) = 0 /\ tries = <<>>
  BY <1>1 DEF VerbInit
<1>3. VerbTypes
  <2>1. /\ clock \in 0..Patience + 1 /\ since \in 0..Quiet /\ ago \in 0..Quiet
    BY <1>1, VerbsAssumption DEF VerbInit
  <2>2. /\ verb \in Verbs /\ shared \in BOOLEAN /\ stand = "start" /\ said = "nothing"
        /\ hidden \in BOOLEAN /\ focus \in Holders /\ shown \in BOOLEAN /\ signs \subseteq Signs
    BY <1>1 DEF VerbInit
  <2>3. /\ pattern \in {"none", "run", "key"} /\ lent \in {"none", "run"}
        /\ spoiled \in BOOLEAN /\ landed \in BOOLEAN /\ appeared \in BOOLEAN
        /\ declined \in BOOLEAN /\ told \in BOOLEAN
    BY <1>1 DEF VerbInit
  <2>4. QED
    BY <1>2, <2>1, <2>2, <2>3 DEF VerbTypes
<1>4. StandsAsItIs /\ GuardStands
  BY <1>1 DEF VerbInit, StandsAsItIs, GuardStands
<1>5. WaitStands
  BY <1>1 DEF VerbInit, WaitStands, WaitsTellTheTruth
<1>6. PassesStand
  BY <1>1, <1>2, VerbsAssumption DEF VerbInit, PassesStand
<1>7. LoanStands
  BY <1>1, <1>2 DEF VerbInit, LoanStands
<1>8. QED
  BY <1>3, <1>4, <1>5, <1>6, <1>7 DEF VerbInv

(* Input, and the page that moves under it.                                *)
LEMMA GuardsKeep ==
  ASSUME VerbInv, \/ RefuseHidden \/ FocusSelected \/ RefuseTypeWithoutATarget \/ SendInput
                  \/ PageMoves
  PROVE  VerbInv'
<1>1. verb \in Guarded /\ verb \notin Waits /\ verb \notin {"detect", "storage", "screenshot"}
  BY DEF VerbInv, StandsAsItIs, RefuseHidden, FocusSelected, RefuseTypeWithoutATarget, SendInput,
         PageMoves, Guarded, Waits
<1>2. /\ UNCHANGED <<verb, shared, shown, signs, clock, since, ago, appeared, passes, tries>>
      /\ UNCHANGED <<pattern, lent, declined, told, frames, prompt>>
  BY DEF RefuseHidden, FocusSelected, RefuseTypeWithoutATarget, SendInput, PageMoves, watched, wait,
         frames, prompt
<1>3. stand' \in {"looked", "focused", "sent", "answered", stand} /\ stand' # "pass"
      /\ (stand' = "start" => stand = "start")
  BY <1>1 DEF VerbInv, StandsAsItIs, RefuseHidden, FocusSelected, RefuseTypeWithoutATarget,
              SendInput, PageMoves, Answer
<1>4. VerbTypes'
  <2>1. VerbTypes
    BY DEF VerbInv
  <2>2. spoiled' \in BOOLEAN
    <3>1. spoiled \in BOOLEAN /\ (stand # "start") \in BOOLEAN /\ (spoiled \/ focus = "frame") \in BOOLEAN
      BY <2>1 DEF VerbTypes
    <3>2. spoiled' \in {spoiled, TRUE, stand # "start", spoiled \/ focus = "frame"}
      BY DEF RefuseHidden, FocusSelected, RefuseTypeWithoutATarget, SendInput, PageMoves
    <3>3. QED
      BY <3>1, <3>2
  <2>3. landed' \in BOOLEAN
    BY <2>1 DEF VerbTypes, RefuseHidden, FocusSelected, RefuseTypeWithoutATarget, SendInput, PageMoves
  <2>4. hidden' \in BOOLEAN
    BY <2>1 DEF VerbTypes, RefuseHidden, FocusSelected, RefuseTypeWithoutATarget, SendInput,
                PageMoves, watched
  <2>5. focus' \in Holders
    BY <2>1 DEF VerbTypes, RefuseHidden, FocusSelected, RefuseTypeWithoutATarget, SendInput,
                PageMoves, watched
  <2>6. said' \in {"nothing", "done", "no", "error"}
    BY <2>1 DEF VerbTypes, RefuseHidden, FocusSelected, RefuseTypeWithoutATarget, SendInput,
                PageMoves, Answer
  <2>7. stand' \in {"start", "looked", "focused", "sent", "waiting", "pass", "reading", "restore",
                    "answered"}
    BY <1>3, <2>1 DEF VerbTypes
  <2>8. QED
    BY <1>2, <2>1, <2>2, <2>3, <2>4, <2>5, <2>6, <2>7 DEF VerbTypes
<1>5. StandsAsItIs'
  BY <1>1, <1>2 DEF VerbInv, StandsAsItIs, RefuseHidden, FocusSelected, RefuseTypeWithoutATarget,
              SendInput, PageMoves, Answer
<1>6. GuardStands'
  <2>1. CASE RefuseHidden
    BY <1>1, <2>1 DEF VerbInv, GuardStands, RefuseHidden, Refuses, Answer, watched
  <2>2. CASE FocusSelected
    BY <1>1, <2>2 DEF VerbInv, GuardStands, FocusSelected, Answer
  <2>3. CASE RefuseTypeWithoutATarget
    BY <1>1, <2>3 DEF VerbInv, GuardStands, RefuseTypeWithoutATarget, MayTake, Answer, watched
  <2>4. CASE SendInput
    BY <1>1, <2>4 DEF VerbInv, StandsAsItIs, GuardStands, SendInput, Answer, watched
  <2>5. CASE PageMoves
    BY <1>1, <2>5 DEF VerbInv, StandsAsItIs, GuardStands, PageMoves
  <2>6. QED
    BY <2>1, <2>2, <2>3, <2>4, <2>5
<1>7. WaitStands' /\ PassesStand' /\ LoanStands'
  BY <1>1, <1>2, <1>3, WaitsOnly, DetectsOnly, LendsOnly
<1>8. QED
  BY <1>4, <1>5, <1>6, <1>7 DEF VerbInv

(* A wait, and the page that it watches.                                   *)
LEMMA WaitsKeep ==
  ASSUME VerbInv, \/ WaitStarts \/ TextMutates \/ TextRestyled \/ Stirs \/ Ticks \/ IsQuiet
                  \/ WaitEnds
  PROVE  VerbInv'
<1>1. verb \in Waits /\ verb \notin Guarded /\ verb \notin {"detect", "storage", "screenshot"}
      /\ said = "nothing" /\ stand \in {"start", "waiting"}
  BY DEF VerbInv, StandsAsItIs, WaitStarts, TextMutates, TextRestyled, Stirs, Ticks, IsQuiet,
         WaitEnds, Guarded, Waits
<1>2. /\ UNCHANGED <<verb, shared, hidden, focus, signs, spoiled, landed, passes, tries>>
      /\ UNCHANGED <<pattern, lent, declined, told, frames, prompt>>
  BY DEF WaitStarts, TextMutates, TextRestyled, Stirs, Ticks, IsQuiet, WaitEnds, watched, frames,
         prompt
<1>3. /\ stand' \in {"waiting", "answered"} /\ said' \in {"nothing", "done", "no", "error"}
      /\ stand' = "answered" <=> said' # "nothing"
  BY <1>1 DEF WaitStarts, TextMutates, TextRestyled, Stirs, Ticks, IsQuiet, WaitEnds, Answer
<1>4. /\ clock \in 0..Patience + 1 /\ since \in 0..Quiet /\ ago \in 0..Quiet
      /\ shown \in BOOLEAN /\ appeared \in BOOLEAN /\ Patience \in Nat /\ Quiet \in Nat
  BY VerbsAssumption DEF VerbInv, VerbTypes
<1>5. clock' \in 0..Patience + 1
  BY <1>4 DEF WaitStarts, TextMutates, TextRestyled, Stirs, Ticks, IsQuiet, WaitEnds, wait, Elapsed
<1>6. ago' \in 0..Quiet
  BY <1>4 DEF WaitStarts, TextMutates, TextRestyled, Stirs, Ticks, IsQuiet, WaitEnds, wait
<1>7. since' \in 0..Quiet
  BY <1>4 DEF WaitStarts, TextMutates, TextRestyled, Stirs, Ticks, IsQuiet, WaitEnds, wait, Restarted
<1>8. shown' \in BOOLEAN
  BY <1>4 DEF WaitStarts, TextMutates, TextRestyled, Stirs, Ticks, IsQuiet, WaitEnds, watched
<1>9. appeared' \in BOOLEAN
  <2>1. (appeared \/ shown') \in BOOLEAN
    OBVIOUS
  <2>2. appeared' \in {appeared, shown, appeared \/ shown'}
    BY DEF WaitStarts, TextMutates, TextRestyled, Stirs, Ticks, IsQuiet, WaitEnds, wait
  <2>3. QED
    BY <1>4, <2>1, <2>2
<1>10. VerbTypes'
  <2>1. VerbTypes
    BY DEF VerbInv
  <2>2. QED
    BY <1>2, <1>3, <1>5, <1>6, <1>7, <1>8, <1>9, <2>1 DEF VerbTypes
<1>11. StandsAsItIs'
  BY <1>1, <1>2, <1>3 DEF StandsAsItIs
<1>12. WaitStands'
  <2>1. verb = "wait-text" /\ stand' = "waiting" => ~appeared'
    BY <1>1 DEF VerbInv, WaitStands, WaitStarts, FirstLook, TextMutates, TextRestyled, Stirs, Ticks,
                IsQuiet, WaitEnds, Answer, wait
  <2>2. verb = "wait-stable" => since' = ago'
    BY <1>1, <1>4 DEF VerbInv, WaitStands, WaitStarts, TextMutates, TextRestyled, Stirs, Restarted,
                      Ticks, IsQuiet, WaitEnds, wait
  <2>3. verb = "wait-text" /\ said' = "no" => ~shown' /\ ~appeared'
    BY <1>1 DEF VerbInv, WaitStands, WaitStarts, FirstLook, TextMutates, TextRestyled, Stirs, Ticks,
                IsQuiet, WaitEnds, LastLook, Answer, wait, watched
  <2>4. verb = "wait-text" /\ said' = "done" => shown'
    BY <1>1 DEF WaitStarts, FirstLook, TextMutates, TextRestyled, Stirs, Ticks,
                IsQuiet, WaitEnds, LastLook, Answer, watched
  <2>5. verb \in {"wait-idle", "wait-stable"} /\ said' = "done" => ago' = Quiet
    BY <1>1, <1>4 DEF VerbInv, WaitStands, WaitStarts, TextMutates, TextRestyled, Stirs, Ticks,
                      IsQuiet, WaitEnds, Answer, wait
  <2>6. QED
    BY <1>2, <2>1, <2>2, <2>3, <2>4, <2>5 DEF WaitStands, WaitsTellTheTruth
<1>13. GuardStands' /\ PassesStand' /\ LoanStands'
  BY <1>1, <1>2, <1>3, GuardsOnly, DetectsOnly, LendsOnly
<1>14. QED
  BY <1>10, <1>11, <1>12, <1>13 DEF VerbInv

---------------------------------------------------------------------------
(* Of the signs of a kind the challenge is kept: one is reported exactly   *)
(* where one was seen, and one that may solve itself was seen.             *)
LEMMA ChallengeIsKept ==
  ASSUME NEW found \in SUBSET Signs
  PROVE  /\ Challenges(found) # {} <=> \E s \in found : ChallengeAt(s)
         /\ Retryable(found) => MaySolve(found)
<1>1. /\ Signs = {1, 2, 3, 4}
      /\ Checks[1].challenge = TRUE /\ Checks[2].challenge = TRUE
      /\ Checks[3].challenge = FALSE /\ Checks[4].challenge = TRUE
      /\ Checks[1].sure = 3 /\ Checks[2].sure = 1 /\ Checks[3].sure = 3 /\ Checks[4].sure = 3
      /\ Checks[1].kind = "solvable" /\ Checks[2].kind = "solvable"
      /\ Checks[3].kind = "human" /\ Checks[4].kind = "human"
  BY DEF Signs, Checks
<1>2. ASSUME NEW s \in found, ChallengeAt(s) PROVE \E t \in Deduplicate(found) : ChallengeAt(t)
  <2>1. s \in {1, 2, 4}
    BY <1>1, <1>2 DEF ChallengeAt
  <2>2. 1 \in found => 1 \in Deduplicate(found)
    <3>1. ASSUME NEW j \in found, SameKind(1, j)
          PROVE  ChallengeAt(1) = ChallengeAt(j) /\ Checks[j].sure <= Checks[1].sure
      <4>1. j = 1 \/ j = 2
        BY <1>1, <3>1 DEF SameKind
      <4>2. CASE j = 1
        BY <1>1, <4>2 DEF ChallengeAt
      <4>3. CASE j = 2
        <5>1. ChallengeAt(1) = ChallengeAt(2)
          BY <1>1 DEF ChallengeAt
        <5>2. Checks[2].sure <= Checks[1].sure
          BY <1>1
        <5>3. QED
          BY <4>3, <5>1, <5>2
      <4>4. QED
        BY <4>1, <4>2, <4>3
    <3>2. QED
      BY <3>1 DEF Deduplicate
  <2>3. CASE s = 4
    BY <1>1, <1>2, <2>3 DEF Deduplicate, ChallengeAt, SameKind
  <2>4. CASE s = 2 /\ 1 \notin found
    BY <1>1, <1>2, <2>4 DEF Deduplicate, ChallengeAt, SameKind
  <2>5. QED
    BY <1>1, <1>2, <2>1, <2>2, <2>3, <2>4 DEF ChallengeAt
<1>3. Deduplicate(found) \subseteq found
  BY DEF Deduplicate
<1>4. QED
  BY <1>2, <1>3 DEF Challenges, Retryable, MaySolve

(* A detection: a pass is two looks, and it looks again after a pass that  *)
(* may solve itself, while it has a retry.                                 *)
LEMMA DetectsKeep ==
  ASSUME VerbInv, PageResolves \/ Look \/ LookAgain \/ DetectFails
  PROVE  VerbInv'
<1>1. verb = "detect" /\ verb \notin Waits /\ verb \notin Guarded /\ said = "nothing"
      /\ stand \in {"start", "pass"}
  BY DEF VerbInv, VerbTypes, StandsAsItIs, PageResolves, Look, LookAgain, DetectFails, Guarded, Waits
<1>2. /\ UNCHANGED <<verb, shared, hidden, focus, shown, clock, since, ago, appeared, tries, landed>>
      /\ UNCHANGED <<pattern, lent, declined, told, frames, prompt>>
  BY DEF PageResolves, Look, LookAgain, DetectFails, watched, wait, frames, prompt
<1>3. VerbTypes /\ PassesStand /\ tries = <<>> /\ MaxRetries \in Nat
  BY <1>1, VerbsAssumption DEF VerbInv, LoanStands
<1>4. passes \in Seq(SUBSET Signs) /\ Len(passes) \in Nat
  BY <1>3 DEF VerbTypes
<1>5. /\ stand' \in {"start", "pass", "answered"} /\ said' \in {"nothing", "done", "no", "error"}
      /\ stand' = "answered" <=> said' # "nothing"
      /\ stand' = "start" => stand = "start" \/ LookAgain
  BY <1>1 DEF PageResolves, Look, LookAgain, DetectFails, Answer
<1>6. spoiled' \in BOOLEAN
  <2>1. (spoiled \/ stand # "start") \in BOOLEAN /\ spoiled \in BOOLEAN
    BY <1>3 DEF VerbTypes
  <2>2. spoiled' \in {spoiled, TRUE, spoiled \/ stand # "start"}
    BY DEF PageResolves, Look, LookAgain, DetectFails, RunDetection
  <2>3. QED
    BY <2>1, <2>2
<1>7. signs' \subseteq Signs
  BY <1>3 DEF VerbTypes, PageResolves, Look, LookAgain, DetectFails, watched
<1>8. passes' \in Seq(SUBSET Signs) /\ PassesStand'
  <2>1. CASE PageResolves
    <3>1. UNCHANGED <<verb, stand, said, passes>>
      BY <2>1 DEF PageResolves
    <3>2. QED
      BY <1>3, <1>4, <3>1 DEF PassesStand
  <2>2. CASE DetectFails
    <3>1. UNCHANGED <<verb, passes>> /\ stand' = "answered" /\ said' = "error"
      BY <2>2 DEF DetectFails, Answer
    <3>2. QED
      BY <1>3, <1>4, <3>1 DEF PassesStand
  <2>3. CASE Look
    <3>1. PICK found \in SUBSET signs : passes' = Append(passes, found)
      BY <2>3 DEF Look
    <3>2. found \in SUBSET Signs
      BY <1>3 DEF VerbTypes
    <3>3. stand = "start" /\ stand' = "pass" /\ said' = "nothing"
      BY <1>1, <2>3 DEF Look
    <3>4. /\ passes' \in Seq(SUBSET Signs) /\ Len(passes') = Len(passes) + 1
          /\ \A i \in 1..Len(passes) : passes'[i] = passes[i]
      BY <1>4, <3>1, <3>2
    <3>5. \A i \in 1..Len(passes') : i < Len(passes') => MaySolve(passes'[i])
      BY <1>3, <1>4, <3>3, <3>4 DEF PassesStand
    <3>6. QED
      BY <1>1, <1>2, <1>3, <1>4, <3>3, <3>4, <3>5 DEF PassesStand, MaySolve
  <2>4. CASE LookAgain
    <3> DEFINE last == Len(passes)
    <3>1. stand = "pass" /\ last > 0 /\ last \in 1..Len(passes)
      BY <1>3, <1>4, <2>4 DEF LookAgain, PassesStand
    <3>2. PICK found \in SUBSET signs :
            LET pass == Last(passes) \union found
            IN /\ passes' = [passes EXCEPT ![Len(passes)] = pass]
               /\ IF Retryable(pass) /\ Len(passes) <= MaxRetries
                  THEN stand' = "start" /\ UNCHANGED said
                  ELSE Answer(IF Challenges(pass) = {} THEN "done" ELSE "no")
      BY <2>4 DEF LookAgain
    <3> DEFINE pass == Last(passes) \union found
    <3>3. passes[last] \in SUBSET Signs /\ pass = passes[last] \union found
      BY <1>4, <3>1 DEF Last
    <3>4. pass \in SUBSET Signs
      BY <1>3, <3>3 DEF VerbTypes
    <3>5. /\ Challenges(pass) # {} <=> \E s \in pass : ChallengeAt(s)
          /\ Retryable(pass) => MaySolve(pass)
      BY <3>4, ChallengeIsKept
    <3>6. passes' = [passes EXCEPT ![last] = pass]
      BY <3>2
    <3> HIDE DEF pass
    <3>7. /\ passes' \in Seq(SUBSET Signs) /\ Len(passes') = last
          /\ passes'[last] = pass /\ \A i \in 1..last : i # last => passes'[i] = passes[i]
      BY <1>4, <3>1, <3>4, <3>6
    <3>8. \A i \in 1..last : i < last => MaySolve(passes'[i])
      BY <1>3, <1>4, <3>1, <3>7 DEF PassesStand
    <3>9. \/ stand' = "start" /\ said' = "nothing" /\ Retryable(pass) /\ last <= MaxRetries
          \/ /\ stand' = "answered" /\ said' \in {"done", "no"}
             /\ said' = "no" <=> Challenges(pass) # {}
      BY <1>1, <3>2 DEF pass, Answer
    <3>10. Len(passes) <= MaxRetries + 1
      BY <1>3 DEF PassesStand
    <3>11. \A i \in 1..last : stand' = "start" \/ i < last => MaySolve(passes'[i])
      BY <1>4, <3>5, <3>7, <3>8, <3>9
    <3>12. verb' = "detect" /\ stand' # "pass"
      BY <1>1, <1>2, <3>9
    <3> DEFINE n == Len(passes')
    <3>13. n = last /\ n > 0 /\ n <= MaxRetries + 1 /\ (stand' = "start" => n <= MaxRetries)
      BY <3>1, <3>7, <3>9, <3>10
    <3>14. said' \in {"done", "no"} => (said' = "no" <=> \E s \in passes'[n] : ChallengeAt(s))
      BY <3>5, <3>7, <3>9, <3>13
    <3>15. \A i \in 1..n : stand' = "start" \/ i < n => MaySolve(passes'[i])
      BY <3>11, <3>13
    <3>16. PassesStand'
      BY <3>12, <3>13, <3>14, <3>15 DEF PassesStand, MaySolve
    <3>17. QED
      BY <3>7, <3>16
  <2>5. QED
    BY <2>1, <2>2, <2>3, <2>4
<1>9. VerbTypes'
  BY <1>2, <1>3, <1>5, <1>6, <1>7, <1>8 DEF VerbTypes
<1>10. StandsAsItIs' /\ GuardStands' /\ WaitStands'
  BY <1>1, <1>2, <1>5, GuardsOnly, WaitsOnly DEF StandsAsItIs
<1>11. LoanStands'
  BY <1>1, <1>2, LendsOnly
<1>12. QED
  BY <1>8, <1>9, <1>10, <1>11 DEF VerbInv

(* A screenshot, a storage read, and a navigation.                         *)
LEMMA CapturesKeep ==
  ASSUME VerbInv, Capture PROVE VerbInv'
<1>1. verb = "screenshot" /\ verb \notin Waits /\ verb \notin Guarded /\ said = "nothing"
      /\ stand = "start" /\ stand' \in {"start", "answered"}
  BY DEF VerbInv, StandsAsItIs, Capture, Guarded, Waits, Answer
<1>2. /\ UNCHANGED <<verb, shared, hidden, focus, shown, signs, spoiled, landed, clock, since, ago,
                     appeared, passes>>
      /\ UNCHANGED <<pattern, lent, declined, told>>
  BY DEF Capture, watched, wait, frames, prompt
<1>3. VerbTypes /\ LoanStands /\ tries \in Seq(BOOLEAN) /\ Len(tries) \in {0, 1}
  <2>1. VerbTypes /\ LoanStands
    BY DEF VerbInv
  <2>2. tries \in Seq(BOOLEAN) /\ Len(tries) <= 1
    BY <1>1, <2>1 DEF VerbTypes, LoanStands
  <2>3. Len(tries) \in Nat
    BY <2>2
  <2>4. ASSUME NEW n \in Nat, n <= 1 PROVE n \in {0, 1}
    BY <2>4
  <2>5. QED
    BY <2>1, <2>2, <2>3, <2>4
<1>4. \/ /\ tries' = tries /\ stand' = "answered" /\ said' = "error"
      \/ /\ \E blank \in BOOLEAN : tries' = Append(tries, blank)
         /\ stand' = "start" => Len(tries) < 1 /\ said' = said
         /\ stand' = "answered" => said' = "done" /\ (tries'[Len(tries')] => Len(tries') = 2)
  <2>1. CASE UNCHANGED tries /\ Answer("error")
    BY <2>1 DEF Answer
  <2>2. ASSUME NEW blank \in BOOLEAN, tries' = Append(tries, blank),
               IF blank /\ Len(tries) < 1 THEN UNCHANGED <<stand, said>> ELSE Answer("done")
        PROVE  /\ stand' = "start" => Len(tries) < 1 /\ said' = said
               /\ stand' = "answered" => said' = "done" /\ (tries'[Len(tries')] => Len(tries') = 2)
    <3>1. Len(tries') = Len(tries) + 1 /\ tries'[Len(tries')] = blank
      BY <1>3, <2>2
    <3>2. QED
      BY <1>1, <1>3, <2>2, <3>1 DEF Answer
  <2>3. QED
    BY <2>1, <2>2 DEF Capture
<1>5. tries' \in Seq(BOOLEAN) /\ (stand' = "start" => Len(tries') <= 1)
  BY <1>3, <1>4
<1>6. said' \in {"nothing", "done", "error"} /\ (stand' = "answered" <=> said' # "nothing")
  BY <1>1, <1>4
<1>7. VerbTypes' /\ StandsAsItIs'
  BY <1>1, <1>2, <1>3, <1>5, <1>6 DEF VerbTypes, StandsAsItIs
<1>8. GuardStands' /\ WaitStands' /\ PassesStand'
  BY <1>1, <1>2, GuardsOnly, WaitsOnly, DetectsOnly
<1>9. LoanStands'
  BY <1>1, <1>2, <1>3, <1>4, <1>5, <1>6 DEF LoanStands
<1>10. QED
  BY <1>7, <1>8, <1>9 DEF VerbInv

LEMMA LoansKeep ==
  ASSUME VerbInv, Borrow \/ ReadStorage \/ GiveBack PROVE VerbInv'
<1>1. /\ verb = "storage" /\ verb \notin Waits /\ verb \notin Guarded /\ said = "nothing"
      /\ stand' \in {"reading", "restore", "answered"}
  BY DEF VerbInv, StandsAsItIs, Borrow, ReadStorage, GiveBack, Guarded, Waits, Answer
<1>2. UNCHANGED <<verb, shared, hidden, focus, shown, signs, spoiled, landed, clock, since, ago,
                  appeared, passes, tries, declined, told>>
  BY DEF Borrow, ReadStorage, GiveBack, watched, wait, prompt
<1>3. VerbTypes /\ LoanStands /\ tries = <<>>
  BY <1>1 DEF VerbInv, LoanStands
<1>4. pattern' \in {"none", "run", "key"} /\ lent' \in {"none", "run"}
  BY <1>3 DEF VerbTypes, LoanStands, Borrow, ReadStorage, GiveBack, Restored
<1>5. said' \in {"nothing", "done", "error"} /\ (stand' = "answered" <=> said' # "nothing")
  BY <1>1 DEF Borrow, ReadStorage, GiveBack, Answer
<1>6. VerbTypes' /\ StandsAsItIs'
  BY <1>1, <1>2, <1>3, <1>4, <1>5 DEF VerbTypes, StandsAsItIs
<1>7. GuardStands' /\ WaitStands' /\ PassesStand'
  BY <1>1, <1>2, GuardsOnly, WaitsOnly, DetectsOnly
<1>8. stand' = "answered" => pattern' = lent'
  BY <1>1 DEF Borrow, ReadStorage, GiveBack, Restored, Answer
<1>9. LoanStands'
  BY <1>1, <1>2, <1>3, <1>8 DEF LoanStands
<1>10. QED
  BY <1>6, <1>7, <1>9 DEF VerbInv

LEMMA NavigatesKeep ==
  ASSUME VerbInv, NavigatePage PROVE VerbInv'
<1>1. /\ verb = "navigate" /\ verb \notin Waits /\ verb \notin Guarded /\ said = "nothing"
      /\ stand' = "answered" /\ said' \in {"done", "error"}
  BY DEF VerbInv, StandsAsItIs, NavigatePage, Guarded, Waits, Answer
<1>2. UNCHANGED <<verb, shared, hidden, focus, shown, signs, spoiled, landed, clock, since, ago,
                  appeared, passes, tries, pattern, lent>>
  BY DEF NavigatePage, watched, wait, frames
<1>3. VerbTypes /\ LoanStands /\ tries = <<>>
  BY <1>1 DEF VerbInv, LoanStands
<1>4. /\ UNCHANGED <<declined, told>> \/ (declined' = TRUE /\ told' = Collects(FALSE))
      /\ Collects(FALSE) \in BOOLEAN /\ (~shared => Collects(FALSE))
  BY <1>3 DEF NavigatePage, prompt, Collects, VerbTypes
<1>5. declined' \in BOOLEAN /\ told' \in BOOLEAN
  BY <1>3, <1>4 DEF VerbTypes
<1>6. VerbTypes' /\ StandsAsItIs'
  BY <1>1, <1>2, <1>3, <1>5 DEF VerbTypes, StandsAsItIs
<1>7. GuardStands' /\ WaitStands' /\ PassesStand'
  BY <1>1, <1>2, GuardsOnly, WaitsOnly, DetectsOnly
<1>8. declined' /\ ~shared' => told'
  <2>1. CASE UNCHANGED <<declined, told>>
    BY <1>2, <1>3, <2>1 DEF LoanStands
  <2>2. CASE told' = Collects(FALSE)
    BY <1>2, <1>4, <2>2, Zenon
  <2>3. QED
    BY <1>4, <2>1, <2>2
<1>9. LoanStands'
  BY <1>1, <1>2, <1>3, <1>8 DEF LoanStands
<1>10. QED
  BY <1>6, <1>7, <1>9 DEF VerbInv

---------------------------------------------------------------------------
LEMMA VerbStays == ASSUME VerbInv, UNCHANGED verbVars PROVE VerbInv'
<1>1. UNCHANGED <<verb, shared, stand, hidden, focus, shown, signs, spoiled, landed, clock, since,
                  ago, appeared, passes, tries, pattern, lent, declined, told, said>>
  BY DEF verbVars, watched, wait, frames, prompt
<1>2. VerbTypes'
  BY <1>1 DEF VerbInv, VerbTypes
<1>3. StandsAsItIs' /\ GuardStands' /\ WaitStands'
  BY <1>1 DEF VerbInv, StandsAsItIs, GuardStands, WaitStands, WaitsTellTheTruth
<1>4. PassesStand' /\ LoanStands'
  BY <1>1 DEF VerbInv, PassesStand, LoanStands
<1>5. QED
  BY <1>2, <1>3, <1>4 DEF VerbInv

LEMMA VerbSteps == ASSUME VerbInv, [Next]_vars PROVE VerbInv'
<1>1. CASE VerbNext
  BY <1>1, GuardsKeep, WaitsKeep, DetectsKeep, CapturesKeep, LoansKeep, NavigatesKeep
     DEF VerbNext, VerbStep
<1>2. CASE ~VerbNext
  <2>1. UNCHANGED verbVars
    BY <1>2 DEF Next, vars, Window, Attach, Verb
  <2>2. QED
    BY <2>1, VerbStays
<1>3. QED
  BY <1>1, <1>2

LEMMA VerbsOwnWord == ASSUME VerbInv PROVE VerbsAreHonest
<1>1. VerbTypeOK
  BY DEF VerbInv, VerbTypes, PassesStand, VerbTypeOK
<1>2. InputArrives /\ WaitsTellTheTruth
  BY DEF VerbInv, GuardStands, WaitStands, InputArrives
<1>3. ReportsTheLastPass
  <2>1. DOMAIN passes = 1..Len(passes) /\ Last(passes) = passes[Len(passes)]
    BY DEF VerbInv, VerbTypes, Last
  <2>2. QED
    BY <2>1 DEF VerbInv, PassesStand, MaySolve, ReportsTheLastPass
<1>4. HandsBack
  BY DEF VerbInv, LoanStands, HandsBack, Last
<1>5. QED
  BY <1>1, <1>2, <1>3, <1>4 DEF VerbsAreHonest

(* A verb that ends well did what it says, for any number of ticks and     *)
(* retries: its input reached what takes it, a wait says what the page     *)
(* did, a detection reports its last pass, and what was borrowed is given  *)
(* back (curated_runtime, interstitial.detect_with_retry, storage_get).    *)
THEOREM VerbsAreHonestTheorem == Spec => []VerbsAreHonest
<1>1. Init => VerbInv
  BY VerbStarts DEF Init
<1>2. VerbInv /\ [Next]_vars => VerbInv'
  BY VerbSteps
<1>3. VerbInv => VerbsAreHonest
  BY VerbsOwnWord
<1>4. QED
  BY <1>1, <1>2, <1>3, PTL DEF Spec

(***************************************************************************)
(* The screencast.                                                         *)
(***************************************************************************)
Shown == waiting \union buffer \union refused \union coming

CastTypes ==
  /\ castPhase \in {"idle", "starting", "recording", "stopping", "draining", "over"}
  /\ active \in BOOLEAN /\ listening \in BOOLEAN /\ casting \in BOOLEAN /\ online \in BOOLEAN
  /\ waiting \subseteq F /\ buffer \subseteq F /\ refused \subseteq buffer
  /\ acks \subseteq buffer /\ coming \subseteq waiting /\ (~online => coming = {})
  /\ wrote \in {"none", "failed", "refused", "written"}

RecorderStands ==
  /\ castPhase = "idle" => Shown = {} /\ ~casting
  /\ castPhase = "idle" => ~listening
  /\ castPhase \in {"starting", "recording"} => active /\ listening
  /\ castPhase \in {"stopping", "draining", "over"} => ~active
  /\ castPhase \in {"draining", "over"} => ~listening
  /\ castPhase = "over" /\ wrote # "failed" => acks = {}

(* The frames that were shown are numbered one after the other, the        *)
(* buffer is the first of them, and while it takes any the rest is on its  *)
(* way.                                                                    *)
InOrder ==
  /\ \E n \in 0..Frames : Shown = 1..n
  /\ \E b \in 0..MaxFrames : buffer = 1..b
  /\ buffer \intersect coming = {}
  /\ listening /\ active /\ HasRoom /\ online => Shown \ buffer = coming

Flows ==
  castPhase \in {"starting", "recording"} /\ online /\ ~Full =>
    waiting \subseteq coming \union acks \union refused

CastInv == CastTypes /\ RecorderStands /\ InOrder /\ Flows

---------------------------------------------------------------------------
LEMMA Counting == ASSUME NEW n \in Nat PROVE Cardinality(1..n) = n
<1>1. Cardinality(1..n) = IF 1 > n THEN 0 ELSE n - 1 + 1
  BY FS_Interval
<1>2. QED
  BY <1>1

LEMMA CastStays == ASSUME CastInv, UNCHANGED castVars PROVE CastInv'
<1>1. UNCHANGED <<castPhase, active, listening, buffer, acks, casting, waiting, coming, refused,
                  online, wrote>>
  BY DEF castVars
<1>2. CastTypes' /\ RecorderStands'
  BY <1>1 DEF CastInv, CastTypes, RecorderStands, Shown
<1>3. InOrder' /\ Flows'
  BY <1>1 DEF CastInv, InOrder, Flows, Shown, HasRoom, Full
<1>4. QED
  BY <1>2, <1>3 DEF CastInv

LEMMA CastBegins == CastInit => CastInv
<1>1. SUFFICES ASSUME CastInit PROVE CastInv
  OBVIOUS
<1>2. CastTypes /\ RecorderStands /\ Flows
  BY <1>1 DEF CastInit, CastTypes, RecorderStands, Flows, Shown
<1>3. 0 \in 0..MaxFrames /\ 0 \in 0..Frames /\ 1..0 = {}
  BY CastAssumption
<1>4. InOrder
  BY <1>1, <1>3 DEF CastInit, InOrder, Shown
<1>5. QED
  BY <1>2, <1>4 DEF CastInv

(* A full buffer has no room, and one with room is not full.               *)
LEMMA RoomOrFull ==
  ASSUME CastInv
  PROVE  /\ HasRoom <=> ~Full
         /\ \E b \in 0..MaxFrames : buffer = 1..b /\ Cardinality(buffer) = b
<1>1. PICK b \in 0..MaxFrames : buffer = 1..b
  BY DEF CastInv, InOrder
<1>2. b \in Nat /\ MaxFrames \in Nat /\ Cardinality(buffer) = b
  BY <1>1, CastAssumption, Counting
<1>3. QED
  BY <1>1, <1>2 DEF HasRoom, Full

(* The page shows the next frame.                                          *)
LEMMA PageShowsKeeps == ASSUME CastInv, PageShows PROVE CastInv'
<1>1. PICK f \in F : /\ f = Cardinality(waiting \union buffer \union refused \union coming) + 1
                     /\ waiting' = waiting \union {f} /\ coming' = coming \union {f}
  BY DEF PageShows
<1>2. UNCHANGED <<castPhase, active, listening, buffer, acks, casting, refused, online, wrote>>
      /\ casting /\ online
  BY DEF PageShows, recorderVars
<1>3. PICK n \in 0..Frames : Shown = 1..n
  BY DEF CastInv, InOrder
<1>4. n \in Nat /\ f = n + 1 /\ f \in 0..Frames
  <2>1. n \in Nat /\ Cardinality(1..n) = n
    BY CastAssumption, Counting
  <2>2. f = n + 1
    BY <1>1, <1>3, <2>1 DEF Shown
  <2>3. QED
    BY <2>1, <2>2, CastAssumption DEF F
<1>5. f \notin Shown /\ Shown' = Shown \union {f} /\ 1..f = 1..n \union {f}
  <2>1. f \notin 1..n /\ 1..f = 1..n \union {f}
    BY <1>4
  <2>2. QED
    BY <1>1, <1>2, <1>3, <2>1 DEF Shown
<1>6. CastTypes' /\ RecorderStands'
  <2>1. castPhase # "idle"
    BY <1>2 DEF CastInv, RecorderStands
  <2>2. CastTypes'
    BY <1>1, <1>2 DEF CastInv, CastTypes
  <2>3. RecorderStands'
    BY <1>1, <1>2, <2>1 DEF CastInv, RecorderStands
  <2>4. QED
    BY <2>2, <2>3
<1>7. InOrder'
  <2>1. Shown' = 1..f
    BY <1>3, <1>5
  <2>2. buffer' \intersect coming' = {} /\ f \notin buffer
    <3>1. f \notin buffer
      BY <1>5 DEF Shown
    <3>2. QED
      BY <1>1, <1>2, <3>1 DEF CastInv, InOrder
  <2>3. listening' /\ active' /\ HasRoom' /\ online' => Shown' \ buffer' = coming'
    BY <1>1, <1>2, <1>5, <2>2 DEF CastInv, InOrder, HasRoom
  <2>4. \E b \in 0..MaxFrames : buffer' = 1..b
    BY <1>2 DEF CastInv, InOrder
  <2>5. QED
    BY <1>4, <2>1, <2>2, <2>3, <2>4 DEF InOrder
<1>8. Flows'
  BY <1>1, <1>2 DEF CastInv, Flows, Full
<1>9. QED
  BY <1>6, <1>7, <1>8 DEF CastInv

(* The reader takes the first frame of those on their way.                 *)
LEMMA FrameArrivesKeeps == ASSUME CastInv, FrameArrives PROVE CastInv'
<1>1. PICK f \in coming : /\ \A g \in coming : f <= g
                          /\ coming' = coming \ {f}
                          /\ IF listening /\ active /\ HasRoom
                             THEN buffer' = buffer \union {f} /\ acks' = acks \union {f}
                             ELSE UNCHANGED <<buffer, acks>>
  BY DEF FrameArrives, Holds
<1>2. UNCHANGED <<castPhase, active, listening, waiting, casting, refused, online, wrote>>
  BY DEF FrameArrives
<1>3. CastTypes /\ RecorderStands /\ InOrder /\ Flows /\ f \in waiting /\ f \in F
  BY <1>1 DEF CastInv, CastTypes
<1>4. castPhase # "idle"
  BY <1>1 DEF CastInv, RecorderStands, Shown
<1>5. CastTypes' /\ RecorderStands'
  <2>1. CastTypes'
    BY <1>1, <1>2, <1>3 DEF CastTypes
  <2>2. RecorderStands'
    BY <1>1, <1>2, <1>3, <1>4 DEF RecorderStands
  <2>3. QED
    BY <2>1, <2>2
<1>6. Shown' = Shown
  BY <1>1, <1>2, <1>3 DEF Shown
<1>7. CASE listening /\ active /\ HasRoom
  <2>1. buffer' = buffer \union {f} /\ acks' = acks \union {f}
    BY <1>1, <1>7
  <2>2. PICK n \in 0..Frames : Shown = 1..n
    BY <1>3 DEF InOrder
  <2>3. PICK b \in 0..MaxFrames : buffer = 1..b /\ Cardinality(buffer) = b
    BY RoomOrFull
  <2>4. b < MaxFrames /\ ~Full
    BY <1>7, <2>3, RoomOrFull DEF HasRoom
  <2>5. f \in 1..n /\ f \notin 1..b
    BY <1>1, <1>3, <2>2, <2>3 DEF InOrder, Shown
  <2>6. online => coming = 1..n \ 1..b
    BY <1>3, <1>7, <2>2, <2>3 DEF InOrder
  <2>7. ASSUME online PROVE f = b + 1
    <3>1. b + 1 \in coming
      BY <2>2, <2>3, <2>5, <2>6, <2>7, CastAssumption
    <3>2. f <= b + 1
      BY <1>1, <3>1
    <3>3. QED
      BY <2>2, <2>3, <2>5, <3>2, CastAssumption
  <2>8. online
    BY <1>1, <1>3 DEF CastTypes
  <2>9. buffer' = 1..(b + 1) /\ b + 1 \in 0..MaxFrames
    BY <2>1, <2>3, <2>4, <2>7, <2>8, CastAssumption
  <2>10. InOrder'
    BY <1>1, <1>2, <1>3, <1>6, <1>7, <2>1, <2>9 DEF InOrder
  <2>11. Flows'
    BY <1>1, <1>2, <1>3, <2>1, <2>4 DEF Flows
  <2>12. QED
    BY <1>5, <2>10, <2>11 DEF CastInv
<1>8. CASE ~(listening /\ active /\ HasRoom)
  <2>1. UNCHANGED <<buffer, acks>>
    BY <1>1, <1>8
  <2>2. InOrder'
    BY <1>1, <1>2, <1>3, <1>6, <1>8, <2>1 DEF InOrder, HasRoom
  <2>3. castPhase \notin {"starting", "recording"} \/ Full
    BY <1>3, <1>8, RoomOrFull DEF RecorderStands
  <2>4. Flows'
    BY <1>2, <2>1, <2>3 DEF Flows, Full
  <2>5. QED
    BY <1>5, <2>2, <2>4 DEF CastInv
<1>9. QED
  BY <1>7, <1>8

(* Nothing else changes what the frames are, but for an acknowledgement,   *)
(* which Chrome counts off, and a lost connection.                         *)
LEMMA AcksKeep ==
  ASSUME CastInv, Acknowledges \/ AckFails \/ CastDrops PROVE CastInv'
<1>1. UNCHANGED <<castPhase, active, listening, buffer, casting, wrote>>
  BY DEF Acknowledges, AckFails, CastDrops, recorderVars
<1>2. CastTypes /\ RecorderStands /\ InOrder /\ Flows
  BY DEF CastInv
<1>3. CASE Acknowledges
  <2>1. PICK f \in acks : waiting' = waiting \ {f} /\ acks' = acks \ {f}
    BY <1>3 DEF Acknowledges
  <2>2. UNCHANGED <<coming, refused, online>> /\ f \in buffer /\ f \notin coming
    BY <1>2, <1>3, <2>1 DEF Acknowledges, CastTypes, InOrder
  <2>3. Shown' = Shown
    BY <1>1, <2>1, <2>2 DEF Shown
  <2>4. CastTypes' /\ RecorderStands' /\ InOrder' /\ Flows'
    BY <1>1, <1>2, <2>1, <2>2, <2>3 DEF CastTypes, RecorderStands, InOrder, Flows, HasRoom, Full
  <2>5. QED
    BY <2>4 DEF CastInv
<1>4. CASE AckFails
  <2>1. PICK f \in acks : acks' = acks \ {f} /\ refused' = refused \union {f}
    BY <1>4 DEF AckFails
  <2>2. UNCHANGED <<coming, waiting, online>> /\ f \in buffer
    BY <1>2, <1>4, <2>1 DEF AckFails, CastTypes
  <2>3. Shown' = Shown
    BY <1>1, <2>1, <2>2 DEF Shown
  <2>4. CastTypes' /\ RecorderStands' /\ InOrder' /\ Flows'
    BY <1>1, <1>2, <2>1, <2>2, <2>3 DEF CastTypes, RecorderStands, InOrder, Flows, HasRoom, Full
  <2>5. QED
    BY <2>4 DEF CastInv
<1>5. CASE CastDrops
  <2>1. ~online' /\ coming' = {} /\ UNCHANGED <<acks, waiting, refused>>
    BY <1>5 DEF CastDrops, recorderVars
  <2>2. Shown' = Shown
    BY <1>1, <1>2, <2>1 DEF Shown, CastTypes
  <2>3. CastTypes' /\ RecorderStands' /\ InOrder' /\ Flows'
    BY <1>1, <1>2, <1>5, <2>1, <2>2
       DEF CastTypes, RecorderStands, InOrder, Flows, CastDrops
  <2>4. QED
    BY <2>3 DEF CastInv
<1>6. QED
  BY <1>3, <1>4, <1>5

(* The verb itself.                                                        *)
LEMMA RecorderKeeps ==
  ASSUME CastInv, Recorder \/ ChromeCasts PROVE CastInv'
<1>1. UNCHANGED <<waiting, coming, refused, online>>
  BY DEF Recorder, ChromeCasts, CastStarts, StartAnswered, PollEnds, StopAnswered, Drains, pageVars
<1>2. CastTypes /\ RecorderStands /\ InOrder /\ Flows
  BY DEF CastInv
<1>3. buffer' = buffer
  BY <1>2 DEF Recorder, ChromeCasts, CastStarts, StartAnswered, PollEnds, StopAnswered, Drains,
              recorderVars, RecorderStands, Shown
<1>4. Shown' = Shown /\ (HasRoom <=> HasRoom') /\ (Full <=> Full')
  BY <1>1, <1>3 DEF Shown, HasRoom, Full
<1>5. CASE CastStarts
  <2>1. /\ castPhase = "idle" /\ castPhase' = "starting" /\ active' = TRUE /\ listening' = TRUE
        /\ acks' = {} /\ UNCHANGED <<casting, wrote>> /\ Shown = {} /\ ~casting
    BY <1>2, <1>5 DEF CastStarts, pageVars, RecorderStands
  <2>2. CastTypes' /\ RecorderStands'
    BY <1>1, <1>2, <1>3, <1>4, <2>1 DEF CastTypes, RecorderStands
  <2>3. InOrder' /\ Flows'
    BY <1>1, <1>2, <1>3, <1>4, <2>1 DEF InOrder, Flows, Shown
  <2>4. QED
    BY <2>2, <2>3 DEF CastInv
<1>6. CASE ~CastStarts
  <2>1. CastTypes'
    BY <1>1, <1>2, <1>3, <1>6 DEF CastTypes, Recorder, ChromeCasts, StartAnswered, PollEnds,
                                StopAnswered, Drains, recorderVars, pageVars
  <2>2. RecorderStands'
    <3>1. CASE ChromeCasts
      BY <1>1, <1>2, <1>3, <1>4, <3>1 DEF RecorderStands, ChromeCasts, recorderVars
    <3>2. CASE StartAnswered
      BY <1>1, <1>2, <1>3, <1>4, <3>2 DEF RecorderStands, StartAnswered, pageVars
    <3>3. CASE PollEnds
      BY <1>1, <1>2, <1>3, <1>4, <3>3 DEF RecorderStands, PollEnds, pageVars
    <3>4. CASE StopAnswered
      BY <1>1, <1>2, <1>3, <1>4, <3>4 DEF RecorderStands, StopAnswered
    <3>5. CASE Drains
      BY <1>1, <1>2, <1>3, <1>4, <3>5 DEF RecorderStands, Drains, pageVars
    <3>6. QED
      BY <1>6, <3>1, <3>2, <3>3, <3>4, <3>5 DEF Recorder
  <2>3. listening' /\ active' => listening /\ active
    BY <1>6 DEF Recorder, ChromeCasts, StartAnswered, PollEnds, StopAnswered, Drains, recorderVars
  <2>4. InOrder'
    BY <1>1, <1>2, <1>3, <1>4, <2>3 DEF InOrder
  <2>5. castPhase' \in {"starting", "recording"} =>
          castPhase \in {"starting", "recording"} /\ acks' = acks
    BY <1>2, <1>6 DEF Recorder, ChromeCasts, StartAnswered, PollEnds, StopAnswered, Drains,
                      recorderVars
  <2>6. Flows'
    BY <1>1, <1>2, <1>4, <2>5 DEF Flows
  <2>7. QED
    BY <2>1, <2>2, <2>4, <2>6 DEF CastInv
<1>7. QED
  BY <1>5, <1>6

LEMMA CastSteps == ASSUME CastInv, [Next]_vars PROVE CastInv'
<1>1. CASE CastNext
  BY <1>1, RecorderKeeps, PageShowsKeeps, FrameArrivesKeeps, AcksKeep DEF CastNext
<1>2. CASE ~CastNext
  <2>1. UNCHANGED castVars
    BY <1>2 DEF Next, vars, observeVars, Window, Attach, Verb
  <2>2. QED
    BY <2>1, CastStays
<1>3. QED
  BY <1>1, <1>2

LEMMA CastIsWell ==
  ASSUME CastInv PROVE CastTypeOK /\ StreamFlows /\ BufferIsPrefix /\ NoAckOutlives
<1>1. CastTypeOK
  <2>1. {active, listening, casting, online} \subseteq BOOLEAN
    BY Zenon DEF CastInv, CastTypes
  <2>2. acks \subseteq F /\ refused \subseteq F /\ coming \subseteq F
    BY DEF CastInv, CastTypes
  <2>3. QED
    BY <2>1, <2>2 DEF CastInv, CastTypes, CastTypeOK
<1>2. StreamFlows /\ NoAckOutlives
  BY DEF CastInv, Flows, RecorderStands, StreamFlows, NoAckOutlives
<1>3. BufferIsPrefix
  <2>1. PICK b \in 0..MaxFrames : buffer = 1..b /\ Cardinality(buffer) = b
    BY RoomOrFull
  <2>2. QED
    BY <2>1 DEF BufferIsPrefix
<1>4. QED
  BY <1>1, <1>2, <1>3

(***************************************************************************)
(* The attached stream.                                                    *)
(***************************************************************************)
StreamTypes ==
  /\ by \in {"registry", "endpoint"} /\ at \in {"subscribing", "ready", "detaching", "killed", "over"}
  /\ entry \in {"listed", "retired", "unreadable"} /\ browser \in {"ours", "blip", "gone"}
  /\ socket \in {"up", "wedged", "dropped"} /\ stdin \in {"open", "eof", "unwatchable"}
  /\ graceful \in BOOLEAN /\ signalled \in BOOLEAN /\ lastPoll \in BOOLEAN

TableTypes ==
  /\ todo \subseteq StreamEvents /\ named \subseteq StreamEvents /\ twice \subseteq StreamEvents
  /\ callbacks \in [StreamEvents -> Nat] /\ commands \in 0..MaxCommands

(* An event has one callback while it is named, and none when it is not,   *)
(* unless it was subscribed to twice; and never more than lines asked for. *)
TableStands ==
  /\ \A e \in StreamEvents : callbacks[e] <= commands + (IF e \in todo THEN 0 ELSE 1)
  /\ \A e \in StreamEvents \ twice : callbacks[e] = IF e \in named THEN 1 ELSE 0

StrikesCount ==
  /\ strikes \in 0..Strikes
  /\ at \in {"subscribing", "ready"} => strikes < Strikes
  /\ strikes > 0 => lastPoll

StreamInv ==
  StreamTypes /\ TableTypes /\ TableStands /\ StrikesCount /\ ReadyIsGraceful

---------------------------------------------------------------------------
LEMMA StreamBegins == StreamInit => StreamInv
<1>1. SUFFICES ASSUME StreamInit PROVE StreamInv
  OBVIOUS
<1>2. 0 \in 0..MaxCommands /\ 0 \in 0..Strikes /\ 0 < Strikes
  BY StreamAssumption
<1>3. StreamTypes /\ ReadyIsGraceful
  BY <1>1 DEF StreamInit, StreamTypes, ReadyIsGraceful
<1>4. TableTypes
  BY <1>1, <1>2 DEF StreamInit, TableTypes
<1>5. TableStands /\ StrikesCount
  BY <1>1, <1>2 DEF StreamInit, TableStands, StrikesCount
<1>6. QED
  BY <1>3, <1>4, <1>5 DEF StreamInv

LEMMA StreamStays == ASSUME StreamInv, UNCHANGED streamVars PROVE StreamInv'
<1>1. UNCHANGED <<by, at, todo, graceful, entry, browser, socket, stdin, signalled, strikes,
                  lastPoll, named, callbacks, twice, commands>>
  BY DEF streamVars
<1>2. StreamTypes' /\ ReadyIsGraceful'
  BY <1>1 DEF StreamInv, StreamTypes, ReadyIsGraceful
<1>3. TableTypes' /\ TableStands' /\ StrikesCount'
  BY <1>1 DEF StreamInv, TableTypes, TableStands, StrikesCount
<1>4. QED
  BY <1>2, <1>3 DEF StreamInv

(* The table, when an event is subscribed to or not any more.              *)
LEMMA SubscribeKeeps ==
  ASSUME TableTypes, TableStands, NEW e \in StreamEvents, Subscribe(e),
         \/ e \in todo /\ todo' = todo \ {e} /\ UNCHANGED commands
         \/ UNCHANGED todo /\ commands < MaxCommands /\ commands' = commands + 1
  PROVE  TableTypes' /\ TableStands'
<1>1. /\ callbacks' = [callbacks EXCEPT ![e] = callbacks[e] + 1] /\ named' = named \union {e}
      /\ twice' = IF e \in named THEN twice \union {e} ELSE twice
  BY DEF Subscribe
<1>2. commands \in Nat /\ MaxCommands \in Nat /\ callbacks \in [StreamEvents -> Nat]
  BY StreamAssumption DEF TableTypes
<1>3. TableTypes'
  <2>1. commands' \in 0..MaxCommands
    BY <1>2 DEF TableTypes
  <2>2. callbacks' \in [StreamEvents -> Nat]
    BY <1>1, <1>2
  <2>3. QED
    BY <1>1, <2>1, <2>2 DEF TableTypes
<1>4. ASSUME NEW d \in StreamEvents
      PROVE  callbacks'[d] <= commands' + (IF d \in todo' THEN 0 ELSE 1)
  <2>1. callbacks[d] <= commands + (IF d \in todo THEN 0 ELSE 1) /\ callbacks[d] \in Nat
    BY <1>2, <1>4 DEF TableStands
  <2>2. callbacks'[d] = IF d = e THEN callbacks[d] + 1 ELSE callbacks[d]
    BY <1>1, <1>2
  <2>3. QED
    BY <1>2, <2>1, <2>2
<1>5. ASSUME NEW d \in StreamEvents \ twice'
      PROVE  callbacks'[d] = IF d \in named' THEN 1 ELSE 0
  <2>1. d \notin twice /\ callbacks[d] = (IF d \in named THEN 1 ELSE 0)
    BY <1>1, <1>5 DEF TableStands
  <2>2. CASE d = e
    BY <1>1, <1>2, <1>5, <2>1, <2>2
  <2>3. CASE d # e
    BY <1>1, <1>2, <2>1, <2>3
  <2>4. QED
    BY <2>2, <2>3
<1>6. QED
  BY <1>3, <1>4, <1>5 DEF TableStands

LEMMA UnsubscribeKeeps ==
  ASSUME TableTypes, TableStands, NEW e \in StreamEvents, Unsubscribe(e),
         UNCHANGED todo, commands < MaxCommands, commands' = commands + 1
  PROVE  TableTypes' /\ TableStands'
<1>1. /\ callbacks' = (IF e \in named THEN [callbacks EXCEPT ![e] = Off(callbacks[e])] ELSE callbacks)
      /\ named' = named \ {e} /\ twice' = twice
  BY DEF Unsubscribe
<1>2. commands \in Nat /\ MaxCommands \in Nat /\ callbacks \in [StreamEvents -> Nat]
  BY StreamAssumption DEF TableTypes
<1>3. Off(callbacks[e]) \in Nat /\ Off(callbacks[e]) <= callbacks[e] /\ Off(1) = 0
  BY <1>2 DEF Off
<1>4. TableTypes'
  <2>1. commands' \in 0..MaxCommands
    BY <1>2 DEF TableTypes
  <2>2. callbacks' \in [StreamEvents -> Nat]
    BY <1>1, <1>2, <1>3
  <2>3. QED
    BY <1>1, <2>1, <2>2 DEF TableTypes
<1>5. ASSUME NEW d \in StreamEvents
      PROVE  callbacks'[d] <= commands' + (IF d \in todo' THEN 0 ELSE 1)
  <2>1. callbacks[d] <= commands + (IF d \in todo THEN 0 ELSE 1) /\ callbacks[d] \in Nat
    BY <1>2, <1>5 DEF TableStands
  <2>2. callbacks'[d] <= callbacks[d] /\ callbacks'[d] \in Nat
    BY <1>1, <1>2, <1>3
  <2>3. QED
    BY <1>2, <2>1, <2>2
<1>6. ASSUME NEW d \in StreamEvents \ twice'
      PROVE  callbacks'[d] = IF d \in named' THEN 1 ELSE 0
  <2>1. d \notin twice /\ callbacks[d] = (IF d \in named THEN 1 ELSE 0)
    BY <1>1, <1>6 DEF TableStands
  <2>2. CASE d = e
    BY <1>1, <1>2, <1>3, <2>1, <2>2
  <2>3. CASE d # e
    BY <1>1, <1>2, <2>1, <2>3
  <2>4. QED
    BY <2>2, <2>3
<1>7. QED
  BY <1>4, <1>5, <1>6 DEF TableStands

LEMMA StreamKeeps == ASSUME StreamInv, StreamNext PROVE StreamInv'
<1>1. StreamTypes /\ TableTypes /\ TableStands /\ StrikesCount /\ ReadyIsGraceful
  BY DEF StreamInv
<1>2. StreamTypes' /\ ReadyIsGraceful'
  <2>1. Adverse \in BOOLEAN
    BY DEF Adverse
  <2>2. lastPoll' \in BOOLEAN /\ by' \in {"registry", "endpoint"} /\ graceful' \in BOOLEAN
    BY <1>1, <2>1 DEF StreamTypes, StreamNext, StreamStep, SubscribeFirst, Ready, ReadLine, InputEnds,
       SignalEnds, DropEnds, Poll, Detaches, Happens, Signal, Leaves, Installed
  <2>3. /\ entry' \in {"listed", "retired", "unreadable"} /\ browser' \in {"ours", "blip", "gone"}
        /\ socket' \in {"up", "wedged", "dropped"} /\ stdin' \in {"open", "eof", "unwatchable"}
        /\ signalled' \in BOOLEAN
    BY <1>1 DEF StreamTypes, StreamNext, StreamStep, SubscribeFirst, Ready, ReadLine, InputEnds,
       SignalEnds, DropEnds, Poll, Detaches, Happens, Signal, Leaves, world
  <2>4. at' \in {"subscribing", "ready", "detaching", "killed", "over"}
    BY <1>1 DEF StreamTypes, StreamNext, StreamStep, SubscribeFirst, Ready, ReadLine, InputEnds,
       SignalEnds, DropEnds, Poll, Detaches, Happens, Signal, Leaves
  <2>5. ReadyIsGraceful'
    BY <1>1 DEF ReadyIsGraceful, StreamNext, StreamStep, SubscribeFirst, Ready, ReadLine, InputEnds,
       SignalEnds, DropEnds, Poll, Detaches, Happens, Signal, Leaves, Installed
  <2>6. QED
    BY <2>2, <2>3, <2>4, <2>5 DEF StreamTypes
<1>3. TableTypes' /\ TableStands'
  <2>1. CASE UNCHANGED <<todo, named, callbacks, twice, commands>>
    BY <1>1, <2>1 DEF TableTypes, TableStands
  <2>2. CASE SubscribeFirst
    <3>1. CASE UNCHANGED <<todo, table>>
      BY <2>1, <2>2, <3>1 DEF SubscribeFirst, table
    <3>2. ASSUME NEW e \in todo, Subscribe(e), todo' = todo \ {e} PROVE TableTypes' /\ TableStands'
      <4>1. e \in StreamEvents /\ UNCHANGED commands
        BY <1>1, <2>2 DEF TableTypes, SubscribeFirst
      <4>2. QED
        BY <1>1, <3>2, <4>1, SubscribeKeeps
    <3>3. QED
      BY <2>2, <3>1, <3>2 DEF SubscribeFirst
  <2>3. CASE ReadLine
    <3>1. PICK e \in StreamEvents : Subscribe(e) \/ Unsubscribe(e)
      BY <2>3 DEF ReadLine
    <3>2. UNCHANGED todo /\ commands < MaxCommands /\ commands' = commands + 1
      BY <2>3 DEF ReadLine
    <3>3. QED
      BY <1>1, <3>1, <3>2, SubscribeKeeps, UnsubscribeKeeps
  <2>4. CASE Detaches
    <3>1. /\ callbacks' = [e \in StreamEvents |-> 0] /\ named' = {}
          /\ UNCHANGED <<todo, twice, commands>> /\ commands \in Nat
      BY <1>1, <2>4, StreamAssumption DEF Detaches, TableTypes
    <3>2. TableTypes'
      BY <1>1, <3>1 DEF TableTypes
    <3>3. TableStands'
      BY <3>1 DEF TableStands
    <3>4. QED
      BY <3>2, <3>3
  <2>5. QED
    BY <2>1, <2>2, <2>3, <2>4 DEF StreamNext, StreamStep, Ready, InputEnds, SignalEnds, DropEnds,
       Poll, Happens, Signal, Leaves, table
<1>4. StrikesCount'
  <2>1. strikes \in Nat /\ Strikes \in Nat /\ strikes <= Strikes
    BY <1>1, StreamAssumption DEF StrikesCount
  <2>2. CASE Poll
    <3>1. CASE Adverse
      <4>1. strikes' = strikes + 1 /\ lastPoll' /\ strikes < Strikes
        BY <1>1, <2>2, <3>1 DEF Poll, StrikesCount
      <4>2. at' \in {"subscribing", "ready"} => strikes + 1 # Strikes
        BY <2>2, <3>1 DEF Poll, Leaves
      <4>3. QED
        BY <2>1, <4>1, <4>2 DEF StrikesCount
    <3>2. CASE ~Adverse
      <4>1. strikes' = 0
        BY <2>2, <3>2 DEF Poll
      <4>2. QED
        BY <4>1, StreamAssumption DEF StrikesCount
    <3>3. QED
      BY <3>1, <3>2
  <2>3. CASE ~Poll
    <3>1. UNCHANGED <<strikes, lastPoll>>
      BY <2>3 DEF StreamNext, StreamStep, SubscribeFirst, Ready, ReadLine, InputEnds,
         SignalEnds, DropEnds, Detaches, Happens, Signal
    <3>2. at' \in {"subscribing", "ready"} => at \in {"subscribing", "ready"}
      BY <2>3 DEF StreamNext, StreamStep, SubscribeFirst, Ready, ReadLine, InputEnds,
         SignalEnds, DropEnds, Detaches, Happens, Signal, Leaves
    <3>3. QED
      BY <1>1, <3>1, <3>2 DEF StrikesCount
  <2>4. QED
    BY <2>2, <2>3
<1>5. QED
  BY <1>2, <1>3, <1>4 DEF StreamInv

LEMMA StreamSteps == ASSUME StreamInv, [Next]_vars PROVE StreamInv'
<1>1. CASE StreamNext
  BY <1>1, StreamKeeps
<1>2. CASE ~StreamNext
  <2>1. UNCHANGED streamVars
    BY <1>2 DEF Next, vars, observeVars, Window, Attach, Verb
  <2>2. QED
    BY <2>1, StreamStays
<1>3. QED
  BY <1>1, <1>2

LEMMA StreamIsWell == ASSUME StreamInv PROVE StreamTypeOK /\ Silenced /\ ReadyIsGraceful
<1>1. callbacks \in [StreamEvents -> 0..MaxCommands + 1]
  <2>1. ASSUME NEW e \in StreamEvents PROVE callbacks[e] \in 0..MaxCommands + 1
    <3>1. callbacks[e] \in Nat /\ callbacks[e] <= commands + (IF e \in todo THEN 0 ELSE 1)
      BY DEF StreamInv, TableTypes, TableStands
    <3>2. commands \in 0..MaxCommands /\ MaxCommands \in Nat
      BY StreamAssumption DEF StreamInv, TableTypes
    <3>3. QED
      BY <3>1, <3>2
  <2>2. QED
    BY <2>1 DEF StreamInv, TableTypes
<1>2. {graceful, signalled, lastPoll} \subseteq BOOLEAN
  BY Zenon DEF StreamInv, StreamTypes
<1>3. StreamTypeOK
  BY <1>1, <1>2 DEF StreamInv, StreamTypes, TableTypes, StrikesCount, StreamTypeOK
<1>4. Silenced
  BY DEF StreamInv, TableStands, Silenced
<1>5. QED
  BY <1>3, <1>4 DEF StreamInv

(* One adverse poll does not end a stream: the one that ends it was        *)
(* adverse, and so was the poll before it (core.attach.liveness_loop).     *)
THEOREM OneBlipTheorem == Spec => OneBlipIsForgiven
<1>1. Init => StreamInv
  BY StreamBegins DEF Init
<1>2. StreamInv /\ [Next]_vars => StreamInv'
  BY StreamSteps
<1>3. StreamInv /\ [Next]_vars =>
        [at = "ready" /\ at' = "detaching" /\ strikes' # strikes => Adverse /\ lastPoll]_streamVars
  <2>1. SUFFICES ASSUME StreamInv, [Next]_vars, at = "ready", at' = "detaching", strikes' # strikes
                 PROVE  Adverse /\ lastPoll
    OBVIOUS
  <2>2. StreamNext
    BY <2>1 DEF Next, vars, observeVars, streamVars, Window, Attach, Verb
  <2>3. Poll
    BY <2>1, <2>2 DEF StreamNext, StreamStep, SubscribeFirst, Ready, ReadLine, InputEnds, SignalEnds,
       DropEnds, Detaches, Happens, Signal
  <2>4. Adverse /\ strikes + 1 = Strikes
    BY <2>1, <2>3 DEF Poll
  <2>5. strikes > 0
    BY <2>1, <2>4, StreamAssumption DEF StreamInv, StrikesCount
  <2>6. QED
    BY <2>1, <2>4, <2>5 DEF StreamInv, StrikesCount
<1>4. QED
  BY <1>1, <1>2, <1>3, PTL DEF Spec, OneBlipIsForgiven

(***************************************************************************)
(* The captures that end in a file.                                        *)
(***************************************************************************)
TracePhases == {"starting", "recording", "ending", "completing", "reading", "closing"}
HeapPhases == {"taking", "summary", "tidy"}

RangeTypes ==
  /\ tracing \in {"no", "yes", "flushing", "told"} /\ stream \in {"none", "open", "closed"}
  /\ heard \in {"none", "bare", "stream"} /\ left \in 0..Chunks
  /\ was \in {"absent", "old"} /\ staged \in {"absent", "part", "whole"}
  /\ dest \in {"absent", "old", "empty", "part", "whole"}
  /\ result \in {"none", "failed", "timeout", "cut", "unclosed", "written"}

PhaseStands ==
  /\ capture \in {"trace", "heap"}
  /\ phase \in {"start", "open", "over"} \union
               (IF capture = "trace" THEN TracePhases ELSE HeapPhases)

FlagTypes == hooked \in BOOLEAN /\ spoilt \in BOOLEAN /\ live \in BOOLEAN

CaptureTypes == RangeTypes /\ PhaseStands /\ FlagTypes

(* The callback is on while the capture runs, and off before and after.    *)
HookStands ==
  /\ phase \in {"start", "open", "summary", "tidy", "over"} => ~hooked
  /\ phase \in {"starting", "recording", "ending", "completing"} => hooked

(* What the trace was told about its completion is what Chrome says.       *)
StreamStands ==
  /\ phase \in {"start", "open", "starting"} => tracing = "no"
  /\ phase = "recording" => tracing = "yes"
  /\ tracing = "flushing" => phase \in {"ending", "completing", "over"}
  /\ heard # "none" \/ stream # "none" => tracing = "told"
  /\ phase \in {"reading", "closing"} => heard = "stream"
  /\ phase # "over" => stream # "closed" /\ (stream = "open" => heard = "stream")

(* The destination, while a trace is written into it.                      *)
TraceStands ==
  capture = "trace" =>
    /\ staged = "absent"
    /\ dest = "part" =>
         tracing = "told" /\ (phase = "over" => stream # "open" \/ result = "unclosed")
    /\ phase \in {"start", "open", "starting", "recording", "ending", "completing"} => dest # "part"
    /\ phase \notin {"closing", "over"} => result # "written"
    /\ result = "written" => dest = "whole"

(* The staged file of a heap, and the destination that it replaces.        *)
HeapStands ==
  capture = "heap" =>
    /\ tracing = "no"
    /\ phase \in {"start", "open", "over"} => staged = "absent"
    /\ phase = "summary" => staged = "whole"
    /\ dest # "part"
    /\ phase \notin {"tidy", "over"} => result # "written"
    /\ result = "written" => dest = "whole"
    /\ result # "written" /\ was = "old" => dest = "old"
    /\ phase = "start" => dest = was

CaptureInv == CaptureTypes /\ HookStands /\ StreamStands /\ TraceStands /\ HeapStands


---------------------------------------------------------------------------
LEMMA CaptureBegins == CaptureInit => CaptureInv
<1>1. SUFFICES ASSUME CaptureInit PROVE CaptureInv
  OBVIOUS
<1>2. CaptureTypes
  <2>1. left \in 0..Chunks
    BY <1>1, CapturesAssumption DEF CaptureInit
  <2>2. RangeTypes
    BY <1>1, <2>1 DEF CaptureInit, RangeTypes
  <2>3. PhaseStands /\ FlagTypes
    BY <1>1 DEF CaptureInit, PhaseStands, FlagTypes
  <2>4. QED
    BY <2>2, <2>3 DEF CaptureTypes
<1>3. HookStands /\ StreamStands /\ TraceStands /\ HeapStands
  BY <1>1 DEF CaptureInit, HookStands, StreamStands, TraceStands, HeapStands
<1>4. QED
  BY <1>2, <1>3 DEF CaptureInv

LEMMA CaptureStays == ASSUME CaptureInv, UNCHANGED captureVars PROVE CaptureInv'
<1>1. UNCHANGED <<capture, phase, hooked, tracing, stream, heard, left, was, dest, staged, spoilt,
                  live, result>>
  BY DEF captureVars
<1>2. QED
  BY <1>1 DEF CaptureInv, CaptureTypes, RangeTypes, PhaseStands, FlagTypes, HookStands, StreamStands,
         TraceStands, HeapStands

LEMMA CaptureKeeps == ASSUME CaptureInv, CaptureNext PROVE CaptureInv'
<1>1. /\ CaptureTypes /\ HookStands /\ StreamStands /\ TraceStands /\ HeapStands
      /\ Chunks \in Nat
  BY CapturesAssumption DEF CaptureInv
<1>2. CASE Probe
  <2>1. RangeTypes'
    BY <1>1, <1>2 DEF Probe, Over, To, CaptureTypes, RangeTypes, chromeVars, fileVars
  <2>2. PhaseStands'
    BY <1>1, <1>2 DEF Probe, Over, To, CaptureTypes, PhaseStands, TracePhases, HeapPhases
  <2>3. FlagTypes'
    BY <1>1, <1>2 DEF Probe, Over, To, CaptureTypes, FlagTypes, fileVars
  <2>4. HookStands'
    BY <1>1, <1>2 DEF Probe, Over, To, CaptureTypes, HookStands, PhaseStands, TracePhases, HeapPhases
  <2>5. StreamStands' /\ TraceStands' /\ HeapStands'
    BY <1>1, <1>2 DEF Probe, Over, To, CaptureTypes, PhaseStands, HookStands, StreamStands, TraceStands,
       HeapStands, TracePhases, HeapPhases, chromeVars, fileVars
  <2>6. QED
    BY <2>1, <2>2, <2>3, <2>4, <2>5 DEF CaptureInv, CaptureTypes
<1>3. CASE OpenSession
  <2>1. RangeTypes'
    BY <1>1, <1>3 DEF OpenSession, To, Hooked, CaptureTypes, RangeTypes, chromeVars, fileVars
  <2>2. PhaseStands'
    BY <1>1, <1>3 DEF OpenSession, To, Hooked, CaptureTypes, PhaseStands, TracePhases, HeapPhases
  <2>3. FlagTypes'
    BY <1>1, <1>3 DEF OpenSession, To, Hooked, CaptureTypes, FlagTypes, fileVars
  <2>4. HookStands'
    <3>1. Hooked("starting") /\ Hooked("taking")
      BY DEF Hooked
    <3>2. ~hooked
      BY <1>1, <1>3 DEF OpenSession, HookStands
    <3>3. \/ phase' \in {"tidy", "over"} /\ hooked' = hooked
          \/ phase' = "starting" /\ hooked' = Hooked("starting")
          \/ phase' = "taking" /\ hooked' = Hooked("taking")
      BY <1>3 DEF OpenSession, To
    <3>4. QED
      BY <3>1, <3>2, <3>3 DEF HookStands
  <2>5. StreamStands' /\ TraceStands' /\ HeapStands'
    BY <1>1, <1>3 DEF OpenSession, To, Hooked, CaptureTypes, PhaseStands, HookStands, StreamStands, TraceStands,
       HeapStands, TracePhases, HeapPhases, chromeVars, fileVars
  <2>6. QED
    BY <2>1, <2>2, <2>3, <2>4, <2>5 DEF CaptureInv, CaptureTypes
<1>4. CASE Starting
  <2>1. RangeTypes'
    BY <1>1, <1>4 DEF Starting, Over, To, Fails, CaptureTypes, RangeTypes, chromeVars, fileVars
  <2>2. PhaseStands'
    BY <1>1, <1>4 DEF Starting, Over, To, Fails, CaptureTypes, PhaseStands, TracePhases, HeapPhases
  <2>3. FlagTypes'
    BY <1>1, <1>4 DEF Starting, Over, To, Fails, CaptureTypes, FlagTypes, fileVars
  <2>4. HookStands'
    BY <1>1, <1>4 DEF Starting, Over, To, Fails, CaptureTypes, HookStands, PhaseStands, TracePhases, HeapPhases
  <2>5. StreamStands' /\ TraceStands' /\ HeapStands'
    BY <1>1, <1>4 DEF Starting, Over, To, Fails, CaptureTypes, PhaseStands, HookStands, StreamStands, TraceStands,
       HeapStands, TracePhases, HeapPhases, chromeVars, fileVars
  <2>6. QED
    BY <2>1, <2>2, <2>3, <2>4, <2>5 DEF CaptureInv, CaptureTypes
<1>5. CASE Recorded
  <2>1. RangeTypes'
    BY <1>1, <1>5 DEF Recorded, To, CaptureTypes, RangeTypes, chromeVars, fileVars
  <2>2. PhaseStands'
    BY <1>1, <1>5 DEF Recorded, To, CaptureTypes, PhaseStands, TracePhases, HeapPhases
  <2>3. FlagTypes'
    BY <1>1, <1>5 DEF Recorded, To, CaptureTypes, FlagTypes, fileVars
  <2>4. HookStands'
    BY <1>1, <1>5 DEF Recorded, To, CaptureTypes, HookStands, PhaseStands, TracePhases, HeapPhases
  <2>5. StreamStands' /\ TraceStands' /\ HeapStands'
    BY <1>1, <1>5 DEF Recorded, To, CaptureTypes, PhaseStands, HookStands, StreamStands, TraceStands,
       HeapStands, TracePhases, HeapPhases, chromeVars, fileVars
  <2>6. QED
    BY <2>1, <2>2, <2>3, <2>4, <2>5 DEF CaptureInv, CaptureTypes
<1>6. CASE EndAnswered
  <2>1. RangeTypes'
    BY <1>1, <1>6 DEF EndAnswered, To, Hooked, CaptureTypes, RangeTypes, chromeVars, fileVars
  <2>2. PhaseStands'
    BY <1>1, <1>6 DEF EndAnswered, To, Hooked, CaptureTypes, PhaseStands, TracePhases, HeapPhases
  <2>3. FlagTypes'
    BY <1>1, <1>6 DEF EndAnswered, To, Hooked, CaptureTypes, FlagTypes, fileVars
  <2>4. HookStands'
    BY <1>1, <1>6 DEF EndAnswered, To, Hooked, CaptureTypes, HookStands, PhaseStands, TracePhases, HeapPhases
  <2>5. StreamStands' /\ TraceStands' /\ HeapStands'
    BY <1>1, <1>6 DEF EndAnswered, To, Hooked, CaptureTypes, PhaseStands, HookStands, StreamStands, TraceStands,
       HeapStands, TracePhases, HeapPhases, chromeVars, fileVars
  <2>6. QED
    BY <2>1, <2>2, <2>3, <2>4, <2>5 DEF CaptureInv, CaptureTypes
<1>7. CASE Completed
  <2>1. RangeTypes'
    BY <1>1, <1>7 DEF Completed, Over, To, CaptureTypes, RangeTypes, chromeVars, fileVars
  <2>2. PhaseStands'
    BY <1>1, <1>7 DEF Completed, Over, To, CaptureTypes, PhaseStands, TracePhases, HeapPhases
  <2>3. FlagTypes'
    BY <1>1, <1>7 DEF Completed, Over, To, CaptureTypes, FlagTypes, fileVars
  <2>4. HookStands'
    BY <1>1, <1>7 DEF Completed, Over, To, CaptureTypes, HookStands, PhaseStands, TracePhases, HeapPhases
  <2>5. StreamStands' /\ TraceStands' /\ HeapStands'
    BY <1>1, <1>7 DEF Completed, Over, To, CaptureTypes, PhaseStands, HookStands, StreamStands, TraceStands,
       HeapStands, TracePhases, HeapPhases, chromeVars, fileVars
  <2>6. QED
    BY <2>1, <2>2, <2>3, <2>4, <2>5 DEF CaptureInv, CaptureTypes
<1>8. CASE ReadPart
  <2>1. RangeTypes'
    BY <1>1, <1>8 DEF ReadPart, To, Wholeness, CaptureTypes, RangeTypes, chromeVars, fileVars
  <2>2. PhaseStands'
    BY <1>1, <1>8 DEF ReadPart, To, Wholeness, CaptureTypes, PhaseStands, TracePhases, HeapPhases
  <2>3. FlagTypes'
    BY <1>1, <1>8 DEF ReadPart, To, Wholeness, CaptureTypes, FlagTypes, fileVars
  <2>4. HookStands'
    BY <1>1, <1>8 DEF ReadPart, To, Wholeness, CaptureTypes, HookStands, PhaseStands, TracePhases, HeapPhases
  <2>5. StreamStands' /\ TraceStands' /\ HeapStands'
    BY <1>1, <1>8 DEF ReadPart, To, Wholeness, CaptureTypes, PhaseStands, HookStands, StreamStands, TraceStands,
       HeapStands, TracePhases, HeapPhases, chromeVars, fileVars
  <2>6. QED
    BY <2>1, <2>2, <2>3, <2>4, <2>5 DEF CaptureInv, CaptureTypes
<1>9. CASE CutOff
  <2>1. RangeTypes'
    BY <1>1, <1>9 DEF CutOff, To, Unwinds, Fails, CaptureTypes, RangeTypes, chromeVars, fileVars
  <2>2. PhaseStands'
    BY <1>1, <1>9 DEF CutOff, To, Unwinds, Fails, CaptureTypes, PhaseStands, TracePhases, HeapPhases
  <2>3. FlagTypes'
    BY <1>1, <1>9 DEF CutOff, To, Unwinds, Fails, CaptureTypes, FlagTypes, fileVars
  <2>4. HookStands'
    BY <1>1, <1>9 DEF CutOff, To, Unwinds, Fails, CaptureTypes, HookStands, PhaseStands, TracePhases, HeapPhases
  <2>5. StreamStands' /\ TraceStands' /\ HeapStands'
    BY <1>1, <1>9 DEF CutOff, To, Unwinds, Fails, CaptureTypes, PhaseStands, HookStands, StreamStands, TraceStands,
       HeapStands, TracePhases, HeapPhases, chromeVars, fileVars
  <2>6. QED
    BY <2>1, <2>2, <2>3, <2>4, <2>5 DEF CaptureInv, CaptureTypes
<1>10. CASE Close
  <2>1. RangeTypes'
    BY <1>1, <1>10 DEF Close, Over, To, CaptureTypes, RangeTypes, chromeVars, fileVars
  <2>2. PhaseStands'
    BY <1>1, <1>10 DEF Close, Over, To, CaptureTypes, PhaseStands, TracePhases, HeapPhases
  <2>3. FlagTypes'
    BY <1>1, <1>10 DEF Close, Over, To, CaptureTypes, FlagTypes, fileVars
  <2>4. HookStands'
    BY <1>1, <1>10 DEF Close, Over, To, CaptureTypes, HookStands, PhaseStands, TracePhases, HeapPhases
  <2>5. StreamStands' /\ TraceStands' /\ HeapStands'
    BY <1>1, <1>10 DEF Close, Over, To, CaptureTypes, PhaseStands, HookStands, StreamStands, TraceStands,
       HeapStands, TracePhases, HeapPhases, chromeVars, fileVars
  <2>6. QED
    BY <2>1, <2>2, <2>3, <2>4, <2>5 DEF CaptureInv, CaptureTypes
<1>11. CASE TakeChunk
  <2>1. RangeTypes'
    BY <1>1, <1>11 DEF TakeChunk, CaptureTypes, RangeTypes, chromeVars, fileVars
  <2>2. PhaseStands'
    BY <1>1, <1>11 DEF TakeChunk, CaptureTypes, PhaseStands, TracePhases, HeapPhases
  <2>3. FlagTypes'
    BY <1>1, <1>11 DEF TakeChunk, CaptureTypes, FlagTypes, fileVars
  <2>4. HookStands'
    BY <1>1, <1>11 DEF TakeChunk, CaptureTypes, HookStands, PhaseStands, TracePhases, HeapPhases
  <2>5. StreamStands' /\ TraceStands' /\ HeapStands'
    BY <1>1, <1>11 DEF TakeChunk, CaptureTypes, PhaseStands, HookStands, StreamStands, TraceStands,
       HeapStands, TracePhases, HeapPhases, chromeVars, fileVars
  <2>6. QED
    BY <2>1, <2>2, <2>3, <2>4, <2>5 DEF CaptureInv, CaptureTypes
<1>12. CASE Taken
  <2>1. RangeTypes'
    BY <1>1, <1>12 DEF Taken, To, CaptureTypes, RangeTypes, chromeVars, fileVars
  <2>2. PhaseStands'
    BY <1>1, <1>12 DEF Taken, To, CaptureTypes, PhaseStands, TracePhases, HeapPhases
  <2>3. FlagTypes'
    BY <1>1, <1>12 DEF Taken, To, CaptureTypes, FlagTypes, fileVars
  <2>4. HookStands'
    BY <1>1, <1>12 DEF Taken, To, CaptureTypes, HookStands, PhaseStands, TracePhases, HeapPhases
  <2>5. StreamStands' /\ TraceStands' /\ HeapStands'
    BY <1>1, <1>12 DEF Taken, To, CaptureTypes, PhaseStands, HookStands, StreamStands, TraceStands,
       HeapStands, TracePhases, HeapPhases, chromeVars, fileVars
  <2>6. QED
    BY <2>1, <2>2, <2>3, <2>4, <2>5 DEF CaptureInv, CaptureTypes
<1>13. CASE TakeFails
  <2>1. RangeTypes'
    BY <1>1, <1>13 DEF TakeFails, To, Fails, CaptureTypes, RangeTypes, chromeVars, fileVars
  <2>2. PhaseStands'
    BY <1>1, <1>13 DEF TakeFails, To, Fails, CaptureTypes, PhaseStands, TracePhases, HeapPhases
  <2>3. FlagTypes'
    BY <1>1, <1>13 DEF TakeFails, To, Fails, CaptureTypes, FlagTypes, fileVars
  <2>4. HookStands'
    BY <1>1, <1>13 DEF TakeFails, To, Fails, CaptureTypes, HookStands, PhaseStands, TracePhases, HeapPhases
  <2>5. StreamStands' /\ TraceStands' /\ HeapStands'
    BY <1>1, <1>13 DEF TakeFails, To, Fails, CaptureTypes, PhaseStands, HookStands, StreamStands, TraceStands,
       HeapStands, TracePhases, HeapPhases, chromeVars, fileVars
  <2>6. QED
    BY <2>1, <2>2, <2>3, <2>4, <2>5 DEF CaptureInv, CaptureTypes
<1>14. CASE Replace
  <2>1. RangeTypes'
    BY <1>1, <1>14 DEF Replace, To, Renames, CaptureTypes, RangeTypes, chromeVars, fileVars
  <2>2. PhaseStands'
    BY <1>1, <1>14 DEF Replace, To, Renames, CaptureTypes, PhaseStands, TracePhases, HeapPhases
  <2>3. FlagTypes'
    BY <1>1, <1>14 DEF Replace, To, Renames, CaptureTypes, FlagTypes, fileVars
  <2>4. HookStands'
    BY <1>1, <1>14 DEF Replace, To, Renames, CaptureTypes, HookStands, PhaseStands, TracePhases, HeapPhases
  <2>5. StreamStands' /\ TraceStands' /\ HeapStands'
    BY <1>1, <1>14 DEF Replace, To, Renames, CaptureTypes, PhaseStands, HookStands, StreamStands, TraceStands,
       HeapStands, TracePhases, HeapPhases, chromeVars, fileVars
  <2>6. QED
    BY <2>1, <2>2, <2>3, <2>4, <2>5 DEF CaptureInv, CaptureTypes
<1>15. CASE Tidy
  <2>1. RangeTypes'
    BY <1>1, <1>15 DEF Tidy, To, CaptureTypes, RangeTypes, chromeVars, fileVars
  <2>2. PhaseStands'
    BY <1>1, <1>15 DEF Tidy, To, CaptureTypes, PhaseStands, TracePhases, HeapPhases
  <2>3. FlagTypes'
    BY <1>1, <1>15 DEF Tidy, To, CaptureTypes, FlagTypes, fileVars
  <2>4. HookStands'
    BY <1>1, <1>15 DEF Tidy, To, CaptureTypes, HookStands, PhaseStands, TracePhases, HeapPhases
  <2>5. StreamStands' /\ TraceStands' /\ HeapStands'
    BY <1>1, <1>15 DEF Tidy, To, CaptureTypes, PhaseStands, HookStands, StreamStands, TraceStands,
       HeapStands, TracePhases, HeapPhases, chromeVars, fileVars
  <2>6. QED
    BY <2>1, <2>2, <2>3, <2>4, <2>5 DEF CaptureInv, CaptureTypes
<1>16. CASE ChromeEnds
  <2>1. RangeTypes'
    BY <1>1, <1>16 DEF ChromeEnds, CaptureTypes, RangeTypes, chromeVars, fileVars
  <2>2. PhaseStands'
    BY <1>1, <1>16 DEF ChromeEnds, CaptureTypes, PhaseStands, TracePhases, HeapPhases
  <2>3. FlagTypes'
    BY <1>1, <1>16 DEF ChromeEnds, CaptureTypes, FlagTypes, fileVars
  <2>4. HookStands'
    BY <1>1, <1>16 DEF ChromeEnds, CaptureTypes, HookStands, PhaseStands, TracePhases, HeapPhases
  <2>5. StreamStands' /\ TraceStands' /\ HeapStands'
    BY <1>1, <1>16 DEF ChromeEnds, CaptureTypes, PhaseStands, HookStands, StreamStands, TraceStands,
       HeapStands, TracePhases, HeapPhases, chromeVars, fileVars
  <2>6. QED
    BY <2>1, <2>2, <2>3, <2>4, <2>5 DEF CaptureInv, CaptureTypes
<1>17. CASE ChromeCompletes
  <2>1. RangeTypes'
    BY <1>1, <1>17 DEF ChromeCompletes, CaptureTypes, RangeTypes, chromeVars, fileVars
  <2>2. PhaseStands'
    BY <1>1, <1>17 DEF ChromeCompletes, CaptureTypes, PhaseStands, TracePhases, HeapPhases
  <2>3. FlagTypes'
    BY <1>1, <1>17 DEF ChromeCompletes, CaptureTypes, FlagTypes, fileVars
  <2>4. HookStands'
    BY <1>1, <1>17 DEF ChromeCompletes, CaptureTypes, HookStands, PhaseStands, TracePhases, HeapPhases
  <2>5. StreamStands' /\ TraceStands' /\ HeapStands'
    BY <1>1, <1>17 DEF ChromeCompletes, CaptureTypes, PhaseStands, HookStands, StreamStands, TraceStands,
       HeapStands, TracePhases, HeapPhases, chromeVars, fileVars
  <2>6. QED
    BY <2>1, <2>2, <2>3, <2>4, <2>5 DEF CaptureInv, CaptureTypes
<1>18. CASE Loses
  <2>1. RangeTypes'
    BY <1>1, <1>18 DEF Loses, CaptureTypes, RangeTypes, chromeVars, fileVars
  <2>2. PhaseStands'
    BY <1>1, <1>18 DEF Loses, CaptureTypes, PhaseStands, TracePhases, HeapPhases
  <2>3. FlagTypes'
    BY <1>1, <1>18 DEF Loses, CaptureTypes, FlagTypes, fileVars
  <2>4. HookStands'
    BY <1>1, <1>18 DEF Loses, CaptureTypes, HookStands, PhaseStands, TracePhases, HeapPhases
  <2>5. StreamStands' /\ TraceStands' /\ HeapStands'
    BY <1>1, <1>18 DEF Loses, CaptureTypes, PhaseStands, HookStands, StreamStands, TraceStands,
       HeapStands, TracePhases, HeapPhases, chromeVars, fileVars
  <2>6. QED
    BY <2>1, <2>2, <2>3, <2>4, <2>5 DEF CaptureInv, CaptureTypes
<1>19. QED
  BY <1>2, <1>3, <1>4, <1>5, <1>6, <1>7, <1>8, <1>9, <1>10, <1>11, <1>12, <1>13, <1>14, <1>15, <1>16, <1>17, <1>18
     DEF CaptureNext, CaptureStep

LEMMA CaptureSteps == ASSUME CaptureInv, [Next]_vars PROVE CaptureInv'
<1>1. CASE CaptureNext
  BY <1>1, CaptureKeeps
<1>2. CASE ~CaptureNext
  <2>1. UNCHANGED captureVars
    BY <1>2 DEF Next, vars, observeVars, Window, Attach, Verb
  <2>2. QED
    BY <2>1, CaptureStays
<1>3. QED
  BY <1>1, <1>2

LEMMA CaptureIsWell ==
  ASSUME CaptureInv
  PROVE  CaptureTypeOK /\ CaptureIsWhole /\ CaptureLeavesNothing /\ CompletionIsHeard
<1>1. CaptureTypeOK
  <2>1. {hooked, spoilt, live} \subseteq BOOLEAN
    BY Zenon DEF CaptureInv, CaptureTypes, FlagTypes
  <2>2. QED
    BY <2>1 DEF CaptureInv, CaptureTypes, RangeTypes, PhaseStands, TracePhases, HeapPhases,
                CaptureTypeOK
<1>2. CaptureIsWhole /\ CompletionIsHeard
  BY DEF CaptureInv, CaptureTypes, PhaseStands, RangeTypes, TraceStands, HeapStands, StreamStands, CaptureIsWhole,
         CompletionIsHeard
<1>3. CaptureLeavesNothing
  BY DEF CaptureInv, CaptureTypes, PhaseStands, RangeTypes, HookStands, TraceStands, HeapStands, StreamStands,
         CaptureLeavesNothing
<1>4. QED
  BY <1>1, <1>2, <1>3

(***************************************************************************)
(* The window of events.                                                   *)
(***************************************************************************)
Commands == {"enable", "disable", "fetch", "take"}
Replies == Answered \X Commands

(* What the wire w holds of the events s after the first n of them: all,   *)
(* in order, with replies in between.                                      *)
Carries(n, s, w) ==
  \E f \in [n + 1..Len(s) -> 1..Len(w)] :
    /\ \A i, j \in n + 1..Len(s) : i < j => f[i] < f[j]
    /\ \A i \in n + 1..Len(s) : w[f[i]] = s[i]
    /\ \A k \in 1..Len(w) : w[k] \in Replies \/ \E i \in n + 1..Len(s) : f[i] = k

Starts(s, t) == Len(s) <= Len(t) /\ \A i \in 1..Len(s) : s[i] = t[i]

WindowTypes ==
  /\ window \in Windows
  /\ step \in {"start", "enable", "body", "sleep", "fetch", "disable", "over"}
  /\ asked \in Commands \union {"none"}
  /\ enabled \in BOOLEAN /\ registered \in BOOLEAN /\ late \in BOOLEAN /\ up \in BOOLEAN
  /\ backlog \in 0..MaxBacklog /\ outcome \in Outcomes

QueueTypes ==
  /\ wire \in Seq(Events \union Replies) /\ emitted \in Seq(Events) /\ got \in Seq(Events)
  /\ examined \in 0..Len(got)

(* A command is handled once, and the callbacks are on until it is over.   *)
AsksStand ==
  /\ registered <=> step \notin {"start", "over"}
  /\ step = "start" => asked = "none" /\ wire = <<>> /\ got = <<>> /\ emitted = <<>> /\ ~enabled /\ up
  /\ asked = "enable" => step = "enable" /\ wire = <<>> /\ ~enabled
  /\ asked = "disable" => step = "disable" /\ up
  /\ (\E k \in 1..Len(wire) : wire[k] \in Answered \X {"disable"}) =>
       step \in {"disable", "over"} /\ asked # "disable"
  /\ step = "disable" => asked = "disable" \/ ~enabled \/ ~up
  /\ ~up => wire = <<>>
  /\ step = "over" /\ enabled /\ up => outcome = "cut"
  /\ outcome = "body" => step \in {"disable", "over"}

(* What was given is what came first, and what is left is on the wire.     *)
WireStands ==
  /\ Starts(got, emitted)
  /\ registered /\ up => Carries(Len(got), emitted, wire)

(* The last match that was examined, which had finished.                   *)
SeenEnded ==
  \E i \in 1..examined :
    /\ got[i] \in {"received"} \X Requests
    /\ \A j \in 1..examined : got[j] \in {"received"} \X Requests => j <= i
    /\ \E k \in 1..examined : got[k] = <<"finished", got[i][2]>>
SeenStands == (window # "heap" /\ step = "fetch") \/ outcome = "body" => SeenEnded

WindowInv == WindowTypes /\ QueueTypes /\ AsksStand /\ WireStands /\ SeenStands

---------------------------------------------------------------------------
LEMMA EventsAreNoReplies == Events \intersect Replies = {}
BY DEF Events, Replies, Answered, Commands, Match, Other, Chunk

(* A wire takes events and replies behind what it holds.                   *)
LEMMA CarriesSent ==
  ASSUME NEW n \in Nat, NEW s \in Seq(Events), NEW w \in Seq(Events \union Replies), n <= Len(s),
         Carries(n, s, w), NEW r \in Seq(Events)
  PROVE  Carries(n, s \o r, w \o r)
<1> DEFINE a == Len(s)
           b == Len(w)
           c == Len(r)
<1>1. a \in Nat /\ b \in Nat /\ c \in Nat /\ n <= a
  OBVIOUS
<1>2. /\ Len(s \o r) = a + c /\ Len(w \o r) = b + c
      /\ \A i \in 1..a + c : (s \o r)[i] = IF i <= a THEN s[i] ELSE r[i - a]
      /\ \A k \in 1..b + c : (w \o r)[k] = IF k <= b THEN w[k] ELSE r[k - b]
  OBVIOUS
<1>3. PICK f \in [n + 1..a -> 1..b] :
         /\ \A i, j \in n + 1..a : i < j => f[i] < f[j]
         /\ \A i \in n + 1..a : w[f[i]] = s[i]
         /\ \A k \in 1..b : w[k] \in Replies \/ \E i \in n + 1..a : f[i] = k
  BY DEF Carries
<1> DEFINE g == [i \in n + 1..a + c |-> IF i <= a THEN f[i] ELSE i - a + b]
<1>4. g \in [n + 1..a + c -> 1..b + c]
  <2>1. ASSUME NEW i \in n + 1..a + c PROVE g[i] \in 1..b + c
    <3>1. CASE i <= a
      <4>1. f[i] \in 1..b
        BY <1>1, <1>3, <3>1
      <4>2. QED
        BY <1>1, <3>1, <4>1
    <3>2. CASE i > a
      BY <1>1, <3>2
    <3>3. QED
      BY <1>1, <3>1, <3>2
  <2>2. QED
    BY <2>1
<1>5. ASSUME NEW i \in n + 1..a + c, NEW j \in n + 1..a + c, i < j PROVE g[i] < g[j]
  <2>1. CASE j <= a
    BY <1>1, <1>3, <1>5, <2>1
  <2>2. CASE i <= a /\ j > a
    <3>1. f[i] \in 1..b
      BY <1>1, <1>3, <2>2
    <3>2. QED
      BY <1>1, <2>2, <3>1
  <2>3. CASE i > a
    BY <1>1, <1>5, <2>3
  <2>4. QED
    BY <1>1, <2>1, <2>2, <2>3
<1>6. ASSUME NEW i \in n + 1..a + c PROVE (w \o r)[g[i]] = (s \o r)[i]
  <2>1. CASE i <= a
    <3>1. f[i] \in 1..b /\ w[f[i]] = s[i] /\ i \in 1..a + c /\ f[i] \in 1..b + c
      BY <1>1, <1>3, <2>1
    <3>2. QED
      BY <1>1, <1>2, <2>1, <3>1
  <2>2. CASE i > a
    <3>1. i - a + b \in 1..b + c /\ ~(i - a + b <= b) /\ (i - a + b) - b = i - a /\ i \in 1..a + c
      BY <1>1, <2>2
    <3>2. QED
      BY <1>1, <1>2, <2>2, <3>1
  <2>3. i <= a \/ i > a
    BY <1>1
  <2>4. QED
    BY <2>1, <2>2, <2>3
<1>7. ASSUME NEW k \in 1..b + c
      PROVE  (w \o r)[k] \in Replies \/ \E i \in n + 1..a + c : g[i] = k
  <2>1. CASE k <= b
    <3>1. (w \o r)[k] = w[k] /\ k \in 1..b
      BY <1>1, <1>2, <2>1
    <3>2. ASSUME NEW i \in n + 1..a, f[i] = k PROVE i \in n + 1..a + c /\ g[i] = k
      BY <1>1, <3>2
    <3>3. QED
      BY <1>3, <3>1, <3>2
  <2>2. CASE k > b
    <3>1. k - b + a \in n + 1..a + c /\ g[k - b + a] = k
      BY <1>1, <2>2
    <3>2. QED
      BY <3>1
  <2>3. QED
    BY <1>1, <2>1, <2>2
<1>8. QED
  <2> HIDE DEF g, a, b, c
  <2>1. Carries(n, s \o r, w \o r) <=>
          \E h \in [n + 1..a + c -> 1..b + c] :
            /\ \A i, j \in n + 1..a + c : i < j => h[i] < h[j]
            /\ \A i \in n + 1..a + c : (w \o r)[h[i]] = (s \o r)[i]
            /\ \A k \in 1..b + c : (w \o r)[k] \in Replies \/ \E i \in n + 1..a + c : h[i] = k
    BY <1>2 DEF Carries
  <2>2. QED
    BY <1>4, <1>5, <1>6, <1>7, <2>1

LEMMA CarriesReply ==
  ASSUME NEW n \in Nat, NEW s \in Seq(Events), NEW w \in Seq(Events \union Replies), n <= Len(s),
         Carries(n, s, w), NEW m \in Replies
  PROVE  Carries(n, s, w \o <<m>>)
<1> DEFINE a == Len(s)
           b == Len(w)
<1>1. a \in Nat /\ b \in Nat /\ n <= a
  OBVIOUS
<1>2. /\ Len(w \o <<m>>) = b + 1
      /\ \A k \in 1..b : (w \o <<m>>)[k] = w[k]
      /\ (w \o <<m>>)[b + 1] = m
  OBVIOUS
<1>3. PICK f \in [n + 1..a -> 1..b] :
         /\ \A i, j \in n + 1..a : i < j => f[i] < f[j]
         /\ \A i \in n + 1..a : w[f[i]] = s[i]
         /\ \A k \in 1..b : w[k] \in Replies \/ \E i \in n + 1..a : f[i] = k
  BY DEF Carries
<1>4. f \in [n + 1..a -> 1..b + 1]
  BY <1>1, <1>3
<1>5. \A i \in n + 1..a : (w \o <<m>>)[f[i]] = s[i]
  BY <1>2, <1>3
<1>6. \A k \in 1..b + 1 : (w \o <<m>>)[k] \in Replies \/ \E i \in n + 1..a : f[i] = k
  BY <1>1, <1>2, <1>3
<1>7. Len(s) = a /\ Len(w \o <<m>>) = b + 1
  BY <1>2
<1>8. QED
  <2> HIDE DEF a, b
  <2> DEFINE v == w \o <<m>>
  <2>1. a = Len(s) /\ b + 1 = Len(v)
    BY <1>7
  <2>2. /\ f \in [n + 1..Len(s) -> 1..Len(v)]
        /\ \A i, j \in n + 1..Len(s) : i < j => f[i] < f[j]
    BY <1>3, <1>4, <2>1
  <2>3. /\ \A i \in n + 1..Len(s) : v[f[i]] = s[i]
        /\ \A k \in 1..Len(v) : v[k] \in Replies \/ \E i \in n + 1..Len(s) : f[i] = k
    BY <1>5, <1>6, <2>1
  <2> HIDE DEF v
  <2>4. Carries(n, s, v)
    BY <2>2, <2>3 DEF Carries
  <2>5. QED
    BY <2>4 DEF v

(* Its reader takes them from the front: an event is the next one.         *)
LEMMA CarriesRead ==
  ASSUME NEW n \in Nat, NEW s \in Seq(Events), NEW w \in Seq(Events \union Replies), n <= Len(s),
         Carries(n, s, w), w # <<>>
  PROVE  /\ Head(w) \in Replies => Carries(n, s, Tail(w))
         /\ Head(w) \notin Replies =>
              n < Len(s) /\ s[n + 1] = Head(w) /\ Carries(n + 1, s, Tail(w))
<1> DEFINE a == Len(s)
           b == Len(w)
<1>1. a \in Nat /\ b \in Nat /\ n <= a /\ b > 0
  OBVIOUS
<1>2. Head(w) = w[1] /\ Len(Tail(w)) = b - 1 /\ \A k \in 1..b - 1 : Tail(w)[k] = w[k + 1]
  OBVIOUS
<1>3. PICK f \in [n + 1..a -> 1..b] :
         /\ \A i, j \in n + 1..a : i < j => f[i] < f[j]
         /\ \A i \in n + 1..a : w[f[i]] = s[i]
         /\ \A k \in 1..b : w[k] \in Replies \/ \E i \in n + 1..a : f[i] = k
  BY DEF Carries
<1>4. ASSUME NEW m \in Nat, n <= m, \A i \in m + 1..a : f[i] # 1,
             \A i \in n + 1..a : i <= m => f[i] = 1
      PROVE  Carries(m, s, Tail(w))
  <2> DEFINE g == [i \in m + 1..a |-> f[i] - 1]
  <2>1. \A i \in m + 1..a : f[i] \in 1..b /\ f[i] - 1 \in 1..b - 1 /\ i \in n + 1..a
    BY <1>1, <1>3, <1>4
  <2>2. g \in [m + 1..a -> 1..b - 1]
    BY <2>1
  <2>3. \A i, j \in m + 1..a : i < j => g[i] < g[j]
    BY <1>3, <2>1
  <2>4. ASSUME NEW i \in m + 1..a PROVE Tail(w)[g[i]] = s[i]
    <3>1. g[i] \in 1..b - 1 /\ g[i] + 1 = f[i]
      BY <1>1, <2>1
    <3>2. QED
      BY <1>2, <1>3, <2>1, <3>1
  <2>5. ASSUME NEW k \in 1..b - 1
        PROVE  Tail(w)[k] \in Replies \/ \E i \in m + 1..a : g[i] = k
    <3>1. k + 1 \in 1..b /\ k + 1 # 1 /\ Tail(w)[k] = w[k + 1]
      BY <1>1, <1>2
    <3>2. ASSUME NEW i \in n + 1..a, f[i] = k + 1 PROVE i \in m + 1..a /\ g[i] = k
      BY <1>1, <1>4, <3>1, <3>2
    <3>3. QED
      BY <1>3, <3>1, <3>2
  <2>6. Len(s) = a /\ Len(Tail(w)) = b - 1
    BY <1>2
  <2>7. QED
    <3> HIDE DEF g, a, b
    <3> DEFINE v == Tail(w)
    <3>1. a = Len(s) /\ b - 1 = Len(v)
      BY <2>6
    <3>2. /\ g \in [m + 1..Len(s) -> 1..Len(v)]
          /\ \A i, j \in m + 1..Len(s) : i < j => g[i] < g[j]
      BY <2>2, <2>3, <3>1
    <3>3. /\ \A i \in m + 1..Len(s) : v[g[i]] = s[i]
          /\ \A k \in 1..Len(v) : v[k] \in Replies \/ \E i \in m + 1..Len(s) : g[i] = k
      BY <2>4, <2>5, <3>1
    <3> HIDE DEF v
    <3>4. Carries(m, s, v)
      BY <3>2, <3>3 DEF Carries
    <3>5. QED
      BY <3>4 DEF v
<1>5. CASE Head(w) \in Replies
  <2>1. \A i \in n + 1..a : f[i] # 1
    <3>1. \A i \in n + 1..a : s[i] \in Events /\ w[f[i]] = s[i]
      BY <1>1, <1>3
    <3>2. QED
      BY <1>2, <1>5, <3>1, EventsAreNoReplies
  <2>2. Carries(n, s, Tail(w))
    BY <1>1, <1>4, <2>1
  <2>3. QED
    BY <1>5, <2>2
<1>6. CASE Head(w) \notin Replies
  <2>1. PICK i \in n + 1..a : f[i] = 1
    BY <1>1, <1>2, <1>3, <1>6
  <2>2. i = n + 1
    <3>1. CASE i > n + 1
      <4>1. n + 1 \in n + 1..a /\ f[n + 1] \in 1..b /\ f[n + 1] < f[i]
        BY <1>1, <1>3, <2>1, <3>1
      <4>2. QED
        BY <1>1, <2>1, <4>1
    <3>2. QED
      BY <1>1, <2>1, <3>1
  <2>3. n < a /\ s[n + 1] = Head(w)
    BY <1>1, <1>2, <1>3, <2>1, <2>2
  <2>4. \A j \in n + 2..a : f[j] # 1
    <3>1. ASSUME NEW j \in n + 2..a PROVE f[j] # 1
      <4>1. j \in n + 1..a /\ n + 1 \in n + 1..a /\ n + 1 < j /\ f[j] \in 1..b
        BY <1>1, <1>3, <2>3
      <4>2. QED
        BY <1>1, <1>3, <2>1, <2>2, <4>1
    <3>2. QED
      BY <3>1
  <2>5. Carries(n + 1, s, Tail(w))
    <3>1. n + 1 \in Nat /\ n <= n + 1 /\ (n + 1) + 1 = n + 2
      OBVIOUS
    <3>2. \A j \in n + 1..a : j <= n + 1 => f[j] = 1
      BY <1>1, <2>1, <2>2
    <3>3. QED
      BY <1>4, <2>4, <3>1, <3>2
  <2>6. QED
    BY <1>6, <2>3, <2>5
<1>7. QED
  BY <1>5, <1>6

---------------------------------------------------------------------------
LEMMA WindowBegins == WindowInit => WindowInv
<1>1. SUFFICES ASSUME WindowInit PROVE WindowInv
  OBVIOUS
<1>2. /\ wire = <<>> /\ got = <<>> /\ emitted = <<>> /\ examined = 0 /\ backlog \in 0..MaxBacklog
      /\ Len(wire) = 0 /\ Len(got) = 0 /\ Len(emitted) = 0
  BY <1>1, WindowAssumption DEF WindowInit
<1>3. WindowTypes
  BY <1>1, <1>2 DEF WindowInit, WindowTypes, Outcomes
<1>4. QueueTypes
  BY <1>2 DEF QueueTypes
<1>5. AsksStand /\ WireStands /\ SeenStands
  BY <1>1, <1>2 DEF WindowInit, AsksStand, WireStands, SeenStands, Starts
<1>6. QED
  BY <1>3, <1>4, <1>5 DEF WindowInv

LEMMA WindowStays == ASSUME WindowInv, UNCHANGED windowVars PROVE WindowInv'
<1>1. UNCHANGED <<window, step, asked, wire, enabled, registered, emitted, backlog, got, examined,
                  late, up, outcome>>
  BY DEF windowVars
<1>2. WindowTypes' /\ QueueTypes'
  BY <1>1 DEF WindowInv, WindowTypes, QueueTypes
<1>3. AsksStand'
  BY <1>1 DEF WindowInv, AsksStand
<1>4. WireStands' /\ SeenStands'
  BY <1>1 DEF WindowInv, WireStands, SeenStands, SeenEnded
<1>5. QED
  BY <1>2, <1>3, <1>4 DEF WindowInv

(* What was seen is seen, whatever comes after it.                         *)
LEMMA SeenGrows ==
  ASSUME QueueTypes, SeenEnded, UNCHANGED examined,
         UNCHANGED got \/ \E e \in Events : got' = Append(got, e)
  PROVE  SeenEnded'
<1>1. \A i \in 1..examined : got'[i] = got[i]
  BY DEF QueueTypes
<1>2. QED
  BY <1>1 DEF SeenEnded

LEMMA ChromeKeeps == ASSUME WindowInv, ChromeAnswers PROVE WindowInv'
<1>1. /\ up /\ asked' = "none" /\ asked # "none"
      /\ UNCHANGED <<window, step, registered, got, examined, late, up, outcome>>
  BY DEF ChromeAnswers, ChromeEnables, ChromeDisables, ChromeTakes, ChromeFetches
<1>2. WindowTypes /\ QueueTypes /\ AsksStand /\ WireStands /\ SeenStands /\ backlog \in Nat
  BY WindowAssumption DEF WindowInv, WindowTypes
<1>3. \E r \in Seq(Events) : \E m \in Replies :
         /\ wire' = (wire \o r) \o <<m>> /\ emitted' = emitted \o r
         /\ m \in Answered \X {"disable"} => asked = "disable"
  <2>1. \A c \in Commands, a \in Answered : <<a, c>> \in Replies
    BY DEF Replies
  <2>2. /\ <<"ok", "enable">> \in Replies /\ <<"refused", "enable">> \in Replies
        /\ <<"ok", "disable">> \in Replies /\ <<"ok", "take">> \in Replies
        /\ <<"refused", "take">> \in Replies /\ \A a \in Answered : <<a, "fetch">> \in Replies
    BY <2>1 DEF Commands, Answered
  <2>3. <<>> \in Seq(Events) /\ wire \o <<>> = wire /\ emitted \o <<>> = emitted
    BY <1>2 DEF QueueTypes
  <2>4. ASSUME NEW replay \in [1..backlog -> {Match, Other}], Says(replay \o <<<<"ok", "enable">>>>),
               emitted' = emitted \o replay
        PROVE  \E r \in Seq(Events) : \E m \in Replies :
                 /\ wire' = (wire \o r) \o <<m>> /\ emitted' = emitted \o r
                 /\ m \in Answered \X {"disable"} => asked = "disable"
    <3>1. replay \in Seq(Events)
      <4>1. replay \in [1..backlog -> Events]
        BY DEF Events
      <4>2. QED
        BY <1>2, <4>1
    <3>2. wire' = (wire \o replay) \o <<<<"ok", "enable">>>>
      BY <1>2, <2>2, <2>4, <3>1 DEF Says, QueueTypes
    <3>3. QED
      BY <2>2, <2>4, <3>1, <3>2
  <2>5. ASSUME NEW m \in Replies, Says(<<m>>), UNCHANGED emitted,
               m \in Answered \X {"disable"} => asked = "disable"
        PROVE  \E r \in Seq(Events) : \E q \in Replies :
                 /\ wire' = (wire \o r) \o <<q>> /\ emitted' = emitted \o r
                 /\ q \in Answered \X {"disable"} => asked = "disable"
    BY <2>3, <2>5 DEF Says
  <2>6. CASE ChromeEnables
    BY <2>2, <2>4, <2>5, <2>6 DEF ChromeEnables
  <2>7. CASE ChromeDisables /\ UNCHANGED <<emitted, backlog>>
    BY <2>2, <2>5, <2>7 DEF ChromeDisables
  <2>8. CASE (ChromeTakes \/ ChromeFetches) /\ UNCHANGED <<enabled, emitted, backlog>>
    BY <2>2, <2>5, <2>8 DEF ChromeTakes, ChromeFetches
  <2>9. QED
    BY <2>6, <2>7, <2>8 DEF ChromeAnswers
<1>4. PICK r \in Seq(Events), m \in Replies :
         /\ wire' = (wire \o r) \o <<m>> /\ emitted' = emitted \o r
         /\ m \in Answered \X {"disable"} => asked = "disable"
  BY <1>3
<1>5. /\ wire \in Seq(Events \union Replies) /\ emitted \in Seq(Events) /\ got \in Seq(Events)
      /\ wire \o r \in Seq(Events \union Replies) /\ r \in Seq(Events \union Replies)
      /\ <<m>> \in Seq(Events \union Replies)
  BY <1>2 DEF QueueTypes
<1>6. QueueTypes'
  <2>1. wire' \in Seq(Events \union Replies) /\ emitted' \in Seq(Events)
    BY <1>4, <1>5
  <2>2. QED
    BY <1>1, <1>2, <2>1 DEF QueueTypes
<1>7. WindowTypes'
  <2>1. enabled' \in BOOLEAN
    BY <1>2 DEF WindowTypes, ChromeAnswers, ChromeEnables, ChromeDisables
  <2>2. backlog' \in 0..MaxBacklog
    BY <1>2, WindowAssumption DEF WindowTypes, ChromeAnswers, ChromeEnables
  <2>3. QED
    BY <1>1, <1>2, <2>1, <2>2 DEF WindowTypes
<1>8. WireStands'
  <2>1. Starts(got, emitted')
    BY <1>2, <1>4, <1>5 DEF WireStands, Starts
  <2>2. ASSUME registered PROVE Carries(Len(got), emitted', wire')
    <3>1. Carries(Len(got), emitted, wire) /\ Len(got) <= Len(emitted) /\ Len(got) \in Nat
      BY <1>1, <1>2, <1>5, <2>2 DEF WireStands, Starts
    <3>2. Carries(Len(got), emitted \o r, wire \o r)
      BY <1>5, <3>1, CarriesSent
    <3>3. emitted \o r \in Seq(Events) /\ Len(got) <= Len(emitted \o r)
      BY <1>5, <3>1
    <3>4. QED
      BY <1>4, <1>5, <3>1, <3>2, <3>3, CarriesReply
  <2>3. QED
    BY <1>1, <2>1, <2>2 DEF WireStands
<1>9. SeenStands'
  BY <1>1, <1>2, SeenGrows DEF SeenStands
<1>10. AsksStand'
  <2>1. ASSUME NEW k \in 1..Len(wire'), wire'[k] \in Answered \X {"disable"}
        PROVE  asked = "disable" \/ \E j \in 1..Len(wire) : wire[j] \in Answered \X {"disable"}
    <3>1. CASE k \in 1..Len(wire)
      BY <1>4, <1>5, <2>1, <3>1
    <3>2. CASE k \in Len(wire) + 1..Len(wire) + Len(r)
      <4>1. wire'[k] = r[k - Len(wire)] /\ k - Len(wire) \in 1..Len(r)
        BY <1>4, <1>5, <3>2
      <4>2. wire'[k] \in Events
        BY <4>1
      <4>3. QED
        BY <2>1, <4>2, EventsAreNoReplies DEF Replies, Commands
    <3>3. CASE k = Len(wire) + Len(r) + 1
      BY <1>4, <1>5, <2>1, <3>3
    <3>4. QED
      BY <1>4, <1>5, <3>1, <3>2, <3>3
  <2>2. /\ asked = "enable" => step = "enable"
        /\ asked = "disable" => step = "disable"
        /\ step # "start"
    BY <1>1, <1>2 DEF AsksStand
  <2>3. /\ asked # "enable" /\ asked # "disable" => enabled' = enabled
        /\ asked = "disable" => ~enabled'
    BY DEF ChromeAnswers, ChromeEnables, ChromeDisables, ChromeTakes, ChromeFetches
  <2>4. (\E k \in 1..Len(wire') : wire'[k] \in Answered \X {"disable"}) => step \in {"disable", "over"}
    BY <1>2, <2>1, <2>2 DEF AsksStand
  <2>5. QED
    BY <1>1, <1>2, <2>2, <2>3, <2>4 DEF AsksStand
<1>11. QED
  BY <1>6, <1>7, <1>8, <1>9, <1>10 DEF WindowInv

LEMMA PageEmitsKeeps == ASSUME WindowInv, PageEmits PROVE WindowInv'
<1>1. /\ up /\ enabled /\ step # "over"
      /\ UNCHANGED <<window, step, asked, enabled, registered, backlog, got, examined, late, up,
                     outcome>>
  BY DEF PageEmits
<1>2. WindowTypes /\ QueueTypes /\ AsksStand /\ WireStands /\ SeenStands
  BY DEF WindowInv
<1>3. PICK e \in Emits : Says(<<e>>) /\ emitted' = Append(emitted, e)
  BY DEF PageEmits
<1>4. e \in Events
  <2>1. Emits \subseteq Events
    <3>1. CASE window \in {"wait", "collect"}
      BY <3>1 DEF Emits, Events
    <3>2. CASE window = "heap"
      BY <3>2 DEF Emits, Events
    <3>3. CASE window = "netget"
      BY <3>3 DEF Emits
    <3>4. QED
      BY <1>2, <3>1, <3>2, <3>3 DEF WindowTypes, Windows
  <2>2. QED
    BY <2>1
<1>5. /\ wire \in Seq(Events \union Replies) /\ emitted \in Seq(Events) /\ got \in Seq(Events)
      /\ <<e>> \in Seq(Events) /\ wire' = wire \o <<e>> /\ emitted' = emitted \o <<e>>
  BY <1>2, <1>3, <1>4 DEF QueueTypes, Says
<1>6. WindowTypes' /\ QueueTypes'
  <2>1. wire' \in Seq(Events \union Replies) /\ emitted' \in Seq(Events)
    BY <1>4, <1>5
  <2>2. QED
    BY <1>1, <1>2, <2>1 DEF WindowTypes, QueueTypes
<1>7. WireStands'
  <2>1. Starts(got, emitted')
    BY <1>2, <1>5 DEF WireStands, Starts
  <2>2. ASSUME registered PROVE Carries(Len(got), emitted', wire')
    <3>1. Carries(Len(got), emitted, wire) /\ Len(got) <= Len(emitted) /\ Len(got) \in Nat
      BY <1>1, <1>2, <1>5, <2>2 DEF WireStands, Starts
    <3>2. QED
      BY <1>5, <3>1, CarriesSent
  <2>3. QED
    BY <1>1, <2>1, <2>2 DEF WireStands
<1>8. SeenStands'
  BY <1>1, <1>2, SeenGrows DEF SeenStands
<1>9. AsksStand'
  <2>1. ASSUME NEW k \in 1..Len(wire'), wire'[k] \in Answered \X {"disable"}
        PROVE  \E j \in 1..Len(wire) : wire[j] \in Answered \X {"disable"}
    <3>1. wire'[k] \notin Events
      BY <2>1, EventsAreNoReplies DEF Replies, Commands
    <3>2. k # Len(wire) + 1
      BY <1>4, <1>5, <3>1
    <3>3. k \in 1..Len(wire) /\ wire'[k] = wire[k]
      BY <1>5, <3>2
    <3>4. QED
      BY <2>1, <3>3
  <2>2. step # "start" /\ asked # "enable"
    BY <1>1, <1>2 DEF AsksStand
  <2>3. QED
    BY <1>1, <1>2, <2>1, <2>2 DEF AsksStand
<1>10. QED
  BY <1>6, <1>7, <1>8, <1>9 DEF WindowInv

LEMMA DropsKeeps == ASSUME WindowInv, Drops PROVE WindowInv'
<1>1. /\ up' = FALSE /\ wire' = <<>> /\ asked' = "none" /\ step # "start"
      /\ UNCHANGED <<window, step, enabled, registered, emitted, backlog, got, examined, late,
                     outcome>>
  BY DEF Drops
<1>2. WindowTypes /\ QueueTypes /\ AsksStand /\ WireStands /\ SeenStands
  BY DEF WindowInv
<1>3. WindowTypes' /\ QueueTypes'
  <2>1. asked' \in Commands \union {"none"} /\ up' \in BOOLEAN
    BY <1>1
  <2>2. WindowTypes'
    BY <1>1, <1>2, <2>1 DEF WindowTypes
  <2>3. QueueTypes'
    BY <1>1, <1>2 DEF QueueTypes
  <2>4. QED
    BY <2>2, <2>3
<1>4. AsksStand'
  BY <1>1, <1>2 DEF AsksStand
<1>5. WireStands' /\ SeenStands'
  BY <1>1, <1>2 DEF WireStands, SeenStands, SeenEnded
<1>6. QED
  BY <1>3, <1>4, <1>5 DEF WindowInv

---------------------------------------------------------------------------
(* The reader takes one message off the wire.                              *)
LEMMA TakenOffTheWire ==
  ASSUME WindowInv, wire # <<>>, wire' = Tail(wire)
  PROVE  /\ up /\ wire' \in Seq(Events \union Replies)
         /\ Head(wire) \in Events \union Replies
         /\ \A k \in 1..Len(wire') : \E j \in 1..Len(wire) : wire[j] = wire'[k]
         /\ \E j \in 1..Len(wire) : wire[j] = Head(wire)
<1>1. wire \in Seq(Events \union Replies) /\ up
  BY DEF WindowInv, QueueTypes, AsksStand
<1>2. \A k \in 1..Len(wire') : k + 1 \in 1..Len(wire) /\ wire[k + 1] = wire'[k]
  BY <1>1
<1>3. 1 \in 1..Len(wire) /\ wire[1] = Head(wire)
  BY <1>1
<1>4. QED
  BY <1>1, <1>2, <1>3

LEMMA ReplyRead ==
  ASSUME WindowInv, wire # <<>>, wire' = Tail(wire), Head(wire) \in Replies,
         UNCHANGED <<got, emitted>>, registered' => registered
  PROVE  WireStands'
<1>1. /\ wire \in Seq(Events \union Replies) /\ emitted \in Seq(Events) /\ got \in Seq(Events)
      /\ WireStands /\ up
  BY TakenOffTheWire DEF WindowInv, QueueTypes
<1>2. ASSUME registered PROVE Carries(Len(got), emitted, wire')
  <2>1. Carries(Len(got), emitted, wire) /\ Len(got) <= Len(emitted) /\ Len(got) \in Nat
    BY <1>1, <1>2 DEF WireStands, Starts
  <2>2. QED
    BY <1>1, <2>1, CarriesRead
<1>3. QED
  BY <1>1, <1>2 DEF WireStands

LEMMA ReadEventKeeps == ASSUME WindowInv, ReadEvent PROVE WindowInv'
<1>1. /\ wire # <<>> /\ wire' = Tail(wire) /\ Head(wire) \notin Replies
      /\ got' = IF registered THEN Append(got, Head(wire)) ELSE got
      /\ UNCHANGED <<window, step, asked, enabled, registered, emitted, backlog, examined, late, up,
                     outcome>>
  BY DEF ReadEvent, IsAnswer, Replies, Commands
<1>2. WindowTypes /\ QueueTypes /\ AsksStand /\ WireStands /\ SeenStands
  BY DEF WindowInv
<1>3. /\ Head(wire) \in Events /\ up /\ wire' \in Seq(Events \union Replies)
      /\ \A k \in 1..Len(wire') : \E j \in 1..Len(wire) : wire[j] = wire'[k]
  BY <1>1, TakenOffTheWire
<1>4. /\ wire \in Seq(Events \union Replies) /\ emitted \in Seq(Events) /\ got \in Seq(Events)
      /\ examined \in 0..Len(got)
  BY <1>2 DEF QueueTypes
<1>5. QueueTypes'
  <2>1. got' \in Seq(Events) /\ examined \in 0..Len(got')
    BY <1>1, <1>3, <1>4
  <2>2. QED
    BY <1>1, <1>3, <1>4, <2>1 DEF QueueTypes
<1>6. WindowTypes'
  BY <1>1, <1>2 DEF WindowTypes
<1>7. AsksStand'
  BY <1>1, <1>2, <1>3 DEF AsksStand
<1>8. WireStands'
  <2>1. CASE registered
    <3>1. Carries(Len(got), emitted, wire) /\ Len(got) <= Len(emitted) /\ Len(got) \in Nat
      BY <1>2, <1>3, <1>4, <2>1 DEF WireStands, Starts
    <3>2. /\ Len(got) < Len(emitted) /\ emitted[Len(got) + 1] = Head(wire)
          /\ Carries(Len(got) + 1, emitted, Tail(wire))
      BY <1>1, <1>4, <3>1, CarriesRead
    <3>3. Len(got') = Len(got) + 1 /\ got'[Len(got) + 1] = Head(wire)
          /\ \A i \in 1..Len(got) : got'[i] = got[i]
      BY <1>1, <1>4, <2>1
    <3>4. Starts(got', emitted)
      BY <1>2, <1>4, <3>2, <3>3 DEF WireStands, Starts
    <3>5. QED
      BY <1>1, <3>2, <3>3, <3>4 DEF WireStands
  <2>2. CASE ~registered
    BY <1>1, <1>2, <2>2 DEF WireStands
  <2>3. QED
    BY <2>1, <2>2
<1>9. SeenStands'
  <2>1. UNCHANGED got \/ \E e \in Events : got' = Append(got, e)
    BY <1>1, <1>3
  <2>2. QED
    BY <1>1, <1>2, <2>1, SeenGrows DEF SeenStands
<1>10. QED
  BY <1>5, <1>6, <1>7, <1>8, <1>9 DEF WindowInv

(* Leaving the body, with or without a message that was read.              *)
LEMMA LeaveKeeps ==
  ASSUME WindowTypes, AsksStand, step \in {"body", "sleep", "fetch"}, NEW how \in Outcomes, Leave(how),
         UNCHANGED <<enabled, up>>, wire = <<>> => wire' = <<>>,
         \A k \in 1..Len(wire') : \E j \in 1..Len(wire) : wire[j] = wire'[k]
  PROVE  /\ AsksStand' /\ step' \in {"disable", "over"} /\ outcome' = how /\ registered
         /\ asked' \in Commands \union {"none"} /\ registered' \in BOOLEAN
<1>1. /\ outcome' = how /\ step' \in {"disable", "over"}
      /\ enabled /\ up => step' = "disable" /\ asked' = "disable" /\ registered' = registered
      /\ ~(enabled /\ up) => step' = "over" /\ asked' = asked /\ ~registered'
      /\ registered' \in {registered, FALSE}
  BY DEF Leave
<1>2. registered /\ asked \notin {"enable", "disable"} /\ registered \in BOOLEAN
      /\ \A k \in 1..Len(wire) : wire[k] \notin Answered \X {"disable"}
  BY DEF AsksStand, WindowTypes
<1>3. \A k \in 1..Len(wire') : wire'[k] \notin Answered \X {"disable"}
  BY <1>2
<1>4. asked' \in Commands \union {"none"}
  BY <1>1 DEF WindowTypes, Commands
<1>5. AsksStand'
  BY <1>1, <1>2, <1>3 DEF AsksStand
<1>6. QED
  BY <1>1, <1>2, <1>4, <1>5

(* A reply is read: a stale one, or one that is awaited.                   *)
LEMMA RepliesKeep ==
  ASSUME WindowInv, ReadStale \/ EnableAnswered \/ Fetched \/ Disabled PROVE WindowInv'
<1>1. WindowTypes /\ QueueTypes /\ AsksStand /\ WireStands /\ SeenStands
  BY DEF WindowInv
<1>2. UNCHANGED <<window, enabled, emitted, backlog, got, examined, late, up>>
  BY DEF ReadStale, EnableAnswered, Fetched, Disabled
<1>3. CASE Disabled /\ ~up
  <2>1. /\ step = "disable" /\ step' = "over" /\ registered' = FALSE
        /\ UNCHANGED <<asked, outcome, wire>>
    BY <1>3 DEF Disabled
  <2>2. WindowTypes' /\ QueueTypes'
    BY <1>1, <1>2, <2>1 DEF WindowTypes, QueueTypes
  <2>3. AsksStand'
    BY <1>1, <1>2, <1>3, <2>1 DEF AsksStand
  <2>4. WireStands' /\ SeenStands'
    BY <1>1, <1>2, <2>1 DEF WireStands, SeenStands, SeenEnded
  <2>5. QED
    BY <2>2, <2>3, <2>4 DEF WindowInv
<1>4. CASE ~(Disabled /\ ~up)
  <2>1. /\ wire # <<>> /\ wire' = Tail(wire) /\ Head(wire) \in Replies
        /\ Disabled => Head(wire) \in Answered \X {"disable"}
        /\ EnableAnswered => Head(wire) \in Answered \X {"enable"}
    <3>1. CASE ReadStale
      BY <3>1 DEF ReadStale, IsAnswer, Replies, Commands, EnableAnswered, AnswerOf, Awaited, Disabled
    <3>2. CASE EnableAnswered
      BY <3>2 DEF EnableAnswered, AnswerOf, Replies, Commands, Disabled
    <3>3. CASE Fetched
      BY <3>3 DEF Fetched, AnswerOf, Awaited, Replies, Commands, EnableAnswered, Disabled
    <3>4. CASE Disabled
      BY <1>4, <3>4 DEF Disabled, AnswerOf, Replies, Commands, EnableAnswered
    <3>5. QED
      BY <3>1, <3>2, <3>3, <3>4
  <2>2. /\ up /\ wire' \in Seq(Events \union Replies)
        /\ \A k \in 1..Len(wire') : \E j \in 1..Len(wire) : wire[j] = wire'[k]
        /\ \E j \in 1..Len(wire) : wire[j] = Head(wire)
    BY <2>1, TakenOffTheWire
  <2>3. QueueTypes'
    BY <1>1, <1>2, <2>2 DEF QueueTypes
  <2>4. CASE ReadStale
    <3>1. UNCHANGED <<step, asked, registered, outcome>>
      BY <2>4 DEF ReadStale
    <3>2. WindowTypes' /\ SeenStands'
      BY <1>1, <1>2, <3>1 DEF WindowTypes, SeenStands, SeenEnded
    <3>3. AsksStand'
      BY <1>1, <1>2, <2>1, <2>2, <3>1 DEF AsksStand
    <3>4. WireStands'
      BY <1>2, <2>1, <3>1, ReplyRead
    <3>5. QED
      BY <2>3, <3>2, <3>3, <3>4 DEF WindowInv
  <2>5. CASE EnableAnswered
    <3>1. /\ step = "enable" /\ registered /\ registered' = TRUE /\ outcome' = outcome
          /\ step' = (IF window = "heap" THEN "fetch" ELSE "body")
          /\ asked' = IF window = "heap" THEN "take" ELSE asked
      BY <1>1, <2>5 DEF EnableAnswered, AsksStand
    <3>2. asked \notin {"enable", "disable"} /\ asked' \notin {"enable", "disable"}
          /\ asked' \in Commands \union {"none"}
      BY <1>1, <2>1, <3>1 DEF AsksStand, WindowTypes, Commands
    <3>3. WindowTypes'
      BY <1>1, <1>2, <3>1, <3>2 DEF WindowTypes
    <3>4. AsksStand'
      BY <1>1, <1>2, <2>2, <3>1, <3>2 DEF AsksStand
    <3>5. WireStands'
      BY <1>2, <2>1, <3>1, ReplyRead
    <3>6. SeenStands'
      BY <1>1, <1>2, <3>1 DEF SeenStands, SeenEnded
    <3>7. QED
      BY <2>3, <3>3, <3>4, <3>5, <3>6 DEF WindowInv
  <2>6. CASE Fetched
    <3>1. PICK how \in Outcomes : /\ Leave(how) /\ (how = "body" => window # "heap")
      BY <2>6 DEF Fetched, Outcomes
    <3>2. step = "fetch"
      BY <2>6 DEF Fetched
    <3>3. /\ AsksStand' /\ step' \in {"disable", "over"} /\ outcome' = how /\ registered
          /\ asked' \in Commands \union {"none"} /\ registered' \in BOOLEAN
      BY <1>1, <1>2, <2>1, <2>2, <3>1, <3>2, LeaveKeeps
    <3>4. WindowTypes'
      BY <1>1, <1>2, <3>3 DEF WindowTypes
    <3>5. WireStands'
      BY <1>2, <2>1, <3>3, ReplyRead
    <3>6. SeenStands'
      BY <1>1, <1>2, <3>1, <3>2, <3>3 DEF SeenStands, SeenEnded
    <3>7. QED
      BY <2>3, <3>3, <3>4, <3>5, <3>6 DEF WindowInv
  <2>7. CASE Disabled
    <3>1. /\ step = "disable" /\ step' = "over" /\ registered' = FALSE
          /\ UNCHANGED <<asked, outcome>>
      BY <2>7 DEF Disabled
    <3>2. \E j \in 1..Len(wire) : wire[j] \in Answered \X {"disable"}
      BY <2>1, <2>2, <2>7
    <3>3. asked \notin {"enable", "disable"} /\ ~enabled
      BY <1>1, <2>2, <3>1, <3>2 DEF AsksStand
    <3>4. WindowTypes' /\ SeenStands'
      BY <1>1, <1>2, <3>1 DEF WindowTypes, SeenStands, SeenEnded
    <3>5. AsksStand'
      BY <1>1, <1>2, <2>2, <3>1, <3>3 DEF AsksStand
    <3>6. WireStands'
      BY <1>2, <2>1, <3>1, ReplyRead
    <3>7. QED
      BY <2>3, <3>4, <3>5, <3>6 DEF WindowInv
  <2>8. QED
    BY <2>4, <2>5, <2>6, <2>7
<1>5. QED
  BY <1>3, <1>4

---------------------------------------------------------------------------
LEMMA GreatestOf ==
  ASSUME NEW n \in Nat, NEW S, S \subseteq 1..n, S # {}
  PROVE  \E s \in S : \A t \in S : t <= s
<1> DEFINE R == OpToRel(<, Nat)
           T == {n - s : s \in S}
<1>1. T \subseteq Nat /\ T # {}
  <2>1. \A s \in S : n - s \in Nat /\ n - s \in T
    OBVIOUS
  <2>2. QED
    BY <2>1
<1>2. IsWellFoundedOn(R, Nat)
  BY NatLessThanWellFounded
<1>3. \E x \in T : \A y \in T : <<y, x>> \notin R
  <2> HIDE DEF R, T
  <2>1. QED
    BY <1>1, <1>2, WFMin
<1>4. \A x, y \in Nat : y < x => <<y, x>> \in R
  BY DEF OpToRel
<1> HIDE DEF R
<1>5. PICK s \in S : \A y \in T : <<y, n - s>> \notin R
  BY <1>3
<1>6. ASSUME NEW t \in S PROVE t <= s
  <2>1. n - t \in T /\ n - t \in Nat /\ n - s \in Nat
    BY <1>6
  <2>2. ~(n - t < n - s)
    BY <1>4, <1>5, <2>1
  <2>3. QED
    BY <2>1, <2>2
<1>7. QED
  BY <1>6

(* The match that is last is the one that is inspected.                    *)
LEMMA LastMatchSeen ==
  ASSUME got \in Seq(Events), Matching # {}, Contains(got, <<"finished", LastMatch>>),
         examined' = Len(got), UNCHANGED got
  PROVE  SeenEnded'
<1> DEFINE Last1(i) == i \in Matching /\ \A j \in Matching : j <= i
<1>1. Len(got) \in Nat /\ Matching \subseteq 1..Len(got)
  BY DEF Matching
<1>2. \E i \in Matching : \A j \in Matching : j <= i
  BY <1>1, GreatestOf
<1>3. PICK i \in Matching : (\A j \in Matching : j <= i) /\ LastMatch = got[i][2]
  BY <1>2 DEF LastMatch
<1>4. PICK k \in 1..Len(got) : got[k] = <<"finished", got[i][2]>>
  BY <1>3 DEF Contains
<1>5. i \in 1..Len(got) /\ got[i] \in {"received"} \X Requests
  BY <1>3 DEF Matching
<1>6. \A j \in 1..Len(got) : got[j] \in {"received"} \X Requests => j <= i
  BY <1>3 DEF Matching
<1>7. QED
  BY <1>4, <1>5, <1>6 DEF SeenEnded

LEMMA WindowMoves ==
  ASSUME WindowInv,
         \/ Begin \/ Examine \/ WaitExpires \/ WindowCloses \/ Inspect \/ Wakes \/ Deadline
         \/ ConnectionLost \/ GivenUp
  PROVE  WindowInv'
<1>1. WindowTypes /\ QueueTypes /\ AsksStand /\ WireStands /\ SeenStands
  BY DEF WindowInv
<1>2. /\ UNCHANGED <<window, wire, enabled, emitted, backlog, got, up>>
      /\ \A k \in 1..Len(wire') : \E j \in 1..Len(wire) : wire[j] = wire'[k]
  BY DEF Begin, Examine, WaitExpires, WindowCloses, Inspect, Wakes, Deadline, ConnectionLost, GivenUp,
         Raises
<1>3. late' \in BOOLEAN /\ examined' \in 0..Len(got) /\ QueueTypes'
  <2>1. late \in BOOLEAN /\ examined \in 0..Len(got) /\ Len(got) \in Nat
    BY <1>1 DEF WindowTypes, QueueTypes
  <2>2. late' \in BOOLEAN
    BY <2>1 DEF Begin, Examine, WaitExpires, WindowCloses, Inspect, Wakes, Deadline, ConnectionLost,
                GivenUp, Raises
  <2>3. examined' \in {examined, Len(got)} \/ (examined < Len(got) /\ examined' = examined + 1)
    BY DEF Begin, Examine, WaitExpires, WindowCloses, Inspect, Wakes, Deadline, ConnectionLost,
           GivenUp, Raises
  <2>4. examined' \in 0..Len(got)
    BY <2>1, <2>3
  <2>5. QED
    BY <1>1, <1>2, <2>2, <2>4 DEF QueueTypes
<1>4. ASSUME registered' => registered PROVE WireStands'
  BY <1>1, <1>2, <1>4 DEF WireStands
<1>5. ASSUME NEW how \in Outcomes, Leave(how), step \in {"body", "sleep", "fetch"},
             how = "body" => SeenEnded'
      PROVE  WindowInv'
  <2>1. /\ AsksStand' /\ step' \in {"disable", "over"} /\ outcome' = how /\ registered
        /\ asked' \in Commands \union {"none"} /\ registered' \in BOOLEAN
    BY <1>1, <1>2, <1>5, LeaveKeeps
  <2>2. WindowTypes'
    BY <1>1, <1>2, <1>3, <2>1 DEF WindowTypes
  <2>3. SeenStands'
    BY <1>5, <2>1 DEF SeenStands
  <2>4. QED
    BY <1>3, <1>4, <2>1, <2>2, <2>3 DEF WindowInv
<1>6. CASE Begin
  <2>1. /\ step = "start" /\ step' = "enable" /\ asked' = "enable" /\ registered' = TRUE
        /\ UNCHANGED <<examined, late, outcome>>
    BY <1>6 DEF Begin, Registers
  <2>2. wire = <<>> /\ got = <<>> /\ emitted = <<>> /\ ~enabled /\ up /\ Len(got) = 0
    BY <1>1, <2>1 DEF AsksStand
  <2>3. WindowTypes'
    BY <1>1, <1>2, <2>1 DEF WindowTypes, Commands
  <2>4. AsksStand'
    BY <1>1, <1>2, <2>1, <2>2 DEF AsksStand
  <2>5. WireStands'
    <3>1. Carries(0, <<>>, <<>>)
      <4> DEFINE f == [i \in 0 + 1..Len(<<>>) |-> 0]
      <4>1. /\ \A i \in 0 + 1..Len(<<>>) : FALSE
            /\ \A i \in 1..Len(<<>>) : FALSE
        OBVIOUS
      <4>2. f \in [0 + 1..Len(<<>>) -> 1..Len(<<>>)]
        BY <4>1
      <4> HIDE DEF f
      <4>3. QED
        BY <4>1, <4>2 DEF Carries
    <3>2. QED
      BY <1>1, <1>2, <2>2, <3>1 DEF WireStands
  <2>6. SeenStands'
    BY <1>1, <1>2, <2>1, SeenGrows DEF SeenStands
  <2>7. QED
    BY <1>3, <2>3, <2>4, <2>5, <2>6 DEF WindowInv
<1>7. ASSUME step \notin {"start", "over"}, step' \in {"body", "sleep"},
             step \in {"body", "sleep"}, UNCHANGED <<asked, registered, outcome>>
      PROVE  WindowInv'
  <2>1. WindowTypes'
    BY <1>1, <1>2, <1>3, <1>7 DEF WindowTypes
  <2>2. AsksStand'
    BY <1>1, <1>2, <1>7 DEF AsksStand
  <2>3. SeenStands'
    BY <1>1, <1>7 DEF SeenStands, AsksStand
  <2>4. QED
    BY <1>3, <1>4, <1>7, <2>1, <2>2, <2>3 DEF WindowInv
<1>8. CASE Examine
  BY <1>5, <1>7, <1>8 DEF Examine, Outcomes
<1>9. CASE WaitExpires \/ WindowCloses
  BY <1>5, <1>9 DEF WaitExpires, WindowCloses, Outcomes
<1>10. CASE Inspect
  <2>1. window = "netget" /\ step = "body" /\ examined' = Len(got)
    BY <1>10 DEF Inspect
  <2>2. CASE \E how \in Outcomes \ {"body"} : Leave(how)
    BY <1>5, <2>1, <2>2
  <2>3. CASE /\ step' = "fetch" /\ asked' = "fetch" /\ UNCHANGED <<registered, outcome, late>>
             /\ Matching # {} /\ Contains(got, <<"finished", Counts>>)
    <3>1. SeenEnded'
      BY <1>1, <1>2, <2>1, <2>3, LastMatchSeen DEF QueueTypes, Counts
    <3>2. WindowTypes'
      BY <1>1, <1>2, <1>3, <2>3 DEF WindowTypes, Commands
    <3>3. AsksStand'
      BY <1>1, <1>2, <2>1, <2>3 DEF AsksStand
    <3>4. QED
      BY <1>3, <1>4, <2>3, <3>1, <3>2, <3>3 DEF WindowInv, SeenStands
  <2>4. CASE step' = "sleep" /\ UNCHANGED <<asked, registered, outcome>>
    BY <1>7, <2>1, <2>4
  <2>5. QED
    BY <1>10, <2>2, <2>3, <2>4 DEF Inspect, Outcomes
<1>11. CASE Wakes
  BY <1>7, <1>11 DEF Wakes
<1>12. CASE Deadline
  BY <1>7, <1>12 DEF Deadline
<1>13. CASE ConnectionLost \/ GivenUp
  <2>1. PICK how \in {"error", "cut"} : Raises(how) /\ (how = "error" => ~up)
    BY <1>13 DEF ConnectionLost, GivenUp
  <2>2. UNCHANGED <<examined, late>>
    BY <2>1 DEF Raises
  <2>3. CASE FailsInEnable(how)
    <3>1. /\ step = "enable" /\ step' = "over" /\ outcome' = how /\ registered' = FALSE
          /\ asked' = "none"
      BY <2>3 DEF FailsInEnable, TakenOff
    <3>2. WindowTypes'
      BY <1>1, <1>2, <1>3, <3>1 DEF WindowTypes, Outcomes
    <3>3. AsksStand'
      BY <1>1, <1>2, <2>1, <3>1 DEF AsksStand
    <3>4. SeenStands'
      BY <3>1 DEF SeenStands
    <3>5. QED
      BY <1>3, <1>4, <3>1, <3>2, <3>3, <3>4 DEF WindowInv
  <2>4. CASE step \in {"body", "sleep", "fetch"} /\ Leave(how)
    BY <1>5, <2>4 DEF Outcomes
  <2>5. QED
    BY <2>1, <2>3, <2>4 DEF Raises
<1>14. QED
  BY <1>6, <1>8, <1>9, <1>10, <1>11, <1>12, <1>13

LEMMA WindowSteps == ASSUME WindowInv, [Next]_vars PROVE WindowInv'
<1>1. CASE WindowNext
  BY <1>1, ChromeKeeps, PageEmitsKeeps, DropsKeeps, ReadEventKeeps, RepliesKeep, WindowMoves
     DEF WindowNext, WindowStep
<1>2. CASE ~WindowNext
  <2>1. UNCHANGED windowVars
    BY <1>2 DEF Next, vars, observeVars, Window, Attach, Verb
  <2>2. QED
    BY <2>1, WindowStays
<1>3. QED
  BY <1>1, <1>2

LEMMA LastIsLast ==
  ASSUME got \in Seq(Events), examined \in 0..Len(got), SeenEnded
  PROVE  LET seen == SubSeq(got, 1, examined)
             last == SelectLastInSeq(seen, LAMBDA e : e \in {"received"} \X Requests)
         IN last # 0 /\ Contains(seen, <<"finished", seen[last][2]>>)
<1> DEFINE seen == SubSeq(got, 1, examined)
           I == {i \in 1..Len(seen) : seen[i] \in {"received"} \X Requests}
           last == SelectLastInSeq(seen, LAMBDA e : e \in {"received"} \X Requests)
<1>1. Len(seen) = examined /\ \A i \in 1..examined : seen[i] = got[i]
  OBVIOUS
<1>2. last = IF I # {} THEN Max(I) ELSE 0
  BY DEF SelectLastInSeq
<1>3. PICK i \in 1..examined :
        /\ got[i] \in {"received"} \X Requests
        /\ \A j \in 1..examined : got[j] \in {"received"} \X Requests => j <= i
        /\ \E k \in 1..examined : got[k] = <<"finished", got[i][2]>>
  BY DEF SeenEnded
<1>4. i \in I /\ \A j \in I : j <= i
  BY <1>1, <1>3
<1>5. I \subseteq Nat
  OBVIOUS
<1>6. Max(I) = i
  <2> HIDE DEF I
  <2>1. \E x \in I : \A y \in I : x >= y
    BY <1>4, <1>5
  <2>2. Max(I) \in I /\ \A y \in I : Max(I) >= y
    BY <2>1 DEF Max
  <2> DEFINE m == Max(I)
  <2>3. m \in Nat /\ i \in Nat /\ m <= i /\ m >= i
    BY <1>4, <1>5, <2>2
  <2> HIDE DEF m
  <2>4. m = i
    BY <2>3
  <2>5. QED
    BY <2>4 DEF m
<1>7. last = i /\ i # 0
  <2> HIDE DEF I, last
  <2>1. QED
    BY <1>2, <1>3, <1>4, <1>6
<1>8. seen[i] = got[i]
  BY <1>1
<1>9. \E k \in 1..Len(seen) : seen[k] = <<"finished", seen[i][2]>>
  BY <1>1, <1>3, <1>8
<1>10. QED
  <2> HIDE DEF last, seen
  <2>1. last # 0 /\ Contains(seen, <<"finished", seen[last][2]>>)
    BY <1>7, <1>9 DEF Contains
  <2>2. QED
    BY <2>1 DEF last, seen

LEMMA WindowIsWell ==
  ASSUME WindowInv PROVE WindowTypeOK /\ NothingMissed /\ BodyIsOfLastMatch /\ NothingLeft
<1>1. WindowTypes /\ QueueTypes /\ AsksStand /\ WireStands /\ SeenStands
  BY DEF WindowInv
<1>2. WindowTypeOK
  <2>1. {enabled, registered, late, up} \subseteq BOOLEAN
    BY <1>1, Zenon DEF WindowTypes
  <2>2. wire \in Seq(Events \union (Answered \X {"enable", "disable", "fetch", "take"}))
    BY <1>1 DEF QueueTypes, Replies, Commands
  <2>3. asked \in {"none", "enable", "disable", "fetch", "take"}
    BY <1>1 DEF WindowTypes, Commands
  <2>4. QED
    BY <1>1, <2>1, <2>2, <2>3 DEF WindowTypes, QueueTypes, WindowTypeOK
<1>3. NothingMissed
  <2>1. /\ got \in Seq(Events) /\ emitted \in Seq(Events) /\ Len(got) <= Len(emitted)
        /\ \A i \in 1..Len(got) : got[i] = emitted[i]
    BY <1>1 DEF QueueTypes, WireStands, Starts
  <2>2. SubSeq(got, 1, Len(got)) = SubSeq(emitted, 1, Len(got))
    BY <2>1
  <2>3. QED
    BY <2>1, <2>2 DEF NothingMissed, IsPrefix
<1>4. BodyIsOfLastMatch
  <2>1. ASSUME outcome = "body" PROVE SeenEnded
    BY <1>1, <2>1 DEF SeenStands
  <2>2. QED
    BY <1>1, <2>1, LastIsLast DEF QueueTypes, BodyIsOfLastMatch
<1>5. NothingLeft
  BY <1>1 DEF AsksStand, NothingLeft
<1>6. QED
  BY <1>2, <1>3, <1>4, <1>5

---------------------------------------------------------------------------
ObserveInv == WindowInv /\ CaptureInv /\ CastInv /\ StreamInv

LEMMA ObservesInductively == Spec => []ObserveInv
<1>1. Init => ObserveInv
  BY WindowBegins, CaptureBegins, CastBegins, StreamBegins DEF Init, ObserveInv
<1>2. ObserveInv /\ [Next]_vars => ObserveInv'
  <2>1. SUFFICES ASSUME WindowInv, CaptureInv, CastInv, StreamInv, [Next]_vars
                 PROVE  WindowInv' /\ CaptureInv' /\ CastInv' /\ StreamInv'
    BY DEF ObserveInv
  <2>2. QED
    BY <2>1, WindowSteps, CaptureSteps, CastSteps, StreamSteps
<1>3. QED
  BY <1>1, <1>2, PTL DEF Spec

(* Nothing that was sent is missed, for any number of events, of frames    *)
(* and of parts of a file: what a window was given is all that Chrome      *)
(* sent, in order, the completion of a trace is heard, and a screencast    *)
(* does not stall while it has room (wait_on_session, TraceCapture.start,  *)
(* ScreencastRecorder.on_frame).                                           *)
THEOREM ObservesAllTheorem == Spec => []ObservesAll
<1>1. ObserveInv => ObservesAll
  BY WindowIsWell, CaptureIsWell, CastIsWell, StreamIsWell DEF ObserveInv, ObservesAll
<1>2. QED
  BY <1>1, ObservesInductively, PTL

(* What a verb hands over is what it claims, the body of the last match    *)
(* and a whole file; and however it ends it leaves the session and the     *)
(* disk as it found them (ResponseBuffer.match, captures.heap, attach).    *)
THEOREM HandsOverWholeTheorem == Spec => []HandsOverWhole
<1>1. ObserveInv => HandsOverWhole
  BY WindowIsWell, CaptureIsWell, CastIsWell, StreamIsWell DEF ObserveInv, HandsOverWhole
<1>2. QED
  BY <1>1, ObservesInductively, PTL

(***************************************************************************)
(* A snapshot and an action on one of its names.                           *)
(***************************************************************************)
DocTypes ==
  /\ framesAll \in BOOLEAN /\ rend \in Seq(Renderers) /\ Len(rend) <= MaxDocuments
  /\ doc \in [PageFrames -> 1..Len(rend)] /\ known \in [PageFrames -> 1..Len(rend)]

ReadTypes ==
  /\ reader \in {"idle", "top", "owner", "kid", "read", "built"}
  /\ token \in [PageFrames -> 0..Len(rend)] /\ tree \in [PageFrames -> 0..Len(rend)]

ActTypes ==
  /\ actor \in {"idle", "checked", "described", "input", "refused", "failed", "acted"}
  /\ moved \in BOOLEAN /\ behind \in BOOLEAN
  /\ hit \subseteq [doc : 1..Len(rend), node : Range(Nodes)]

(* No document is of both frames, whether it is shown, known or was read.  *)
Apart ==
  \A a \in {doc["top"], known["top"], token["top"], tree["top"]},
     b \in {doc["kid"], known["kid"], token["kid"], tree["kid"]} : a # b \/ a = 0

(* A token is read before its tree, and a document that has been replaced  *)
(* never comes back.                                                       *)
ReadInOrder ==
  /\ \A f \in PageFrames : known[f] <= doc[f] /\ token[f] <= doc[f] /\ tree[f] <= doc[f]
  /\ \A f \in PageFrames : tree[f] # 0 => token[f] <= tree[f]
  /\ \A f \in PageFrames : token[f] = 0 <=> reader = "idle"
  /\ tree["top"] = 0 <=> reader \in {"idle", "top"}
  /\ tree["kid"] # 0 => reader \in {"read", "built"}

(* What is printed was read: the name of a node is its token and its id in *)
(* its renderer, but for the boxes, and no two are the same.               *)
PrintedStands ==
  /\ reader = "built" => \A i \in DOMAIN printed :
       /\ \E f \in PageFrames : tree[f] # 0 /\ printed[i].doc = tree[f] /\ printed[i].uid[1] = token[f]
       /\ printed[i].node \in Range(Nodes)
       /\ printed[i].uid[2] = (IF printed[i].node = "box" THEN "x" ELSE "n")
       /\ printed[i].node # "box" => printed[i].uid[3] = Backend(printed[i].doc, printed[i].node)
       /\ \A j \in DOMAIN printed : i # j => printed[i].uid # printed[j].uid
  /\ reader # "built" => printed = <<>> /\ actor = "idle"

(* What the caller acts on is a printed node, whose document the session   *)
(* of its name shows, as long as no document has gone.                     *)
HeldStands ==
  /\ actor # "idle" => \E i \in DOMAIN printed : held = printed[i]
  /\ actor \notin {"idle", "refused"} => held.node # "box"
  /\ actor \notin {"idle", "refused"} /\ ~moved => Wanted \in LiveTokens(SessionOf(Wanted))
  /\ actor \in {"described", "input", "acted"} /\ ~moved => IsElement(held)

(* An input reached what is held, and nothing that can be acted on was     *)
(* refused for another reason than that the map was behind.                *)
HitStands ==
  /\ hit # {} => actor = "acted"
  /\ ActsOnWhatItShowed /\ LiveIsNotRefused

UidInv ==
  DocTypes /\ ReadTypes /\ ActTypes /\ Apart /\ ReadInOrder /\ PrintedStands /\ HeldStands /\ HitStands

LEMMA Kinds == Range(Nodes) = {"root", "element", "text", "box"}
<1>1. DOMAIN Nodes = 1..4
  BY DEF Nodes
<1>2. Nodes[1] = "root" /\ Nodes[2] = "element" /\ Nodes[3] = "text" /\ Nodes[4] = "box"
  BY DEF Nodes
<1>3. Range(Nodes) = {Nodes[i] : i \in 1..4}
  BY <1>1 DEF Range
<1>4. QED
  BY <1>2, <1>3

LEMMA Places ==
  \A n \in Range(Nodes) : /\ Place(n) \in 1..4 /\ Nodes[Place(n)] = n
                          /\ n # "box" => Place(n) \in 1..3
<1>1. Nodes[1] = "root" /\ Nodes[2] = "element" /\ Nodes[3] = "text" /\ Nodes[4] = "box"
  BY DEF Nodes
<1>2. TAKE n \in Range(Nodes)
<1>3. \E i \in 1..4 : Nodes[i] = n
  BY <1>1, <1>2, Kinds
<1>4. Place(n) \in 1..4 /\ Nodes[Place(n)] = n
  BY <1>3 DEF Place
<1>5. QED
  BY <1>1, <1>4

(* Within a renderer no two nodes have the same id: a later document       *)
(* starts behind the three ids of every earlier one.                       *)
LEMMA BackendApart ==
  ASSUME rend \in Seq(Renderers),
         NEW d \in 1..Len(rend), NEW e \in 1..Len(rend), rend[d] = rend[e],
         NEW m \in Range(Nodes), NEW n \in Range(Nodes),
         Backend(d, m) = Backend(e, n), Backend(d, m) # 0
  PROVE  d = e /\ m = n
<1> DEFINE Earlier(a) == {b \in 1..a - 1 : rend[b] = rend[a]}
<1>1. m # "box" /\ n # "box"
  BY Places DEF Backend
<1>2. /\ Place(m) \in 1..3 /\ Nodes[Place(m)] = m
      /\ Place(n) \in 1..3 /\ Nodes[Place(n)] = n
  BY <1>1, Places
<1>3. \A a \in 1..Len(rend) : IsFiniteSet(Earlier(a)) /\ Cardinality(Earlier(a)) \in Nat
  <2>1. TAKE a \in 1..Len(rend)
  <2>2. IsFiniteSet(1..a - 1)
    BY FS_Interval
  <2>3. Earlier(a) \in SUBSET (1..a - 1)
    OBVIOUS
  <2>4. QED
    BY <2>2, <2>3, FS_Subset, FS_CardinalityType
<1>4. \A a, b \in 1..Len(rend) : rend[a] = rend[b] /\ a < b => Cardinality(Earlier(a)) < Cardinality(Earlier(b))
  <2>1. SUFFICES ASSUME NEW a \in 1..Len(rend), NEW b \in 1..Len(rend), rend[a] = rend[b], a < b
                 PROVE  Cardinality(Earlier(a)) < Cardinality(Earlier(b))
    OBVIOUS
  <2>2. Earlier(a) \in SUBSET Earlier(b) /\ a \in Earlier(b) /\ a \notin Earlier(a)
    BY <2>1
  <2>3. IsFiniteSet(Earlier(b)) /\ Cardinality(Earlier(a)) \in Nat /\ Cardinality(Earlier(b)) \in Nat
    BY <1>3
  <2> HIDE DEF Earlier
  <2>4. Cardinality(Earlier(a)) <= Cardinality(Earlier(b)) /\ Cardinality(Earlier(a)) # Cardinality(Earlier(b))
    BY <2>2, <2>3, FS_Subset
  <2>5. QED
    BY <2>3, <2>4
<1>5. /\ Backend(d, m) = 3 * Cardinality(Earlier(d)) + Place(m)
      /\ Backend(e, n) = 3 * Cardinality(Earlier(e)) + Place(n)
  BY <1>1 DEF Backend
<1>6. Cardinality(Earlier(d)) \in Nat /\ Cardinality(Earlier(e)) \in Nat
  BY <1>3
<1> HIDE DEF Earlier
<1>7. Cardinality(Earlier(d)) = Cardinality(Earlier(e)) /\ Place(m) = Place(n)
  <2> DEFINE x == Cardinality(Earlier(d))
             y == Cardinality(Earlier(e))
  <2>1. x \in Nat /\ y \in Nat /\ 3 * x + Place(m) = 3 * y + Place(n)
    BY <1>5, <1>6
  <2> HIDE DEF x, y
  <2>2. x = y /\ Place(m) = Place(n)
    BY <1>2, <2>1
  <2>3. QED
    BY <2>2 DEF x, y
<1>8. d = e
  BY <1>4, <1>6, <1>7
<1>9. QED
  BY <1>2, <1>7, <1>8

(* An id stays what it was when other documents are loaded.                *)
LEMMA BackendKept ==
  ASSUME rend \in Seq(Renderers), rend' \in Seq(Renderers), Len(rend) <= Len(rend'),
         \A e \in 1..Len(rend) : rend'[e] = rend[e],
         NEW d \in 1..Len(rend), NEW n
  PROVE  Backend(d, n)' = Backend(d, n)
<1>1. {e \in 1..d - 1 : rend'[e] = rend'[d]} = {e \in 1..d - 1 : rend[e] = rend[d]}
  OBVIOUS
<1>2. QED
  BY <1>1 DEF Backend

LEMMA UidBegins == UidInit => UidInv
<1>1. SUFFICES ASSUME UidInit PROVE UidInv
  OBVIOUS
<1>2. PICK r \in Renderers : rend = <<"page", r>>
  BY <1>1 DEF UidInit
<1>3. rend \in Seq(Renderers) /\ Len(rend) = 2
  BY <1>2 DEF Renderers
<1>4. /\ doc \in [PageFrames -> 1..2] /\ doc["top"] = 1 /\ doc["kid"] = 2 /\ known = doc
      /\ token \in [PageFrames -> 0..2] /\ token["top"] = 0 /\ token["kid"] = 0 /\ tree = token
  BY <1>1 DEF UidInit, PageFrames
<1>5. DocTypes /\ ReadTypes /\ ActTypes
  <2>1. DocTypes
    BY <1>1, <1>3, <1>4, DocumentsAssumption DEF UidInit, DocTypes
  <2>2. ReadTypes
    BY <1>1, <1>3, <1>4 DEF UidInit, ReadTypes
  <2>3. ActTypes
    BY <1>1 DEF UidInit, ActTypes
  <2>4. QED
    BY <2>1, <2>2, <2>3
<1>6. Apart /\ ReadInOrder
  BY <1>1, <1>4 DEF UidInit, Apart, ReadInOrder, PageFrames
<1>7. PrintedStands /\ HeldStands /\ HitStands
  BY <1>1 DEF UidInit, PrintedStands, HeldStands, HitStands, ActsOnWhatItShowed, LiveIsNotRefused
<1>8. QED
  BY <1>5, <1>6, <1>7 DEF UidInv

LEMMA UidStays == ASSUME UidInv, UNCHANGED uidVars PROVE UidInv'
<1>1. DocTypes' /\ ReadTypes' /\ ActTypes' /\ Apart' /\ ReadInOrder'
  BY DEF UidInv, uidVars, docVars, readVars, actVars, DocTypes, ReadTypes, ActTypes, Apart, ReadInOrder
<1>2. PrintedStands'
  BY DEF UidInv, uidVars, docVars, readVars, actVars, PrintedStands, Backend
<1>3. HeldStands'
  BY DEF UidInv, uidVars, docVars, readVars, actVars, HeldStands, Wanted, LiveTokens, Live, SessionOf,
         IsElement
<1>4. HitStands'
  BY DEF UidInv, uidVars, docVars, readVars, actVars, HitStands, ActsOnWhatItShowed, LiveIsNotRefused, Live,
         IsElement
<1>5. QED
  BY <1>1, <1>2, <1>3, <1>4 DEF UidInv

(* A navigation only adds documents, and the frames show later ones.       *)
LEMMA NavigateAdds ==
  ASSUME DocTypes, Navigate
  PROVE  /\ DocTypes' /\ Len(rend) < Len(rend')
         /\ \A e \in 1..Len(rend) : rend'[e] = rend[e]
         /\ \A f \in PageFrames : doc'[f] = doc[f] \/ doc'[f] > Len(rend)
         /\ doc'["top"] # doc'["kid"] \/ doc'["top"] = doc["top"]
         /\ doc'["kid"] > Len(rend)
<1>1. rend \in Seq(Renderers) /\ Len(rend) \in Nat
  BY DEF DocTypes
<1>2. CASE \E r \in Renderers : rend' = Append(rend, r) /\ doc' = [doc EXCEPT !["kid"] = Fresh]
  <2>1. PICK r \in Renderers : rend' = Append(rend, r)
    BY <1>2
  <2>2. /\ rend' \in Seq(Renderers) /\ Len(rend') = Len(rend) + 1
        /\ \A e \in 1..Len(rend) : rend'[e] = rend[e]
    BY <1>1, <2>1
  <2>3. /\ doc'["kid"] = Len(rend) + 1 /\ doc'["top"] = doc["top"] /\ doc' \in [PageFrames -> 1..Len(rend')]
    BY <1>1, <1>2, <2>2 DEF DocTypes, Fresh, PageFrames
  <2>4. known' \in [PageFrames -> 1..Len(rend')] /\ framesAll' \in BOOLEAN /\ Len(rend') <= MaxDocuments
    BY <1>1, <2>2 DEF DocTypes, Navigate
  <2>5. QED
    BY <1>1, <2>2, <2>3, <2>4 DEF DocTypes, PageFrames
<1>3. CASE \E r \in Renderers :
             rend' = rend \o <<"page", r>> /\ doc' = [doc EXCEPT !["top"] = Fresh, !["kid"] = Fresh + 1]
  <2>1. PICK r \in Renderers : rend' = rend \o <<"page", r>>
    BY <1>3
  <2>2. <<"page", r>> \in Seq(Renderers) /\ Len(<<"page", r>>) = 2
    BY DEF Renderers
  <2>3. /\ rend' \in Seq(Renderers) /\ Len(rend') = Len(rend) + 2
        /\ \A e \in 1..Len(rend) : rend'[e] = rend[e]
    BY <1>1, <2>1, <2>2
  <2>4. /\ doc'["top"] = Len(rend) + 1 /\ doc'["kid"] = Len(rend) + 2
        /\ doc' \in [PageFrames -> 1..Len(rend')]
    BY <1>1, <1>3, <2>3 DEF DocTypes, Fresh, PageFrames
  <2>5. known' \in [PageFrames -> 1..Len(rend')] /\ framesAll' \in BOOLEAN /\ Len(rend') <= MaxDocuments
    BY <1>1, <2>3 DEF DocTypes, Navigate
  <2>6. QED
    BY <1>1, <2>3, <2>4, <2>5 DEF DocTypes, PageFrames
<1>4. QED
  BY <1>2, <1>3 DEF Navigate

LEMMA NavigateKeeps == ASSUME UidInv, Navigate PROVE UidInv'
<1>1. DocTypes /\ ReadTypes /\ ActTypes /\ Apart /\ ReadInOrder /\ PrintedStands /\ HeldStands /\ HitStands
  BY DEF UidInv
<1>2. /\ DocTypes' /\ Len(rend) < Len(rend')
      /\ \A e \in 1..Len(rend) : rend'[e] = rend[e]
      /\ \A f \in PageFrames : doc'[f] = doc[f] \/ doc'[f] > Len(rend)
      /\ doc'["top"] # doc'["kid"] \/ doc'["top"] = doc["top"]
      /\ doc'["kid"] > Len(rend)
  BY <1>1, NavigateAdds
<1>3. /\ moved' /\ UNCHANGED <<framesAll, known, reader, token, tree, owner, printed, actor, held, behind, hit>>
  BY DEF Navigate, readVars
<1>4. /\ rend \in Seq(Renderers) /\ rend' \in Seq(Renderers) /\ Len(rend) \in Nat /\ Len(rend') \in Nat
  BY <1>1, <1>2 DEF DocTypes
<1>5. ReadTypes'
  BY <1>1, <1>2, <1>3, <1>4 DEF ReadTypes
<1>6. ActTypes'
  <2>1. hit \subseteq [doc : 1..Len(rend'), node : Range(Nodes)]
    BY <1>1, <1>2, <1>4 DEF ActTypes
  <2>2. moved' \in BOOLEAN
    BY <1>3
  <2>3. QED
    BY <1>1, <1>3, <2>1, <2>2 DEF ActTypes
<1>7. /\ \A f \in PageFrames : /\ doc[f] \in 1..Len(rend) /\ known[f] \in 1..Len(rend)
                               /\ token[f] \in 0..Len(rend) /\ tree[f] \in 0..Len(rend)
      /\ "top" \in PageFrames /\ "kid" \in PageFrames
  BY <1>1 DEF DocTypes, ReadTypes, PageFrames
<1>8. \A f \in PageFrames : doc'[f] \in Nat /\ doc[f] <= doc'[f]
  <2>1. doc' \in [PageFrames -> 1..Len(rend')]
    BY <1>2 DEF DocTypes
  <2>2. \A f \in PageFrames : doc'[f] \in 1..Len(rend')
    BY <2>1
  <2>3. SUFFICES ASSUME NEW f \in PageFrames PROVE doc'[f] \in Nat /\ doc[f] <= doc'[f]
    OBVIOUS
  <2>4. doc'[f] \in Nat /\ doc[f] \in Nat /\ doc[f] <= Len(rend)
    BY <1>4, <1>7, <2>2
  <2>5. doc'[f] = doc[f] \/ doc'[f] > Len(rend)
    BY <1>2
  <2>6. QED
    BY <1>4, <2>4, <2>5
<1>9. Apart'
  <2>1. \A b \in {known["kid"], token["kid"], tree["kid"]} : b <= Len(rend)
    BY <1>4, <1>7
  <2>2. \A a \in {known["top"], token["top"], tree["top"]} : a <= Len(rend) /\ a \in Nat
    BY <1>4, <1>7
  <2>3. \A b \in {known["kid"], token["kid"], tree["kid"]} : doc'["top"] # b
    BY <1>1, <1>2, <1>4, <1>7, <2>1 DEF Apart
  <2>4. \A a \in {known["top"], token["top"], tree["top"]} : a # doc'["kid"]
    BY <1>2, <1>4, <1>8, <2>2
  <2>5. doc'["top"] # doc'["kid"]
    BY <1>2, <1>4, <1>7
  <2>6. QED
    BY <1>1, <1>3, <2>3, <2>4, <2>5 DEF Apart
<1>10. ReadInOrder'
  BY <1>1, <1>3, <1>4, <1>7, <1>8 DEF ReadInOrder
<1>11. PrintedStands'
  <2>1. \A i \in DOMAIN printed : reader = "built" =>
           Backend(printed[i].doc, printed[i].node)' = Backend(printed[i].doc, printed[i].node)
    <3>1. SUFFICES ASSUME NEW i \in DOMAIN printed, reader = "built"
                   PROVE  Backend(printed[i].doc, printed[i].node)' = Backend(printed[i].doc, printed[i].node)
      OBVIOUS
    <3>2. printed[i].doc \in 1..Len(rend)
      BY <1>1, <1>4, <1>7, <3>1 DEF PrintedStands
    <3>3. printed' = printed
      BY <1>3
    <3>4. \A d \in 1..Len(rend), n \in {printed[i].node} : Backend(d, n)' = Backend(d, n)
      BY <1>2, <1>4, BackendKept
    <3>5. QED
      BY <3>2, <3>3, <3>4 DEF Backend
  <2>2. QED
    BY <1>1, <1>3, <2>1 DEF PrintedStands
<1>12. HeldStands' /\ HitStands'
  BY <1>1, <1>3 DEF HeldStands, HitStands, ActsOnWhatItShowed, LiveIsNotRefused
<1>13. QED
  BY <1>2, <1>5, <1>6, <1>9, <1>10, <1>11, <1>12 DEF UidInv

LEMMA UidNumbers ==
  ASSUME UidInv
  PROVE  /\ rend \in Seq(Renderers) /\ Len(rend) \in Nat
         /\ \A f \in PageFrames : /\ doc[f] \in 1..Len(rend) /\ known[f] \in 1..Len(rend)
                                  /\ token[f] \in 0..Len(rend) /\ tree[f] \in 0..Len(rend)
         /\ \A d \in 1..Len(rend) : rend[d] \in Renderers
         /\ PageFrames = {"top", "kid"}
  BY DEF UidInv, DocTypes, ReadTypes, PageFrames

(* What the map knows better changes no session that shows what is held:   *)
(* it only moves on to documents that are shown.                           *)
LEMMA MapLearnsKeeps == ASSUME UidInv, MapLearns PROVE UidInv'
<1>1. DocTypes /\ ReadTypes /\ ActTypes /\ Apart /\ ReadInOrder /\ PrintedStands /\ HeldStands /\ HitStands
  BY DEF UidInv
<1>2. PICK f \in PageFrames : known[f] # doc[f] /\ known' = [known EXCEPT ![f] = doc[f]]
  BY DEF MapLearns
<1>3. /\ UNCHANGED <<framesAll, rend, doc, reader, token, tree, owner, printed>>
      /\ UNCHANGED <<actor, held, moved, behind, hit>>
  BY DEF MapLearns, readVars, actVars
<1>4. /\ known' \in [PageFrames -> 1..Len(rend)] /\ known'[f] = doc[f]
      /\ \A g \in PageFrames : g # f => known'[g] = known[g]
  BY <1>1, <1>2 DEF DocTypes
<1>5. DocTypes' /\ ReadTypes' /\ ActTypes'
  BY <1>1, <1>3, <1>4 DEF DocTypes, ReadTypes, ActTypes
<1>6. Apart'
  BY <1>1, <1>3, <1>4, UidNumbers DEF Apart
<1>7. ReadInOrder'
  BY <1>1, <1>3, <1>4, UidNumbers DEF ReadInOrder
<1>8. PrintedStands'
  BY <1>1, <1>3 DEF PrintedStands, Backend
<1>9. HeldStands'
  <2>1. ASSUME Wanted \in LiveTokens(SessionOf(Wanted))
        PROVE  (Wanted \in LiveTokens(SessionOf(Wanted)))'
    <3>1. Wanted' = Wanted /\ Live' = Live
      BY <1>3 DEF Wanted, Live
    <3>2. Wanted \in Live /\ rend[Wanted] = SessionOf(Wanted)
      BY <2>1 DEF LiveTokens
    <3>3. SessionOf(Wanted)' = SessionOf(Wanted)
      <4>1. CASE rend[Wanted] = "other"
        <5>1. framesAll /\ \E g \in PageFrames : known[g] = Wanted
          BY <3>2, <4>1 DEF SessionOf
        <5>2. PICK g \in PageFrames : known[g] = Wanted
          BY <5>1
        <5>3. PICK h \in PageFrames : doc[h] = Wanted
          BY <3>2 DEF Live
        <5>4. g = h
          BY <1>1, <5>2, <5>3, UidNumbers DEF Apart
        <5>5. known'[g] = Wanted
          BY <1>4, <5>2, <5>3, <5>4
        <5>6. QED
          BY <1>3, <3>1, <3>2, <4>1, <5>1, <5>5 DEF SessionOf
      <4>2. CASE rend[Wanted] # "other"
        BY <1>3, <3>1, <4>2 DEF SessionOf
      <4>3. QED
        BY <4>1, <4>2
    <3>4. QED
      BY <1>3, <3>1, <3>2, <3>3 DEF LiveTokens
  <2>2. QED
    BY <1>1, <1>3, <2>1 DEF HeldStands, IsElement
<1>10. HitStands'
  BY <1>1, <1>3 DEF HitStands, ActsOnWhatItShowed, LiveIsNotRefused, Live, IsElement
<1>11. QED
  BY <1>5, <1>6, <1>7, <1>8, <1>9, <1>10 DEF UidInv

LEMMA ReadsKeep ==
  ASSUME UidInv, ReadTokens \/ ReadTop \/ ReadOwner \/ ReadKid
  PROVE  UidInv'
<1>1. DocTypes /\ ReadTypes /\ ActTypes /\ Apart /\ ReadInOrder /\ PrintedStands /\ HeldStands /\ HitStands
  BY DEF UidInv
<1>2. /\ UNCHANGED <<framesAll, rend, doc, known, printed, actor, held, moved, behind, hit>>
      /\ reader \notin {"read", "built"}
      /\ reader' \in {"top", "owner", "kid", "read"}
  BY DEF ReadTokens, ReadTop, ReadOwner, ReadKid, docVars, actVars
<1>3. printed = <<>> /\ actor = "idle"
  BY <1>1, <1>2 DEF PrintedStands
<1>4. DocTypes' /\ ActTypes'
  BY <1>1, <1>2 DEF DocTypes, ActTypes
<1>5. PrintedStands' /\ HeldStands' /\ HitStands'
  BY <1>1, <1>2, <1>3 DEF PrintedStands, HeldStands, HitStands, ActsOnWhatItShowed, LiveIsNotRefused
<1>6. CASE ReadTokens
  <2>1. /\ token' \in {known, doc} /\ UNCHANGED tree /\ reader = "idle" /\ reader' = "top"
    BY <1>6 DEF ReadTokens, Tokens
  <2>2. ReadTypes'
    BY <1>1, <1>2, <2>1 DEF ReadTypes, DocTypes
  <2>3. Apart'
    BY <1>1, <1>2, <2>1 DEF Apart
  <2>4. \A f \in PageFrames : tree[f] = 0
    BY <1>1, <2>1, UidNumbers DEF ReadInOrder, PageFrames
  <2>5. ReadInOrder'
    <3>1. CASE token' = doc
      BY <1>1, <1>2, <2>1, <2>4, <3>1, UidNumbers DEF ReadInOrder
    <3>2. CASE token' = known
      BY <1>1, <1>2, <2>1, <2>4, <3>2, UidNumbers DEF ReadInOrder
    <3>3. QED
      BY <2>1, <3>1, <3>2
  <2>6. QED
    BY <1>4, <1>5, <2>2, <2>3, <2>5 DEF UidInv
<1>7. CASE ReadTop
  <2>1. /\ UNCHANGED token /\ tree' = [tree EXCEPT !["top"] = doc["top"]]
        /\ reader = "top" /\ reader' = "owner"
    BY <1>7 DEF ReadTop
  <2>2. tree' \in [PageFrames -> 0..Len(rend)] /\ tree'["top"] = doc["top"] /\ tree'["kid"] = tree["kid"]
    BY <1>1, <2>1, UidNumbers DEF ReadTypes
  <2>3. ReadTypes'
    BY <1>1, <1>2, <2>1, <2>2 DEF ReadTypes
  <2>4. Apart'
    BY <1>1, <1>2, <2>1, <2>2 DEF Apart
  <2>5. ReadInOrder'
    BY <1>1, <1>2, <2>1, <2>2, UidNumbers DEF ReadInOrder
  <2>6. QED
    BY <1>4, <1>5, <2>3, <2>4, <2>5 DEF UidInv
<1>8. CASE ReadOwner \/ ReadKid
  <2>1. /\ UNCHANGED token /\ tree' \in {tree, [tree EXCEPT !["kid"] = doc["kid"]]}
        /\ reader \in {"owner", "kid"} /\ reader' \in {"kid", "read"}
    BY <1>8 DEF ReadOwner, ReadKid
  <2>2. /\ tree' \in [PageFrames -> 0..Len(rend)] /\ tree'["top"] = tree["top"]
        /\ tree'["kid"] \in {tree["kid"], doc["kid"]}
    <3>1. tree \in [PageFrames -> 0..Len(rend)] /\ doc["kid"] \in 0..Len(rend)
      BY <1>1, UidNumbers DEF ReadTypes
    <3>2. CASE tree' = tree
      BY <3>1, <3>2
    <3>3. CASE tree' = [tree EXCEPT !["kid"] = doc["kid"]]
      BY <3>1, <3>3, UidNumbers
    <3>4. QED
      BY <2>1, <3>2, <3>3
  <2>3. ReadTypes'
    BY <1>1, <1>2, <2>1, <2>2 DEF ReadTypes
  <2>4. Apart'
    BY <1>1, <1>2, <2>1, <2>2 DEF Apart
  <2>5. ReadInOrder'
    <3>1. reader' = "kid" => tree' = tree
      BY <1>8 DEF ReadOwner, ReadKid
    <3>2. \A f \in PageFrames : tree'[f] \in {tree[f], doc[f]}
      BY <2>2, UidNumbers
    <3>3. \A f \in PageFrames : tree'[f] <= doc[f] /\ (tree'[f] # 0 => token[f] <= tree'[f])
      BY <1>1, <3>2, UidNumbers DEF ReadInOrder
    <3>4. tree'["kid"] # 0 => reader' \in {"read", "built"}
      BY <1>1, <2>1, <3>1 DEF ReadInOrder
    <3>5. QED
      BY <1>1, <1>2, <2>1, <2>2, <3>3, <3>4, UidNumbers DEF ReadInOrder
  <2>6. QED
    BY <1>4, <1>5, <2>3, <2>4, <2>5 DEF UidInv
<1>9. QED
  BY <1>6, <1>7, <1>8

LEMMA FourLong ==
  ASSUME NEW S, NEW f \in [1..4 -> S]
  PROVE  f \in Seq(S) /\ Len(f) = 4
<1>1. f = [i \in 1..4 |-> f[i]] /\ \A i \in 1..4 : f[i] \in S
  OBVIOUS
<1>2. [i \in 1..4 |-> f[i]] \in Seq(S)
  BY <1>1, IsASeq
<1>3. f \in Seq(S)
  BY <1>1, <1>2
<1>4. Len(f) \in Nat /\ DOMAIN f = 1..Len(f)
  BY <1>3
<1>5. QED
  BY <1>3, <1>4

LEMMA InTheMiddle ==
  ASSUME NEW S, NEW a \in Seq(S), NEW b \in Seq(S), Len(a) = 4, Len(b) = 4,
         NEW s, s = SubSeq(a, 1, 2) \o b \o SubSeq(a, 3, 4)
  PROVE  /\ DOMAIN s = 1..8
         /\ s[1] = a[1] /\ s[2] = a[2] /\ s[3] = b[1] /\ s[4] = b[2]
         /\ s[5] = b[3] /\ s[6] = b[4] /\ s[7] = a[3] /\ s[8] = a[4]
<1> DEFINE x == SubSeq(a, 1, 2)
           y == SubSeq(a, 3, 4)
<1>a. \A i \in 1..4 : a[i] \in S
  BY ElementOfSeq
<1>1. x \in Seq(S) /\ Len(x) = 2 /\ x[1] = a[1] /\ x[2] = a[2]
  BY <1>a, SubSeqProperties
<1>2. y \in Seq(S) /\ Len(y) = 2 /\ y[1] = a[3] /\ y[2] = a[4]
  BY <1>a, SubSeqProperties
<1> HIDE DEF x, y
<1> DEFINE z == x \o b
<1>3. z \in Seq(S) /\ Len(z) = 6 /\ \A i \in 1..6 : z[i] = IF i <= 2 THEN x[i] ELSE b[i - 2]
  <2>1. z \in Seq(S) /\ Len(z) = Len(x) + Len(b)
    BY <1>1, ConcatProperties
  <2>2. \A i \in 1..Len(x) + Len(b) : z[i] = IF i <= Len(x) THEN x[i] ELSE b[i - Len(x)]
    BY <1>1, ConcatProperties
  <2> HIDE DEF z
  <2>3. QED
    BY <1>1, <2>1, <2>2
<1> HIDE DEF z
<1>4. Len(z \o y) = 8 /\ \A i \in 1..8 : (z \o y)[i] = IF i <= 6 THEN z[i] ELSE y[i - 6]
  <2>1. Len(z \o y) = Len(z) + Len(y)
    BY <1>2, <1>3, ConcatProperties
  <2>2. \A i \in 1..Len(z) + Len(y) : (z \o y)[i] = IF i <= Len(z) THEN z[i] ELSE y[i - Len(z)]
    BY <1>2, <1>3, ConcatProperties
  <2>3. QED
    BY <1>2, <1>3, <2>1, <2>2
<1>5. DOMAIN (z \o y) = 1..8
  BY <1>2, <1>3, <1>4, ConcatProperties, LenProperties
<1>6. QED
  BY <1>1, <1>2, <1>3, <1>4, <1>5 DEF x, y, z

(* The nodes of a snapshot as they are walked: those with the same token   *)
(* are different nodes of one document.                                    *)
LEMMA WalkStands ==
  ASSUME UidInv, reader = "read"
  PROVE  /\ \E n \in Nat : DOMAIN Stitched = 1..n
         /\ \A i \in DOMAIN Stitched :
              /\ i \in Nat
              /\ \E f \in PageFrames : tree[f] # 0 /\ Stitched[i].doc = tree[f] /\ Stitched[i].tok = token[f]
              /\ Stitched[i].node \in Range(Nodes)
              /\ \A j \in DOMAIN Stitched : i # j /\ Stitched[i].tok = Stitched[j].tok =>
                   Stitched[i].doc = Stitched[j].doc /\ Stitched[i].node # Stitched[j].node
<1> DEFINE top == NodesOf(tree["top"], token["top"])
           kid == NodesOf(tree["kid"], token["kid"])
           of(f, n) == [doc |-> tree[f], node |-> n, tok |-> token[f]]
<1>1. /\ DOMAIN top = 1..4 /\ DOMAIN kid = 1..4
      /\ top[1] = of("top", "root") /\ top[2] = of("top", "element")
      /\ top[3] = of("top", "text") /\ top[4] = of("top", "box")
      /\ kid[1] = of("kid", "root") /\ kid[2] = of("kid", "element")
      /\ kid[3] = of("kid", "text") /\ kid[4] = of("kid", "box")
  BY DEF NodesOf, NodeToken, Nodes
<1>2. tree["top"] # 0 /\ token["top"] # 0 /\ token["kid"] # 0 /\ token["top"] # token["kid"]
  BY UidNumbers DEF UidInv, ReadInOrder, Apart
<1>3. CASE tree["kid"] = 0 \/ ~Owned
  <2>1. Stitched = top
    BY <1>3 DEF Stitched
  <2> HIDE DEF top, kid
  <2>2. \A i \in 1..4 : Stitched[i] = of("top", Nodes[i])
    BY <1>1, <2>1 DEF Nodes
  <2>3. /\ \A i \in 1..4 : Stitched[i].doc = tree["top"] /\ Stitched[i].tok = token["top"] /\ Stitched[i].node = Nodes[i]
        /\ DOMAIN Stitched = 1..4
    BY <1>1, <2>1, <2>2
  <2>4. /\ \A i \in 1..4 : Nodes[i] \in Range(Nodes)
        /\ \A i, j \in 1..4 : i # j => Nodes[i] # Nodes[j]
    BY Kinds DEF Nodes
  <2>5. QED
    BY <1>2, <2>3, <2>4 DEF PageFrames
<1>4. CASE ~(tree["kid"] = 0 \/ ~Owned)
  <2>1. Stitched = SubSeq(top, 1, 2) \o kid \o SubSeq(top, 3, 4)
    BY <1>4 DEF Stitched
  <2>2. \E S : top \in Seq(S) /\ kid \in Seq(S) /\ Len(top) = 4 /\ Len(kid) = 4
    <3> DEFINE S == {of(f, n) : f \in PageFrames, n \in Range(Nodes)}
    <3>1. top \in [1..4 -> S] /\ kid \in [1..4 -> S]
      <4>1. \A i \in 1..4 : top[i] \in S /\ kid[i] \in S
        BY <1>1, Kinds DEF PageFrames
      <4>2. top = [i \in 1..4 |-> top[i]] /\ kid = [i \in 1..4 |-> kid[i]]
        BY <1>1 DEF NodesOf
      <4> HIDE DEF top, kid, S
      <4>3. QED
        BY <4>1, <4>2
    <3> HIDE DEF top, kid, S
    <3>2. QED
      BY <3>1, FourLong
  <2> HIDE DEF top, kid
  <2>7. /\ DOMAIN Stitched = 1..8
        /\ Stitched[1] = of("top", "root") /\ Stitched[2] = of("top", "element")
        /\ Stitched[3] = of("kid", "root") /\ Stitched[4] = of("kid", "element")
        /\ Stitched[5] = of("kid", "text") /\ Stitched[6] = of("kid", "box")
        /\ Stitched[7] = of("top", "text") /\ Stitched[8] = of("top", "box")
    <3>1. PICK S : top \in Seq(S) /\ kid \in Seq(S) /\ Len(top) = 4 /\ Len(kid) = 4
      BY <2>2
    <3>2. /\ DOMAIN Stitched = 1..8
          /\ Stitched[1] = top[1] /\ Stitched[2] = top[2] /\ Stitched[3] = kid[1] /\ Stitched[4] = kid[2]
          /\ Stitched[5] = kid[3] /\ Stitched[6] = kid[4] /\ Stitched[7] = top[3] /\ Stitched[8] = top[4]
      <4>1. \A s : s = SubSeq(top, 1, 2) \o kid \o SubSeq(top, 3, 4) =>
               /\ DOMAIN s = 1..8
               /\ s[1] = top[1] /\ s[2] = top[2] /\ s[3] = kid[1] /\ s[4] = kid[2]
               /\ s[5] = kid[3] /\ s[6] = kid[4] /\ s[7] = top[3] /\ s[8] = top[4]
        BY <3>1, InTheMiddle
      <4>2. QED
        BY <2>1, <4>1
    <3>3. QED
      BY <1>1, <3>2
  <2> DEFINE frame == <<"top", "top", "kid", "kid", "kid", "kid", "top", "top">>
             kind == <<"root", "element", "root", "element", "text", "box", "text", "box">>
  <2>8. \A i \in 1..8 : Stitched[i].doc = tree[frame[i]] /\ Stitched[i].tok = token[frame[i]] /\ Stitched[i].node = kind[i]
    BY <2>7
  <2>9. /\ \A i \in 1..8 : frame[i] \in PageFrames /\ tree[frame[i]] # 0 /\ kind[i] \in Range(Nodes)
        /\ \A i, j \in 1..8 : i # j /\ frame[i] = frame[j] => kind[i] # kind[j]
    BY <1>2, <1>4, Kinds DEF PageFrames
  <2>10. \A i, j \in 1..8 : token[frame[i]] = token[frame[j]] => frame[i] = frame[j]
    BY <1>2, <2>9, UidNumbers
  <2> HIDE DEF frame, kind
  <2>11. QED
    BY <2>7, <2>8, <2>9, <2>10
<1>5. QED
  BY <1>3, <1>4

LEMMA NamedNodes ==
  ASSUME UidInv, NEW d \in 1..Len(rend), NEW n \in Range(Nodes), n # "box"
  PROVE  Backend(d, n) # 0
<1> DEFINE Earlier == {e \in 1..d - 1 : rend[e] = rend[d]}
<1>1. Place(n) \in 1..3
  BY Places
<1>2. Cardinality(Earlier) \in Nat
  <2>1. IsFiniteSet(1..d - 1)
    BY UidNumbers, FS_Interval
  <2>2. Earlier \in SUBSET (1..d - 1)
    OBVIOUS
  <2>3. QED
    BY <2>1, <2>2, FS_Subset, FS_CardinalityType
<1>3. Backend(d, n) = 3 * Cardinality(Earlier) + Place(n)
  BY DEF Backend
<1> HIDE DEF Earlier
<1>4. QED
  BY <1>1, <1>2, <1>3

(* Every node that has an id claims its name, since no node before it has  *)
(* both its id and its token.                                              *)
LEMMA AllClaim ==
  ASSUME UidInv, reader = "read", NEW i \in DOMAIN Stitched
  PROVE  Claims(Stitched, i) <=> Stitched[i].node # "box"
<1>1. ASSUME Stitched[i].node = "box" PROVE ~Claims(Stitched, i)
  BY <1>1 DEF Claims, Backend
<1>2. ASSUME Stitched[i].node # "box" PROVE Claims(Stitched, i)
  <2>1. PICK f \in PageFrames : tree[f] # 0 /\ Stitched[i].doc = tree[f]
    BY WalkStands
  <2>2. Stitched[i].doc \in 1..Len(rend) /\ Stitched[i].node \in Range(Nodes)
    BY <2>1, UidNumbers, WalkStands
  <2>3. Backend(Stitched[i].doc, Stitched[i].node) # 0
    BY <1>2, <2>2, NamedNodes
  <2>4. ASSUME NEW j \in 1..i - 1,
               Backend(Stitched[j].doc, Stitched[j].node) = Backend(Stitched[i].doc, Stitched[i].node),
               Stitched[j].tok = Stitched[i].tok
        PROVE  FALSE
    <3>1. j \in DOMAIN Stitched /\ j # i
      <4>1. \E n \in Nat : DOMAIN Stitched = 1..n
        BY WalkStands
      <4>2. QED
        BY <4>1, WalkStands
    <3>2. Stitched[j].doc = Stitched[i].doc /\ Stitched[j].node # Stitched[i].node
      BY <2>4, <3>1, WalkStands
    <3>3. Stitched[j].node \in Range(Nodes)
      BY <3>1, WalkStands
    <3>4. \A d \in 1..Len(rend), m, n \in Range(Nodes) :
            Backend(d, m) = Backend(d, n) /\ Backend(d, n) # 0 => m = n
      BY BackendApart, UidNumbers
    <3>5. QED
      BY <2>2, <2>3, <2>4, <3>2, <3>3, <3>4
  <2>5. QED
    BY <2>3, <2>4 DEF Claims
<1>3. QED
  BY <1>1, <1>2

LEMMA PrintTreeKeeps == ASSUME UidInv, PrintTree PROVE UidInv'
<1>1. DocTypes /\ ReadTypes /\ ActTypes /\ Apart /\ ReadInOrder /\ PrintedStands /\ HeldStands /\ HitStands
  BY DEF UidInv
<1>2. /\ UNCHANGED <<framesAll, rend, doc, known, tree, actor, held, moved, behind, hit>>
      /\ reader = "read" /\ reader' = "built" /\ printed' = Build(Stitched)
  BY DEF PrintTree, docVars, actVars
<1>3. token' = token
  <2>1. \A f \in PageFrames : token[f] # 0
    BY <1>1, <1>2 DEF ReadInOrder
  <2>2. token' = [f \in PageFrames |-> token[f]]
    BY <2>1 DEF PrintTree
  <2>3. QED
    BY <1>1, <2>2 DEF ReadTypes
<1>4. actor = "idle"
  BY <1>1, <1>2 DEF PrintedStands
<1>5. DocTypes' /\ ReadTypes' /\ ActTypes' /\ Apart'
  BY <1>1, <1>2, <1>3 DEF DocTypes, ReadTypes, ActTypes, Apart
<1>6. ReadInOrder'
  BY <1>1, <1>2, <1>3 DEF ReadInOrder
<1>7. HeldStands' /\ HitStands'
  BY <1>1, <1>2, <1>4 DEF HeldStands, HitStands, ActsOnWhatItShowed, LiveIsNotRefused
<1>8. PrintedStands'
  <2> DEFINE w == Stitched
  <2>1. \A i \in DOMAIN w : i \in Nat /\ (Claims(w, i) <=> w[i].node # "box")
    BY <1>2, WalkStands, AllClaim
  <2>2. DOMAIN printed' = DOMAIN w
    BY <1>2 DEF Build
  <2>3. \A i \in DOMAIN w : printed'[i] = [uid |-> Mint(w, i), doc |-> w[i].doc, node |-> w[i].node]
    BY <1>2 DEF Build
  <2>4. \A i \in DOMAIN w : Mint(w, i) = IF w[i].node # "box" THEN <<w[i].tok, "n", Backend(w[i].doc, w[i].node)>>
                                         ELSE <<w[i].tok, "x", i>>
    BY <2>1 DEF Mint
  <2>5. \A i, j \in DOMAIN w : i # j => Mint(w, i) # Mint(w, j)
    <3>1. SUFFICES ASSUME NEW i \in DOMAIN w, NEW j \in DOMAIN w, j < i, Mint(w, i) = Mint(w, j)
                   PROVE  FALSE
      BY <2>1
    <3>2. i \in Nat /\ j \in Nat /\ j \in 1..i - 1
      <4>1. \E n \in Nat : DOMAIN w = 1..n
        BY <1>2, WalkStands
      <4>2. QED
        BY <3>1, <4>1
    <3>3. CASE w[i].node = "box"
      BY <2>4, <3>1, <3>2, <3>3
    <3>4. CASE w[i].node # "box"
      <4>1. w[j].tok = w[i].tok /\ Backend(w[j].doc, w[j].node) = Backend(w[i].doc, w[i].node)
        BY <2>4, <3>1, <3>4
      <4>2. QED
        BY <2>1, <3>2, <3>4, <4>1 DEF Claims
    <3>5. QED
      BY <3>3, <3>4
  <2>6. \A i \in DOMAIN w :
          /\ w[i].node \in Range(Nodes)
          /\ \E f \in PageFrames : tree[f] # 0 /\ w[i].doc = tree[f] /\ w[i].tok = token[f]
    BY <1>2, WalkStands
  <2>7. \A d, n : Backend(d, n)' = Backend(d, n)
    BY <1>2 DEF Backend
  <2> HIDE DEF w
  <2>8. \A i \in DOMAIN printed' :
          /\ \E f \in PageFrames : tree'[f] # 0 /\ printed'[i].doc = tree'[f] /\ printed'[i].uid[1] = token'[f]
          /\ printed'[i].node \in Range(Nodes)
          /\ printed'[i].uid[2] = (IF printed'[i].node = "box" THEN "x" ELSE "n")
          /\ printed'[i].node # "box" => printed'[i].uid[3] = Backend(printed'[i].doc, printed'[i].node)
          /\ \A j \in DOMAIN printed' : i # j => printed'[i].uid # printed'[j].uid
    <3>1. TAKE i \in DOMAIN printed'
    <3>2. i \in DOMAIN w /\ printed'[i].doc = w[i].doc /\ printed'[i].node = w[i].node /\ printed'[i].uid = Mint(w, i)
      BY <2>2, <2>3
    <3>3. \A j \in DOMAIN printed' : i # j => printed'[i].uid # printed'[j].uid
      BY <2>2, <2>3, <2>5
    <3>4. /\ Mint(w, i)[1] = w[i].tok
          /\ Mint(w, i)[2] = (IF w[i].node = "box" THEN "x" ELSE "n")
          /\ w[i].node # "box" => Mint(w, i)[3] = Backend(w[i].doc, w[i].node)
      BY <2>4, <3>2
    <3>5. QED
      BY <1>2, <1>3, <2>6, <3>2, <3>3, <3>4
  <2>9. \A i \in DOMAIN printed' : Backend(printed[i].doc, printed[i].node)' = Backend(printed'[i].doc, printed'[i].node)
    BY <1>2 DEF Backend
  <2>10. QED
    BY <1>2, <2>8, <2>9 DEF PrintedStands
<1>9. QED
  BY <1>5, <1>6, <1>7, <1>8 DEF UidInv

(* As long as no document has gone, the session shows under the name only  *)
(* the node that was printed.                                              *)
LEMMA FoundIsHeld ==
  ASSUME UidInv, actor \notin {"idle", "refused"}, ~moved
  PROVE  Found = {[doc |-> held.doc, node |-> held.node]} /\ held.doc \in 1..Len(rend)
<1>1. DocTypes /\ ReadTypes /\ ActTypes /\ Apart /\ ReadInOrder /\ PrintedStands /\ HeldStands
  BY DEF UidInv
<1>2. reader = "built"
  BY <1>1 DEF PrintedStands
<1>3. PICK i \in DOMAIN printed : held = printed[i]
  BY <1>1 DEF HeldStands
<1>4. PICK f \in PageFrames : tree[f] # 0 /\ held.doc = tree[f] /\ Wanted = token[f]
  BY <1>1, <1>2, <1>3 DEF PrintedStands, Wanted
<1>5. /\ held.node \in Range(Nodes) /\ held.node # "box"
      /\ held.uid[3] = Backend(held.doc, held.node)
  BY <1>1, <1>2, <1>3 DEF PrintedStands, HeldStands
<1>6. Wanted \in Live /\ rend[Wanted] = SessionOf(Wanted)
  BY <1>1 DEF HeldStands, LiveTokens
<1>7. PICK g \in PageFrames : doc[g] = Wanted
  BY <1>6 DEF Live
<1>8. g = f
  BY <1>1, <1>4, <1>7, UidNumbers DEF Apart
<1>9. held.doc = Wanted /\ held.doc \in Live /\ held.doc \in 1..Len(rend)
  BY <1>1, <1>4, <1>6, <1>7, <1>8, UidNumbers DEF ReadInOrder
<1>10. Backend(held.doc, held.node) # 0
  BY <1>5, <1>9, NamedNodes
<1>11. ASSUME NEW d \in Live, rend[d] = SessionOf(Wanted), NEW n \in Range(Nodes),
              Backend(d, n) = held.uid[3]
       PROVE  d = held.doc /\ n = held.node
  <2>1. d \in 1..Len(rend) /\ rend[d] = rend[held.doc]
    BY <1>6, <1>9, <1>11, UidNumbers DEF Live
  <2>2. \A m \in {held.node} : Backend(d, n) = Backend(held.doc, m) /\ Backend(d, n) # 0
    BY <1>5, <1>10, <1>11
  <2>3. QED
    BY <1>5, <1>9, <2>1, <2>2, BackendApart, UidNumbers
<1>12. Found \subseteq {[doc |-> held.doc, node |-> held.node]}
  BY <1>11 DEF Found
<1>13. [doc |-> held.doc, node |-> held.node] \in Found
  BY <1>5, <1>6, <1>9 DEF Found
<1>14. QED
  BY <1>9, <1>12, <1>13

LEMMA CheckKeeps == ASSUME UidInv, Check PROVE UidInv'
<1>1. DocTypes /\ ReadTypes /\ ActTypes /\ Apart /\ ReadInOrder /\ PrintedStands /\ HeldStands /\ HitStands
  BY DEF UidInv
<1>2. /\ UNCHANGED <<framesAll, rend, doc, known, reader, token, tree, owner, printed, hit>>
      /\ reader = "built" /\ actor = "idle" /\ moved' = FALSE /\ behind' = (known # doc)
  BY DEF Check, docVars, readVars
<1>3. PICK i \in DOMAIN printed :
        /\ held' = printed[i]
        /\ actor' = IF printed[i].uid[1] \in LiveTokens(SessionOf(printed[i].uid[1])) /\ printed[i].uid[2] = "n"
                    THEN "checked" ELSE "refused"
  BY DEF Check
<1>4. hit = {}
  BY <1>1, <1>2 DEF HitStands
<1>5. DocTypes' /\ ReadTypes' /\ ActTypes' /\ Apart' /\ ReadInOrder' /\ PrintedStands'
  <2>1. DocTypes' /\ ReadTypes' /\ Apart' /\ ReadInOrder'
    BY <1>1, <1>2 DEF DocTypes, ReadTypes, Apart, ReadInOrder
  <2>2. PrintedStands'
    BY <1>1, <1>2 DEF PrintedStands, Backend
  <2>3. actor' \in {"checked", "refused"} /\ moved' \in BOOLEAN /\ behind' \in BOOLEAN
    BY <1>2, <1>3
  <2>4. ActTypes'
    BY <1>1, <1>2, <2>3 DEF ActTypes
  <2>5. QED
    BY <2>1, <2>2, <2>4
<1>6. /\ printed[i].uid[2] = (IF printed[i].node = "box" THEN "x" ELSE "n")
      /\ Wanted' = printed[i].uid[1]
  BY <1>1, <1>2, <1>3 DEF PrintedStands, Wanted
<1>7. LiveTokens(SessionOf(Wanted))' = LiveTokens(SessionOf(printed[i].uid[1])) /\ Live' = Live
  BY <1>2, <1>6 DEF LiveTokens, Live, SessionOf
<1>8. HeldStands'
  <2>1. CASE actor' = "checked"
    <3>1. Wanted' \in LiveTokens(SessionOf(Wanted))' /\ held'.node # "box"
      BY <1>3, <1>6, <1>7, <2>1
    <3>2. QED
      BY <1>2, <1>3, <2>1, <3>1 DEF HeldStands
  <2>2. CASE actor' = "refused"
    BY <1>2, <1>3, <2>2 DEF HeldStands
  <2>3. QED
    BY <1>3, <2>1, <2>2
<1>9. HitStands'
  <2>1. hit' = {}
    BY <1>2, <1>4
  <2>2. LiveIsNotRefused'
    <3>1. SUFFICES ASSUME actor' = "refused", held'.doc \in Live, held'.uid[1] = held'.doc,
                          held'.node \in {"root", "element"}
                   PROVE  rend[held'.doc] = "other" /\ (framesAll => known # doc)
      BY <1>2, <1>7 DEF LiveIsNotRefused, IsElement
    <3>2. held'.doc \notin LiveTokens(SessionOf(held'.doc))
      BY <1>3, <1>6, <3>1
    <3>3. rend[held'.doc] # SessionOf(held'.doc)
      BY <3>1, <3>2 DEF LiveTokens
    <3>4. held'.doc \in 1..Len(rend) /\ rend[held'.doc] \in {"page", "other"}
      BY <3>1, UidNumbers DEF Live, Renderers
    <3>5. rend[held'.doc] = "other" /\ SessionOf(held'.doc) = "page"
      BY <3>3, <3>4 DEF SessionOf
    <3>6. ASSUME framesAll PROVE known # doc
      <4>1. \A f \in PageFrames : known[f] # held'.doc
        BY <3>5, <3>6 DEF SessionOf
      <4>2. \E f \in PageFrames : doc[f] = held'.doc
        BY <3>1 DEF Live
      <4>3. QED
        BY <4>1, <4>2
    <3>7. QED
      BY <3>5, <3>6
  <2>3. QED
    BY <2>1, <2>2 DEF HitStands, ActsOnWhatItShowed
<1>10. QED
  BY <1>5, <1>8, <1>9 DEF UidInv

LEMMA ActsKeep == ASSUME UidInv, Describe \/ Input PROVE UidInv'
<1>1. DocTypes /\ ReadTypes /\ ActTypes /\ Apart /\ ReadInOrder /\ PrintedStands /\ HeldStands /\ HitStands
  BY DEF UidInv
<1>2. /\ UNCHANGED <<framesAll, rend, doc, known, reader, token, tree, owner, printed, held, moved, behind>>
      /\ actor \in {"checked", "described", "input"}
      /\ actor' \in {"described", "input", "refused", "failed", "acted"}
      /\ hit' \in {hit, hit \union Found}
  BY DEF Describe, Input, docVars, readVars
<1>3. reader = "built"
  BY <1>1, <1>2 DEF PrintedStands
<1>4. hit = {}
  BY <1>1, <1>2 DEF HitStands
<1>5. DocTypes' /\ ReadTypes' /\ Apart' /\ ReadInOrder' /\ PrintedStands'
  <2>1. DocTypes' /\ ReadTypes' /\ Apart' /\ ReadInOrder'
    BY <1>1, <1>2 DEF DocTypes, ReadTypes, Apart, ReadInOrder
  <2>2. PrintedStands'
    BY <1>1, <1>2, <1>3 DEF PrintedStands, Backend
  <2>3. QED
    BY <2>1, <2>2
<1>6. ActTypes'
  <2>1. Found \subseteq [doc : 1..Len(rend), node : Range(Nodes)]
    <3>1. Live \subseteq 1..Len(rend)
      BY UidNumbers DEF Live
    <3>2. QED
      BY <3>1 DEF Found
  <2>2. QED
    BY <1>1, <1>2, <2>1 DEF ActTypes
<1>7. ~moved => Found = {[doc |-> held.doc, node |-> held.node]}
  BY <1>2, FoundIsHeld
<1>8. Wanted' = Wanted /\ Live' = Live /\ LiveTokens(SessionOf(Wanted))' = LiveTokens(SessionOf(Wanted))
  BY <1>2 DEF Wanted, Live, LiveTokens, SessionOf
<1>9. actor' \in {"described", "input", "acted"} /\ ~moved => IsElement(held)
  <2>1. CASE Describe
    <3>1. ASSUME actor' = "described", ~moved PROVE IsElement(held)
      <4>1. \A x \in Found : Acts(x)
        BY <2>1, <3>1 DEF Describe
      <4>2. Acts([doc |-> held.doc, node |-> held.node])
        BY <1>7, <3>1, <4>1
      <4>3. QED
        BY <4>2 DEF Acts, IsElement
    <3>2. QED
      BY <2>1, <3>1 DEF Describe
  <2>2. CASE Input
    BY <1>1, <2>2 DEF Input, HeldStands
  <2>3. QED
    BY <2>1, <2>2
<1>10. HeldStands'
  <2>1. (actor # "idle" => \E i \in DOMAIN printed : held = printed[i])'
    BY <1>1, <1>2 DEF HeldStands
  <2>2. (actor \notin {"idle", "refused"} => held.node # "box")'
    BY <1>1, <1>2 DEF HeldStands
  <2>3. (actor \notin {"idle", "refused"} /\ ~moved => Wanted \in LiveTokens(SessionOf(Wanted)))'
    BY <1>1, <1>2, <1>8 DEF HeldStands
  <2>4. (actor \in {"described", "input", "acted"} /\ ~moved => IsElement(held))'
    BY <1>2, <1>9 DEF IsElement
  <2>5. QED
    BY <2>1, <2>2, <2>3, <2>4 DEF HeldStands
<1>11. hit' # {} => actor' = "acted" /\ hit' = Found
  BY <1>2, <1>4 DEF Describe, Input
<1>12. ActsOnWhatItShowed'
  <2>1. SUFFICES ASSUME hit' # {}, ~moved'
                 PROVE  hit' = {[doc |-> held.doc, node |-> held.node]} /\ held.node \in {"root", "element"}
    BY <1>2 DEF ActsOnWhatItShowed, IsElement
  <2>2. QED
    BY <1>2, <1>7, <1>9, <1>11, <2>1 DEF IsElement
<1>13. LiveIsNotRefused'
  <2>1. ASSUME actor' = "refused", ~moved, held.node \in {"root", "element"} PROVE FALSE
    <3>1. Describe /\ ~(\A x \in Found : Acts(x))
      BY <2>1 DEF Describe, Input
    <3>2. QED
      BY <1>7, <2>1, <3>1 DEF Acts, IsElement
  <2>2. QED
    BY <1>2, <2>1 DEF LiveIsNotRefused, IsElement
<1>14. QED
  BY <1>5, <1>6, <1>10, <1>11, <1>12, <1>13 DEF UidInv, HitStands

LEMMA UidSteps == ASSUME UidInv, [Next]_vars PROVE UidInv'
<1>1. CASE UidNext
  BY <1>1, NavigateKeeps, MapLearnsKeeps, ReadsKeep, PrintTreeKeeps, CheckKeeps, ActsKeep DEF UidNext
<1>2. CASE UNCHANGED uidVars
  BY <1>2, UidStays
<1>3. QED
  BY <1>1, <1>2 DEF Next, vars, Window, Attach, Verb

LEMMA UidIsWell ==
  ASSUME UidInv
  PROVE  UidTypeOK /\ NamesAreOne /\ ActsOnWhatItShowed /\ LiveIsNotRefused
<1>1. UidTypeOK
  BY DEF UidInv, DocTypes, ReadTypes, ActTypes, UidTypeOK
<1>2. NamesAreOne
  BY DEF UidInv, PrintedStands, NamesAreOne
<1>3. QED
  BY <1>1, <1>2 DEF UidInv, HitStands

(***************************************************************************)
(* The script contexts of the frames. What is under way is described by    *)
(* what is in it and by what comes behind what.                            *)
(***************************************************************************)
Within(e, s) == \E i \in 1..Len(s) : s[i] = e
Behind(d, e, s) == \E j \in 1..Len(s) : s[j] = e /\ \E i \in 1..j - 1 : s[i] = d

Sessions == Processes \ {0}
Worlds == [frame : {Top, Kid}, by : Processes, id : Nat, default : BOOLEAN]
Tellings ==
  [ev : {"created", "destroyed"}, c : Worlds]
    \union [ev : {"cleared"}, of : Processes]
    \union [ev : {"attached", "detached", "tree", "failed"}, of : Sessions]
    \union [ev : {"navigated", "swapped"}, of : {Top, Kid}]

Due(e) == Within(e, inFlight)
Follows(e, d) == Behind(d, e, inFlight)
Busy(r) == setup[r] \in {"reading", "read", "on"}
Seated(f) == tracked[f].ctx # 0 /\ tracked[f].by \in {0, home}

FrameTypes ==
  /\ allFrames \in BOOLEAN /\ home \in Processes \union {Gone}
  /\ contexts \subseteq Worlds /\ IsFiniteSet(contexts) /\ dying \subseteq Worlds
  /\ given \in [Processes -> Nat] /\ inFlight \in Seq(Tellings)
  /\ Listed \in {{Top}, {Top, Kid}} /\ tracked \in [Listed -> [by : Processes, ctx : Nat]]
  /\ tracked[Top].by = 0
  /\ setup \in [Processes -> {"none", "reading", "read", "on", "over"}] /\ setup[0] = "on"
  /\ chosen \in {None, Top, Kid} /\ selected \in {None} \union Listed

(* The contexts of the page are in its renderer, those of the iframe where *)
(* it lives, and a frame that is there has one that is the default.        *)
WorldsStand ==
  /\ \A c \in contexts : c.by = IF c.frame = Top THEN 0 ELSE home
  /\ \E c \in contexts : c.frame = Top /\ c.default
  /\ home # Gone => \E c \in contexts : c.frame = Kid /\ c.default
  /\ \A c, d \in contexts : c.default /\ d.default /\ c.frame = d.frame => c = d

BuriedStand ==
  \A c \in Worlds : c \in dying \/ Due(Destroyed(c)) => c.by = 0 /\ c.frame = Kid /\ c \notin contexts

(* An id that a renderer has given is one context's.                       *)
Mentioned(c) == c \in contexts \/ c \in dying \/ Due(Created(c)) \/ Due(Destroyed(c))
IdsStand ==
  /\ \A c \in Worlds : Mentioned(c) => c.id \in 1..given[c.by]
  /\ \A c, d \in Worlds : Mentioned(c) /\ Mentioned(d) /\ c.by = d.by /\ c.id = d.id => c = d
  /\ \A f \in Listed : Seated(f) => tracked[f].ctx <= given[tracked[f].by]
  /\ \A f \in Listed, c \in Worlds :
       Seated(f) /\ Mentioned(c) /\ c.by = tracked[f].by /\ c.id = tracked[f].ctx => c.frame = f /\ c.default

(* A session is told once, and its end behind it; and none is set up as    *)
(* long as another one is not over.                                        *)
SessionStands(r) ==
  /\ ~allFrames => /\ setup[r] = "none" /\ ~Due(On("attached", r))
                   /\ ~Due(On("detached", r)) /\ ~Due(On("failed", r))
  /\ given[r] = 0 =>
       /\ setup[r] = "none" /\ home # r
       /\ ~Due(On("attached", r)) /\ ~Due(On("detached", r)) /\ ~Due(On("failed", r)) /\ ~Due(On("tree", r))
  /\ Due(On("attached", r)) => setup[r] = "none"
  /\ Due(On("tree", r)) \/ Due(On("failed", r)) => setup[r] # "none"
  /\ ~Follows(On("attached", r), On("attached", r)) /\ ~Follows(On("attached", r), On("detached", r))
  /\ home = r => ~Due(On("detached", r)) /\ ~Due(On("failed", r))
  /\ home # r /\ (Busy(r) \/ Due(On("attached", r))) => Due(On("detached", r))
  /\ Kid \in Listed /\ tracked[Kid].by = r => setup[r] = "on"

SessionsApart(r, s) ==
  /\ ~(Busy(r) /\ Busy(s))
  /\ Due(On("attached", r)) /\ Busy(s) => Follows(On("attached", r), On("detached", s))
  /\ Due(On("attached", r)) /\ Due(On("attached", s)) =>
       Follows(On("attached", r), On("detached", s)) \/ Follows(On("attached", s), On("detached", r))

SessionsStand ==
  /\ \A r \in Sessions : SessionStands(r)
  /\ \A r, s \in Sessions : r # s => SessionsApart(r, s)

(* No navigation comes behind the session of the renderer that the iframe  *)
(* is in: it would put the iframe back into the page's.                    *)
Navigated == On("navigated", Kid)
NavigationsStand ==
  /\ home # Gone => ~Due(On("cleared", 0)) /\ ~Due(On("navigated", Top))
  /\ home \in Sessions =>
       /\ ~Follows(Navigated, On("attached", home)) /\ ~Follows(Navigated, On("tree", home))
       /\ setup[home] \in {"read", "on"} => ~Due(Navigated)
       /\ setup[home] = "on" /\ Kid \in Listed => tracked[Kid].by = home

(* A context that is told is told once, and its end behind it; and it is   *)
(* told to the session that holds the frame.                               *)
CreationStands(c) ==
  /\ ~Follows(Created(c), Created(c))
  /\ c.frame = Top => c.by = 0
  /\ c.frame = Kid /\ c.by = 0 =>
       \/ c \in contexts \/ c \in dying
       \/ Follows(Destroyed(c), Created(c)) \/ Follows(On("cleared", 0), Created(c))
  /\ c.by # 0 =>
       /\ setup[c.by] = "on" /\ (Kid \in Listed => tracked[Kid].by = c.by)
       /\ ~Follows(Created(c), Navigated)
       /\ ~Follows(Created(c), On("detached", c.by)) /\ ~Follows(Created(c), On("failed", c.by))
  /\ c.frame = Kid /\ home \in Sessions /\ c.by # home =>
       setup[home] = "none" /\ ~Follows(Created(c), On("attached", home))
CreationsStand == \A c \in Worlds : Due(Created(c)) => CreationStands(c)

(* A context of the page that the iframe holds is filed, and lives or is   *)
(* still to be told dead.                                                  *)
Held == Context(Kid, 0, tracked[Kid].ctx, TRUE)
HoldsStand ==
  /\ Kid \in Listed /\ tracked[Kid].by = 0 /\ tracked[Kid].ctx # 0 =>
       /\ <<0, tracked[Kid].ctx, Kid>> \in filed
       /\ Held \in contexts \/ Held \in dying \/ Due(Destroyed(Held)) \/ Due(On("cleared", 0))
  /\ ScriptRunsInItsFrame

(* The default context of a frame is held, or it is on its way and nothing *)
(* that would unseat it comes behind it.                                   *)
Upsets(k, e) ==
  \/ \E c \in Worlds : e = Created(c) /\ c.default /\ c.frame = k.frame
  \/ e = On("cleared", k.by)
  \/ k.frame = Kid /\ e = Navigated
Settles(k) ==
  \/ Due(Created(k)) /\ \A e \in Tellings : Upsets(k, e) => ~Follows(e, Created(k))
  \/ /\ \A e \in Tellings : Upsets(k, e) => ~Due(e)
     /\ k.frame \in Listed /\ tracked[k.frame].by = k.by => tracked[k.frame].ctx = k.id
Reported(k) == k.default /\ setup[k.by] = "on"
LatestStands == \A k \in contexts : Reported(k) => Settles(k)

FrameInv ==
  /\ FrameTypes /\ WorldsStand /\ BuriedStand /\ IdsStand /\ SessionsStand /\ NavigationsStand
  /\ CreationsStand /\ HoldsStand /\ LatestStands

LEMMA WithinConcat ==
  ASSUME NEW S, NEW s \in Seq(S), NEW t \in Seq(S)
  PROVE  /\ \A e : Within(e, s \o t) <=> Within(e, s) \/ Within(e, t)
         /\ \A d, e : Behind(d, e, s \o t) <=> Behind(d, e, s) \/ Behind(d, e, t) \/ (Within(d, s) /\ Within(e, t))
<1> DEFINE z == s \o t
           m == Len(s)
           n == Len(t)
<1>1. /\ m \in Nat /\ n \in Nat /\ Len(z) = m + n
      /\ \A i \in 1..m : z[i] = s[i]
      /\ \A i \in 1..n : z[m + i] = t[i]
  <2>1. m \in Nat /\ n \in Nat /\ Len(z) = m + n
    BY ConcatProperties
  <2>2. \A i \in 1..m + n : z[i] = IF i <= m THEN s[i] ELSE t[i - m]
    BY ConcatProperties
  <2> HIDE DEF m, n, z
  <2>3. QED
    BY <2>1, <2>2
<1>2. /\ \A e : Within(e, s) <=> \E i \in 1..m : s[i] = e
      /\ \A e : Within(e, t) <=> \E i \in 1..n : t[i] = e
      /\ \A e : Within(e, z) <=> \E i \in 1..Len(z) : z[i] = e
      /\ \A d, e : Behind(d, e, s) <=> \E j \in 1..m : s[j] = e /\ \E i \in 1..j - 1 : s[i] = d
      /\ \A d, e : Behind(d, e, t) <=> \E j \in 1..n : t[j] = e /\ \E i \in 1..j - 1 : t[i] = d
      /\ \A d, e : Behind(d, e, z) <=> \E j \in 1..Len(z) : z[j] = e /\ \E i \in 1..j - 1 : z[i] = d
  BY DEF Within, Behind
<1> HIDE DEF m, n, z
<1>3. \A k \in 1..m + n : k \in 1..m \/ \E i \in 1..n : k = m + i
  <2>1. TAKE k \in 1..m + n
  <2>2. k \in 1..m \/ (k - m \in 1..n /\ k = m + (k - m))
    BY <1>1
  <2>3. QED
    BY <2>2
<1>4. \A e : Within(e, z) <=> Within(e, s) \/ Within(e, t)
  <2>1. TAKE e
  <2>2. ASSUME Within(e, z) PROVE Within(e, s) \/ Within(e, t)
    <3>1. PICK k \in 1..m + n : z[k] = e
      BY <1>1, <1>2, <2>2
    <3>2. CASE k \in 1..m
      BY <1>1, <1>2, <3>1, <3>2
    <3>3. ASSUME NEW i \in 1..n, k = m + i PROVE Within(e, t)
      <4>1. t[i] = e
        BY <1>1, <3>1, <3>3
      <4>2. QED
        BY <1>2, <4>1
    <3>4. QED
      BY <1>3, <3>2, <3>3
  <2>3. ASSUME Within(e, s) PROVE Within(e, z)
    <3>1. PICK i \in 1..m : s[i] = e
      BY <1>2, <2>3
    <3>2. i \in 1..Len(z) /\ z[i] = e
      BY <1>1, <3>1
    <3>3. QED
      BY <1>2, <3>2
  <2>4. ASSUME Within(e, t) PROVE Within(e, z)
    <3>1. PICK i \in 1..n : t[i] = e
      BY <1>2, <2>4
    <3>2. m + i \in 1..Len(z) /\ z[m + i] = e
      BY <1>1, <3>1
    <3>3. QED
      BY <1>2, <3>2
  <2>5. QED
    BY <2>2, <2>3, <2>4
<1>5. \A d, e : Behind(d, e, z) => Behind(d, e, s) \/ Behind(d, e, t) \/ (Within(d, s) /\ Within(e, t))
  <2>1. SUFFICES ASSUME NEW d, NEW e, Behind(d, e, z)
                 PROVE  Behind(d, e, s) \/ Behind(d, e, t) \/ (Within(d, s) /\ Within(e, t))
    OBVIOUS
  <2>2. PICK j \in 1..Len(z) : z[j] = e /\ \E i \in 1..j - 1 : z[i] = d
    BY <1>2, <2>1
  <2>3. PICK i \in 1..j - 1 : z[i] = d
    BY <2>2
  <2>4. CASE j \in 1..m
    <3>1. s[j] = e /\ s[i] = d
      BY <1>1, <2>2, <2>3, <2>4
    <3>2. QED
      BY <1>2, <2>4, <3>1
  <2>5. CASE j \notin 1..m
    <3>1. PICK b \in 1..n : j = m + b
      BY <1>1, <1>3, <2>2, <2>5
    <3>2. t[b] = e
      BY <1>1, <2>2, <3>1
    <3>3. CASE i \in 1..m
      BY <1>1, <1>2, <2>3, <3>1, <3>2, <3>3
    <3>4. CASE i \notin 1..m
      <4>1. PICK a \in 1..n : i = m + a
        BY <1>1, <1>3, <2>2, <2>3, <3>4
      <4>2. t[a] = d /\ a \in 1..b - 1
        BY <1>1, <2>3, <3>1, <4>1
      <4>3. QED
        BY <1>2, <3>2, <4>2
    <3>5. QED
      BY <3>3, <3>4
  <2>6. QED
    BY <2>4, <2>5
<1>6. \A d, e : Behind(d, e, s) => Behind(d, e, z)
  <2>1. SUFFICES ASSUME NEW d, NEW e, Behind(d, e, s) PROVE Behind(d, e, z)
    OBVIOUS
  <2>2. PICK j \in 1..m : s[j] = e /\ \E i \in 1..j - 1 : s[i] = d
    BY <1>2, <2>1
  <2>3. j \in 1..Len(z) /\ z[j] = e /\ \E i \in 1..j - 1 : z[i] = d
    BY <1>1, <2>2
  <2>4. QED
    BY <1>2, <2>3
<1>7. \A d, e : Behind(d, e, t) => Behind(d, e, z)
  <2>1. SUFFICES ASSUME NEW d, NEW e, Behind(d, e, t) PROVE Behind(d, e, z)
    OBVIOUS
  <2>2. PICK j \in 1..n : t[j] = e /\ \E i \in 1..j - 1 : t[i] = d
    BY <1>2, <2>1
  <2>3. PICK i \in 1..j - 1 : t[i] = d
    BY <2>2
  <2>4. m + j \in 1..Len(z) /\ z[m + j] = e /\ m + i \in 1..(m + j) - 1 /\ z[m + i] = d
    BY <1>1, <2>2, <2>3
  <2>5. QED
    BY <1>2, <2>4
<1>8. \A d, e : Within(d, s) /\ Within(e, t) => Behind(d, e, z)
  <2>1. SUFFICES ASSUME NEW d, NEW e, Within(d, s), Within(e, t) PROVE Behind(d, e, z)
    OBVIOUS
  <2>2. PICK i \in 1..m : s[i] = d
    BY <1>2, <2>1
  <2>3. PICK j \in 1..n : t[j] = e
    BY <1>2, <2>1
  <2>4. m + j \in 1..Len(z) /\ z[m + j] = e /\ i \in 1..(m + j) - 1 /\ z[i] = d
    BY <1>1, <2>2, <2>3
  <2>5. QED
    BY <1>2, <2>4
<1>9. QED
  BY <1>4, <1>5, <1>6, <1>7, <1>8 DEF z

LEMMA WithinOne ==
  /\ \A e : ~Within(e, <<>>)
  /\ \A d, e : ~Behind(d, e, <<>>)
  /\ \A a, e : Within(e, <<a>>) <=> e = a
  /\ \A a, d, e : ~Behind(d, e, <<a>>)
<1>1. Len(<<>>) = 0
  OBVIOUS
<1>2. \A a : Len(<<a>>) = 1 /\ <<a>>[1] = a
  OBVIOUS
<1>3. QED
  BY <1>1, <1>2 DEF Within, Behind

LEMMA WithinTail ==
  ASSUME NEW S, NEW s \in Seq(S), s # <<>>
  PROVE  /\ Head(s) \in S /\ Tail(s) \in Seq(S)
         /\ \A e : Within(e, s) <=> e = Head(s) \/ Within(e, Tail(s))
         /\ \A d, e : Behind(d, e, s) <=> Behind(d, e, Tail(s)) \/ (d = Head(s) /\ Within(e, Tail(s)))
<1>1. Head(s) \in S /\ Tail(s) \in Seq(S)
  BY HeadTailProperties
<1>2. s = <<Head(s)>> \o Tail(s) /\ <<Head(s)>> \in Seq(S)
  <2>1. <<Head(s)>> \in Seq(S) /\ Len(<<Head(s)>>) = 1 /\ <<Head(s)>>[1] = Head(s)
    BY <1>1
  <2>2. Len(s) \in Nat /\ Len(Tail(s)) = Len(s) - 1 /\ \A i \in 1..Len(Tail(s)) : Tail(s)[i] = s[i + 1]
    BY HeadTailProperties
  <2> DEFINE z == <<Head(s)>> \o Tail(s)
  <2>3. z \in Seq(S) /\ Len(z) = 1 + Len(Tail(s))
    BY <1>1, <2>1, ConcatProperties
  <2>4. \A i \in 1..1 + Len(Tail(s)) : z[i] = IF i <= 1 THEN <<Head(s)>>[i] ELSE Tail(s)[i - 1]
    <3>1. \A i \in 1..Len(<<Head(s)>>) + Len(Tail(s)) :
             z[i] = IF i <= Len(<<Head(s)>>) THEN <<Head(s)>>[i] ELSE Tail(s)[i - Len(<<Head(s)>>)]
      BY <1>1, <2>1, ConcatProperties
    <3>2. QED
      BY <2>1, <3>1
  <2>5. Head(s) = s[1]
    OBVIOUS
  <2> HIDE DEF z
  <2>6. \A i \in 1..Len(s) : s[i] = z[i]
    BY <2>1, <2>2, <2>4, <2>5
  <2>7. s = z
    BY <2>2, <2>3, <2>6, SeqEqual
  <2>8. QED
    BY <2>1, <2>7 DEF z
<1>3. /\ \A e : Within(e, <<Head(s)>> \o Tail(s)) <=> Within(e, <<Head(s)>>) \/ Within(e, Tail(s))
      /\ \A d, e : Behind(d, e, <<Head(s)>> \o Tail(s)) <=>
           Behind(d, e, <<Head(s)>>) \/ Behind(d, e, Tail(s)) \/ (Within(d, <<Head(s)>>) /\ Within(e, Tail(s)))
  BY <1>1, <1>2, WithinConcat
<1>4. /\ \A e : Within(e, s) <=> Within(e, <<Head(s)>>) \/ Within(e, Tail(s))
      /\ \A d, e : Behind(d, e, s) <=>
           Behind(d, e, <<Head(s)>>) \/ Behind(d, e, Tail(s)) \/ (Within(d, <<Head(s)>>) /\ Within(e, Tail(s)))
  BY <1>2, <1>3
<1>5. QED
  BY <1>1, <1>4, WithinOne

LEMMA BothWithin ==
  ASSUME NEW S, NEW s \in Seq(S)
  PROVE  \A d, e : Behind(d, e, s) => Within(d, s) /\ Within(e, s)
<1>1. Len(s) \in Nat
  OBVIOUS
<1>2. QED
  BY <1>1 DEF Within, Behind

(* No two kinds of message are taken for each other.                       *)
LEMMA TellingsDiffer ==
  /\ \A a, b, r, s : On(a, r) = On(b, s) <=> a = b /\ r = s
  /\ \A c, d : Created(c) = Created(d) <=> c = d
  /\ \A c, d : Destroyed(c) = Destroyed(d) <=> c = d
  /\ \A c, d : Created(c) # Destroyed(d)
  /\ \A a, r, c : On(a, r) # Created(c) /\ On(a, r) # Destroyed(c)
<1>1. \A a, r : On(a, r).ev = a /\ On(a, r).of = r
  BY DEF On
<1>2. \A c : Created(c).ev = "created" /\ Created(c).c = c /\ Destroyed(c).ev = "destroyed" /\ Destroyed(c).c = c
  BY DEF Created, Destroyed
<1>3. \A a, r, c : On(a, r) # Created(c) /\ On(a, r) # Destroyed(c)
  BY DEF On, Created, Destroyed
<1>4. QED
  BY <1>1, <1>2, <1>3

LEMMA TellingsAre ==
  /\ \A c \in Worlds : Created(c) \in Tellings /\ Destroyed(c) \in Tellings
  /\ \A r \in Processes : On("cleared", r) \in Tellings
  /\ \A a \in {"attached", "detached", "tree", "failed"}, r \in Sessions : On(a, r) \in Tellings
  /\ \A a \in {"navigated", "swapped"}, f \in {Top, Kid} : On(a, f) \in Tellings
  /\ \A e \in Tellings :
       /\ e.ev = "created" => e.c \in Worlds /\ e = Created(e.c)
       /\ e.ev = "destroyed" => e.c \in Worlds /\ e = Destroyed(e.c)
       /\ e.ev = "cleared" => e.of \in Processes /\ e = On("cleared", e.of)
       /\ e.ev \in {"attached", "detached", "tree", "failed"} => e.of \in Sessions /\ e = On(e.ev, e.of)
       /\ e.ev \in {"navigated", "swapped"} => e.of \in {Top, Kid} /\ e = On(e.ev, e.of)
<1>1. \A c \in Worlds : Created(c) \in Tellings /\ Destroyed(c) \in Tellings
  BY DEF Created, Destroyed, Tellings
<1>2. /\ \A r \in Processes : On("cleared", r) \in Tellings
      /\ \A a \in {"attached", "detached", "tree", "failed"}, r \in Sessions : On(a, r) \in Tellings
  BY DEF On, Tellings
<1>3. \A a \in {"navigated", "swapped"}, f \in {Top, Kid} : On(a, f) \in Tellings
  BY DEF On, Tellings
<1>4. ASSUME NEW e \in Tellings
      PROVE  /\ e.ev = "created" => e.c \in Worlds /\ e = Created(e.c)
             /\ e.ev = "destroyed" => e.c \in Worlds /\ e = Destroyed(e.c)
             /\ e.ev = "cleared" => e.of \in Processes /\ e = On("cleared", e.of)
             /\ e.ev \in {"attached", "detached", "tree", "failed"} => e.of \in Sessions /\ e = On(e.ev, e.of)
             /\ e.ev \in {"navigated", "swapped"} => e.of \in {Top, Kid} /\ e = On(e.ev, e.of)
  <2>1. CASE e \in [ev : {"created", "destroyed"}, c : Worlds]
    BY <2>1 DEF Created, Destroyed
  <2>2. CASE e \in [ev : {"cleared"}, of : Processes]
    BY <2>2 DEF On
  <2>5. CASE e \in [ev : {"attached", "detached", "tree", "failed"}, of : Sessions]
    BY <2>5 DEF On
  <2>3. CASE e \in [ev : {"navigated", "swapped"}, of : {Top, Kid}]
    BY <2>3 DEF On
  <2>4. QED
    BY <1>4, <2>1, <2>2, <2>3, <2>5 DEF Tellings
<1>5. QED
  BY <1>1, <1>2, <1>3, <1>4

LEMMA WithinTwo ==
  ASSUME NEW S, NEW s \in Seq(S), NEW t \in Seq(S), NEW u \in Seq(S)
  PROVE  /\ s \o t \o u \in Seq(S)
         /\ \A e : Within(e, s \o t \o u) <=> Within(e, s) \/ Within(e, t) \/ Within(e, u)
         /\ \A d, e : Behind(d, e, s \o t \o u) <=>
              \/ Behind(d, e, s) \/ Behind(d, e, t) \/ Behind(d, e, u)
              \/ Within(d, s) /\ (Within(e, t) \/ Within(e, u))
              \/ Within(d, t) /\ Within(e, u)
<1> DEFINE z == s \o t
<1>1. z \in Seq(S) /\ z \o u \in Seq(S)
  BY ConcatProperties
<1>2. /\ \A e : Within(e, z) <=> Within(e, s) \/ Within(e, t)
      /\ \A d, e : Behind(d, e, z) <=> Behind(d, e, s) \/ Behind(d, e, t) \/ (Within(d, s) /\ Within(e, t))
  BY WithinConcat
<1> HIDE DEF z
<1>3. /\ \A e : Within(e, z \o u) <=> Within(e, z) \/ Within(e, u)
      /\ \A d, e : Behind(d, e, z \o u) <=> Behind(d, e, z) \/ Behind(d, e, u) \/ (Within(d, z) /\ Within(e, u))
  BY <1>1, WithinConcat
<1>4. /\ z \o u \in Seq(S)
      /\ \A e : Within(e, z \o u) <=> Within(e, s) \/ Within(e, t) \/ Within(e, u)
      /\ \A d, e : Behind(d, e, z \o u) <=>
              \/ Behind(d, e, s) \/ Behind(d, e, t) \/ Behind(d, e, u)
              \/ Within(d, s) /\ (Within(e, t) \/ Within(e, u))
              \/ Within(d, t) /\ Within(e, u)
  BY <1>1, <1>2, <1>3
<1>5. QED
  BY <1>4 DEF z

(* A message that is told, or not.                                         *)
LEMMA TellsIs ==
  ASSUME NEW x \in Tellings
  PROVE  /\ Tells(x) \in Seq(Tellings)
         /\ \A e : Within(e, Tells(x)) <=> Heard(x) /\ e = x
         /\ \A d, e : ~Behind(d, e, Tells(x))
<1>1. CASE Heard(x)
  <2>1. Tells(x) = <<x>>
    BY <1>1 DEF Tells
  <2>2. <<x>> \in Seq(Tellings)
    OBVIOUS
  <2>3. QED
    BY <1>1, <2>1, <2>2, WithinOne
<1>2. CASE ~Heard(x)
  <2>1. Tells(x) = <<>>
    BY <1>2 DEF Tells
  <2>2. <<>> \in Seq(Tellings)
    OBVIOUS
  <2>3. QED
    BY <1>2, <2>1, <2>2, WithinOne
<1>3. QED
  BY <1>1, <1>2

(* The first message is heard, and those behind it are left.               *)
LEMMA Consumed ==
  ASSUME inFlight \in Seq(Tellings), inFlight # <<>>, inFlight' = Tail(inFlight)
  PROVE  /\ Head(inFlight) \in Tellings /\ inFlight' \in Seq(Tellings) /\ Due(Head(inFlight))
         /\ \A e : Due(e)' => Due(e) /\ Follows(e, Head(inFlight))
         /\ \A e : Due(e) => e = Head(inFlight) \/ Due(e)'
         /\ \A d, e : Follows(e, d)' => Follows(e, d) /\ Due(d)' /\ Due(e)'
         /\ \A d, e : Follows(e, d) => Follows(e, d)' \/ (d = Head(inFlight) /\ Due(e)')
         /\ \A d, e : Follows(e, d) => Due(d) /\ Due(e)'
<1> DEFINE h == Head(inFlight)
           s == Tail(inFlight)
<1>1. /\ h \in Tellings /\ s \in Seq(Tellings)
      /\ \A e : Within(e, inFlight) <=> e = h \/ Within(e, s)
      /\ \A d, e : Behind(d, e, inFlight) <=> Behind(d, e, s) \/ (d = h /\ Within(e, s))
  BY WithinTail
<1>2. \A d, e : Behind(d, e, s) => Within(d, s) /\ Within(e, s)
  BY <1>1, BothWithin
<1>3. \A e : Due(e)' <=> Within(e, s)
  BY DEF Due
<1>4. \A d, e : Follows(e, d)' <=> Behind(d, e, s)
  BY DEF Follows
<1>5. \A d, e : (Due(e) <=> Within(e, inFlight)) /\ (Follows(e, d) <=> Behind(d, e, inFlight))
  BY DEF Due, Follows
<1> HIDE DEF h, s
<1>6. /\ h \in Tellings /\ s \in Seq(Tellings) /\ Due(h)
      /\ \A e : Due(e)' => Due(e) /\ Follows(e, h)
      /\ \A e : Due(e) => e = h \/ Due(e)'
      /\ \A d, e : Follows(e, d)' => Follows(e, d) /\ Due(d)' /\ Due(e)'
      /\ \A d, e : Follows(e, d) => Follows(e, d)' \/ (d = h /\ Due(e)')
      /\ \A d, e : Follows(e, d) => Due(d) /\ Due(e)'
  BY <1>1, <1>2, <1>3, <1>4, <1>5
<1>7. QED
  BY <1>6 DEF h, s

LEMMA Emitted ==
  ASSUME inFlight \in Seq(Tellings), NEW new \in Seq(Tellings), inFlight' = inFlight \o new
  PROVE  /\ inFlight' \in Seq(Tellings)
         /\ \A e : Due(e)' <=> Due(e) \/ Within(e, new)
         /\ \A d, e : Follows(e, d)' <=> Follows(e, d) \/ Behind(d, e, new) \/ (Due(d) /\ Within(e, new))
         /\ \A d, e : Follows(e, d) => Due(d) /\ Due(e)
         /\ \A d, e : Follows(e, d)' => Due(d)' /\ Due(e)'
<1>1. /\ inFlight \o new \in Seq(Tellings)
      /\ \A e : Within(e, inFlight \o new) <=> Within(e, inFlight) \/ Within(e, new)
      /\ \A d, e : Behind(d, e, inFlight \o new) <=>
           Behind(d, e, inFlight) \/ Behind(d, e, new) \/ (Within(d, inFlight) /\ Within(e, new))
  BY WithinConcat, ConcatProperties
<1>2. \A d, e : Behind(d, e, inFlight) => Within(d, inFlight) /\ Within(e, inFlight)
  BY BothWithin
<1>3. \A e : Due(e)' <=> Within(e, inFlight \o new)
  BY DEF Due
<1>4. \A d, e : Follows(e, d)' <=> Behind(d, e, inFlight \o new)
  BY DEF Follows
<1>5. \A d, e : (Due(e) <=> Within(e, inFlight)) /\ (Follows(e, d) <=> Behind(d, e, inFlight))
  BY DEF Due, Follows
<1>6. \A d, e : Behind(d, e, new) => Within(d, new) /\ Within(e, new)
  BY BothWithin
<1>7. QED
  BY <1>1, <1>2, <1>3, <1>4, <1>5, <1>6

(* A finite set as a sequence: each member, and each once.                 *)
LEMMA AllInTurn ==
  ASSUME NEW S, IsFiniteSet(S)
  PROVE  /\ Cardinality(S) \in Nat /\ SetToSeq(S) \in [1..Cardinality(S) -> S]
         /\ Len(SetToSeq(S)) = Cardinality(S)
         /\ \A x \in S : \E i \in 1..Cardinality(S) : SetToSeq(S)[i] = x
         /\ \A i, j \in 1..Cardinality(S) : SetToSeq(S)[i] = SetToSeq(S)[j] => i = j
<1> DEFINE n == Cardinality(S)
           q == SetToSeq(S)
<1>1. n \in Nat /\ ExistsBijection(1..n, S)
  BY FS_CardinalityType
<1>2. \E f \in [1..n -> S] : IsInjective(f)
  BY <1>1 DEF ExistsBijection, Bijection, Injection, IsInjective
<1>3. q \in [1..n -> S] /\ IsInjective(q)
  BY <1>2 DEF SetToSeq
<1>4. q \in Injection(1..n, S)
  BY <1>3 DEF Injection, IsInjective
<1>5. q \in Surjection(1..n, S)
  <2>1. IsFiniteSet(1..n) /\ Cardinality(1..n) = n
    <3>1. IsFiniteSet(1..n) /\ Cardinality(1..n) = IF 1 > n THEN 0 ELSE n - 1 + 1
      BY <1>1, FS_Interval
    <3>2. QED
      BY <1>1, <3>1
  <2>2. QED
    BY <1>4, <2>1, FS_Injection
<1>6. /\ \A x \in S : \E i \in 1..n : q[i] = x
      /\ \A i, j \in 1..n : q[i] = q[j] => i = j
  BY <1>3, <1>5 DEF Surjection, IsInjective
<1>7. Len(q) = n
  <2>1. q \in Seq(S)
    BY <1>1, <1>3, IsASeq
  <2>2. DOMAIN q = 1..n /\ DOMAIN q = 1..Len(q) /\ Len(q) \in Nat
    BY <1>3, <2>1
  <2> HIDE DEF n, q
  <2>3. QED
    BY <1>1, <2>2
<1>8. QED
  BY <1>1, <1>3, <1>6, <1>7

LEMMA LostIs ==
  ASSUME NEW cs \in SUBSET Worlds, IsFiniteSet(cs)
  PROVE  /\ Lost(cs) \in Seq(Tellings)
         /\ \A e : Within(e, Lost(cs)) <=> \E c \in cs : e = Destroyed(c)
<1> DEFINE n == Cardinality(cs)
           q == SetToSeq(cs)
<1>1. /\ n \in Nat /\ q \in [1..n -> cs]
      /\ \A x \in cs : \E i \in 1..n : q[i] = x
  BY AllInTurn
<1>2. Lost(cs) = [i \in 1..n |-> Destroyed(q[i])]
  BY DEF Lost
<1> HIDE DEF n, q
<1>3. \A i \in 1..n : Destroyed(q[i]) \in Tellings
  BY <1>1, TellingsAre
<1>4. Lost(cs) \in Seq(Tellings) /\ Len(Lost(cs)) = n
  BY <1>1, <1>2, <1>3, IsASeq
<1>5. \A i \in 1..n : Lost(cs)[i] = Destroyed(q[i])
  BY <1>2
<1>6. QED
  BY <1>1, <1>4, <1>5 DEF Within

Replay(r) == SetToSeq({c \in contexts : c.by = r})
LEMMA ReplayIs ==
  ASSUME NEW r, contexts \subseteq Worlds, IsFiniteSet(contexts)
  PROVE  /\ [i \in 1..Len(Replay(r)) |-> Created(Replay(r)[i])] \in Seq(Tellings)
         /\ \A e : Within(e, [i \in 1..Len(Replay(r)) |-> Created(Replay(r)[i])])
                     <=> \E c \in contexts : c.by = r /\ e = Created(c)
         /\ \A d, e : Behind(d, e, [i \in 1..Len(Replay(r)) |-> Created(Replay(r)[i])]) => d # e
<1> DEFINE cs == {c \in contexts : c.by = r}
           n == Cardinality(cs)
           q == SetToSeq(cs)
           z == [i \in 1..Len(Replay(r)) |-> Created(Replay(r)[i])]
<1>1. cs \subseteq Worlds /\ IsFiniteSet(cs)
  BY FS_Subset
<1>2. /\ n \in Nat /\ q \in [1..n -> cs] /\ Len(q) = n
      /\ \A x \in cs : \E i \in 1..n : q[i] = x
      /\ \A i, j \in 1..n : q[i] = q[j] => i = j
  BY <1>1, AllInTurn
<1>3. z = [i \in 1..n |-> Created(q[i])]
  BY <1>2 DEF Replay
<1> HIDE DEF n, q, z
<1>4. \A i \in 1..n : Created(q[i]) \in Tellings
  BY <1>1, <1>2, TellingsAre
<1>5. z \in Seq(Tellings) /\ Len(z) = n
  BY <1>2, <1>3, <1>4, IsASeq
<1>6. \A i \in 1..n : z[i] = Created(q[i])
  BY <1>3
<1>7. \A e : Within(e, z) <=> \E c \in cs : e = Created(c)
  BY <1>2, <1>5, <1>6 DEF Within
<1>8. \A d, e : Behind(d, e, z) => d # e
  <2>1. \A i, j \in 1..n : Created(q[i]) = Created(q[j]) => i = j
    BY <1>2, TellingsDiffer
  <2>2. ASSUME NEW d, NEW e, Behind(d, e, z) PROVE d # e
    <3>1. PICK j \in 1..Len(z) : z[j] = e /\ \E i \in 1..j - 1 : z[i] = d
      BY <2>2 DEF Behind
    <3>2. PICK i \in 1..j - 1 : z[i] = d
      BY <3>1
    <3>3. i \in 1..n /\ j \in 1..n /\ i # j
      BY <1>2, <1>5, <3>1, <3>2
    <3>4. QED
      BY <1>6, <2>1, <3>1, <3>2, <3>3
  <2>3. QED
    BY <2>2
<1>9. QED
  BY <1>5, <1>7, <1>8 DEF z

(* What every handler leaves as it was.                                    *)
LEMMA ConsumedKeeps ==
  ASSUME FrameInv, inFlight # <<>>, Consumes, UNCHANGED chrome
  PROVE  /\ Head(inFlight) \in Tellings /\ inFlight' \in Seq(Tellings) /\ Due(Head(inFlight))
         /\ \A e : Due(e)' => Due(e) /\ Follows(e, Head(inFlight))
         /\ \A e : Due(e) => e = Head(inFlight) \/ Due(e)'
         /\ \A d, e : Follows(e, d)' => Follows(e, d) /\ Due(d)' /\ Due(e)'
         /\ \A d, e : Follows(e, d) => Follows(e, d)' \/ (d = Head(inFlight) /\ Due(e)')
         /\ \A d, e : Follows(e, d) => Due(d) /\ Due(e)'
         /\ \A c : Mentioned(c)' => Mentioned(c)
         /\ WorldsStand' /\ BuriedStand'
         /\ \A c \in Worlds : Mentioned(c)' => c.id \in 1..given'[c.by]
         /\ \A c, d \in Worlds : Mentioned(c)' /\ Mentioned(d)' /\ c.by = d.by /\ c.id = d.id => c = d
<1>1. /\ Head(inFlight) \in Tellings /\ inFlight' \in Seq(Tellings) /\ Due(Head(inFlight))
      /\ \A e : Due(e)' => Due(e) /\ Follows(e, Head(inFlight))
      /\ \A e : Due(e) => e = Head(inFlight) \/ Due(e)'
      /\ \A d, e : Follows(e, d)' => Follows(e, d) /\ Due(d)' /\ Due(e)'
      /\ \A d, e : Follows(e, d) => Follows(e, d)' \/ (d = Head(inFlight) /\ Due(e)')
      /\ \A d, e : Follows(e, d) => Due(d) /\ Due(e)'
  BY Consumed DEF FrameInv, FrameTypes, Consumes
<1>2. home' = home /\ contexts' = contexts /\ dying' = dying /\ given' = given
  BY DEF chrome
<1>3. \A c : Mentioned(c)' => Mentioned(c)
  BY <1>1, <1>2 DEF Mentioned
<1>4. WorldsStand'
  BY <1>2 DEF FrameInv, WorldsStand
<1>5. BuriedStand'
  BY <1>1, <1>2 DEF FrameInv, BuriedStand
<1>6. /\ \A c \in Worlds : Mentioned(c)' => c.id \in 1..given'[c.by]
      /\ \A c, d \in Worlds : Mentioned(c)' /\ Mentioned(d)' /\ c.by = d.by /\ c.id = d.id => c = d
  BY <1>2, <1>3 DEF FrameInv, IdsStand
<1>7. QED
  BY <1>1, <1>3, <1>4, <1>5, <1>6

LEMMA CreatedKeeps ==
  ASSUME FrameInv, handle_execution_context_created
  PROVE  FrameInv'
<1>1. /\ Head(inFlight) \in Tellings /\ inFlight' \in Seq(Tellings) /\ Due(Head(inFlight))
      /\ \A e : Due(e)' => Due(e) /\ Follows(e, Head(inFlight))
      /\ \A e : Due(e) => e = Head(inFlight) \/ Due(e)'
      /\ \A d, e : Follows(e, d)' => Follows(e, d) /\ Due(d)' /\ Due(e)'
      /\ \A d, e : Follows(e, d) => Follows(e, d)' \/ (d = Head(inFlight) /\ Due(e)')
      /\ \A d, e : Follows(e, d) => Due(d) /\ Due(e)'
      /\ \A k : Mentioned(k)' => Mentioned(k)
      /\ WorldsStand' /\ BuriedStand'
      /\ \A k \in Worlds : Mentioned(k)' => k.id \in 1..given'[k.by]
      /\ \A k, d \in Worlds : Mentioned(k)' /\ Mentioned(d)' /\ k.by = d.by /\ k.id = d.id => k = d
  BY ConsumedKeeps DEF handle_execution_context_created, Takes
<1>2. PICK c \in Worlds : Head(inFlight) = Created(c)
  BY <1>1, TellingsAre DEF handle_execution_context_created, Takes
<1>3. /\ home' = home /\ contexts' = contexts /\ dying' = dying /\ given' = given /\ setup' = setup
      /\ allFrames' = allFrames /\ chosen' = chosen /\ selected' = selected /\ ran' = ran
      /\ filed' = {x \in filed : <<x[1], x[2]>> # <<c.by, c.id>>} \union {<<c.by, c.id, c.frame>>}
      /\ tracked' = IF c.default /\ c.frame \in Listed THEN Holding(c.frame, c.id) ELSE tracked
  <2>1. Head(inFlight).c = c
    BY <1>2 DEF Created
  <2>2. QED
    BY <2>1 DEF handle_execution_context_created, Takes, chrome, Keeps
<1>4. CreationStands(c) /\ Mentioned(c)
  BY <1>1, <1>2 DEF FrameInv, CreationsStand, Mentioned
<1>5. ~Due(Created(c))'
  BY <1>1, <1>2, <1>4 DEF CreationStands
<1>6. /\ FrameTypes /\ WorldsStand /\ BuriedStand /\ IdsStand /\ SessionsStand /\ NavigationsStand
      /\ CreationsStand /\ HoldsStand /\ LatestStands
  BY DEF FrameInv
<1>7. /\ Listed' = Listed /\ \A f \in Listed : tracked'[f].by = tracked[f].by
      /\ \A f \in Listed : tracked'[f].ctx = IF c.default /\ f = c.frame THEN c.id ELSE tracked[f].ctx
      /\ tracked' \in [Listed -> [by : Processes, ctx : Nat]]
  <2>1. tracked \in [Listed -> [by : Processes, ctx : Nat]] /\ c.id \in Nat /\ tracked' = IF c.default /\ c.frame \in Listed THEN Holding(c.frame, c.id) ELSE tracked
    BY <1>2, <1>3, <1>6 DEF FrameTypes, Worlds
  <2>2. CASE c.default /\ c.frame \in Listed
    <3>1. tracked' = [tracked EXCEPT ![c.frame].ctx = c.id]
      BY <2>1, <2>2 DEF Holding
    <3>2. QED
      BY <2>1, <2>2, <3>1 DEF Listed
  <2>3. CASE ~(c.default /\ c.frame \in Listed)
    BY <2>1, <2>3 DEF Listed
  <2>4. QED
    BY <2>2, <2>3
<1>8. FrameTypes'
  BY <1>1, <1>3, <1>6, <1>7 DEF FrameTypes
<1>9. c.default /\ c.frame \in Listed /\ tracked[c.frame].by \in {0, home} => c.by = tracked[c.frame].by
  BY <1>2, <1>4, <1>6, RenderersAssumption
     DEF FrameTypes, CreationStands, SessionsStand, SessionStands, Sessions, Worlds, Processes, Gone, Top, Kid
<1>10. IdsStand'
  <2>1. \A f \in Listed' : Seated(f)' => tracked'[f].ctx <= given'[tracked'[f].by]
    BY <1>3, <1>2, <1>4, <1>6, <1>7, <1>9 DEF IdsStand, Seated
  <2>2. \A f \in Listed', k \in Worlds :
          Seated(f)' /\ Mentioned(k)' /\ k.by = tracked'[f].by /\ k.id = tracked'[f].ctx => k.frame = f /\ k.default
    BY <1>1, <1>3, <1>2, <1>4, <1>6, <1>7, <1>9 DEF IdsStand, Seated
  <2>3. QED
    BY <1>1, <2>1, <2>2 DEF IdsStand, Worlds
<1>11. SessionsStand'
  <2>1. \A r \in Sessions : SessionStands(r)'
    BY <1>1, <1>3, <1>2, <1>6, <1>7, TellingsDiffer DEF SessionsStand, SessionStands, Busy
  <2>2. \A r, s \in Sessions : r # s => SessionsApart(r, s)'
    BY <1>1, <1>3, <1>2, <1>6, TellingsDiffer DEF SessionsStand, SessionsApart, Busy
  <2>3. QED
    BY <2>1, <2>2 DEF SessionsStand, Sessions
<1>12. NavigationsStand'
  BY <1>1, <1>3, <1>6, <1>7 DEF NavigationsStand, Navigated, FrameTypes
<1>13. CreationsStand'
  <2>1. SUFFICES ASSUME NEW d \in Worlds, Due(Created(d))' PROVE CreationStands(d)'
    BY DEF CreationsStand
  <2>2. CreationStands(d) /\ d # c
    BY <1>1, <1>5, <1>6, <2>1 DEF CreationsStand
  <2>3. Created(d) # Created(c)
    BY <2>2, TellingsDiffer
  <2>4. QED
    BY <1>1, <1>3, <1>2, <1>7, <2>2, <2>3 DEF CreationStands, Navigated
<1>14. HoldsStand'
  <2>1. ScriptRunsInItsFrame'
    BY <1>3, <1>6 DEF HoldsStand, ScriptRunsInItsFrame
  <2>2. ASSUME Kid \in Listed, tracked'[Kid].by = 0, tracked'[Kid].ctx # 0, c.default, c.frame = Kid
        PROVE  /\ <<0, tracked'[Kid].ctx, Kid>> \in filed'
               /\ Held' \in contexts' \/ Held' \in dying' \/ Due(Destroyed(Held))' \/ Due(On("cleared", 0))'
    <3>1. c.by = 0 /\ tracked'[Kid].ctx = c.id
      BY <1>7, <1>9, <2>2
    <3>2. Held' = c
      BY <1>2, <2>2, <3>1 DEF Held, Context, Worlds
    <3>3. c \in contexts \/ c \in dying \/ Due(Destroyed(c))' \/ Due(On("cleared", 0))'
      BY <1>1, <1>4, <2>2, <3>1 DEF CreationStands
    <3>4. QED
      BY <1>3, <2>2, <3>1, <3>2, <3>3
  <2>3. ASSUME Kid \in Listed, tracked'[Kid].by = 0, tracked'[Kid].ctx # 0, ~(c.default /\ c.frame = Kid)
        PROVE  /\ <<0, tracked'[Kid].ctx, Kid>> \in filed'
               /\ Held' \in contexts' \/ Held' \in dying' \/ Due(Destroyed(Held))' \/ Due(On("cleared", 0))'
    <3>1. tracked'[Kid].ctx = tracked[Kid].ctx /\ tracked[Kid].by = 0 /\ Seated(Kid)
      BY <1>7, <2>3 DEF Seated
    <3>2. Held' = Held
      BY <3>1 DEF Held
    <3>3. ~(c.by = 0 /\ c.id = tracked[Kid].ctx)
      BY <1>2, <1>4, <1>6, <2>3, <3>1 DEF IdsStand
    <3>4. <<0, tracked[Kid].ctx, Kid>> \in filed'
      BY <1>3, <1>6, <2>3, <3>1, <3>3 DEF HoldsStand
    <3>5. Held \in contexts \/ Held \in dying \/ Due(Destroyed(Held))' \/ Due(On("cleared", 0))'
      <4>1. Held \in contexts \/ Held \in dying \/ Due(Destroyed(Held)) \/ Due(On("cleared", 0))
        BY <1>6, <2>3, <3>1 DEF HoldsStand
      <4>2. Destroyed(Held) # Created(c) /\ On("cleared", 0) # Created(c)
        BY TellingsDiffer
      <4>3. QED
        BY <1>1, <1>2, <3>2, <4>1, <4>2
    <3>6. QED
      BY <1>3, <3>1, <3>2, <3>4, <3>5
  <2>4. QED
    BY <1>7, <2>1, <2>2, <2>3 DEF HoldsStand
<1>15. LatestStands'
  <2>1. SUFFICES ASSUME NEW k \in contexts, Reported(k)' PROVE Settles(k)'
    BY <1>3 DEF LatestStands
  <2>2. Settles(k) /\ k.default /\ k \in Worlds
    BY <1>3, <1>6, <2>1 DEF LatestStands, Reported, FrameTypes
  <2>3. \A e : Upsets(k, e)' = Upsets(k, e)
    BY DEF Upsets, Worlds
  <2>4. CASE k = c
    BY <1>1, <1>2, <1>4, <1>5, <1>7, <2>2, <2>3, <2>4 DEF Settles, Tellings
  <2>5. CASE k # c /\ Due(Created(k)) /\ \A e \in Tellings : Upsets(k, e) => ~Follows(e, Created(k))
    <3>1. Due(Created(k))'
      BY <1>1, <1>2, <2>5, TellingsDiffer
    <3>2. QED
      BY <1>1, <2>3, <2>5, <3>1 DEF Settles
  <2>6. CASE k # c /\ /\ \A e \in Tellings : Upsets(k, e) => ~Due(e)
                      /\ k.frame \in Listed /\ tracked[k.frame].by = k.by => tracked[k.frame].ctx = k.id
    <3>1. ~(c.default /\ c.frame = k.frame)
      BY <1>1, <1>2, <2>6 DEF Upsets
    <3>2. QED
      BY <1>1, <1>7, <2>3, <2>6, <3>1 DEF Settles
  <2>7. QED
    BY <2>2, <2>4, <2>5, <2>6 DEF Settles
<1>16. QED
  BY <1>1, <1>8, <1>10, <1>11, <1>12, <1>13, <1>14, <1>15 DEF FrameInv

LEMMA DestroyedKeeps ==
  ASSUME FrameInv, handle_execution_context_destroyed
  PROVE  FrameInv'
<1>1. /\ Head(inFlight) \in Tellings /\ inFlight' \in Seq(Tellings) /\ Due(Head(inFlight))
      /\ \A e : Due(e)' => Due(e) /\ Follows(e, Head(inFlight))
      /\ \A e : Due(e) => e = Head(inFlight) \/ Due(e)'
      /\ \A d, e : Follows(e, d)' => Follows(e, d) /\ Due(d)' /\ Due(e)'
      /\ \A d, e : Follows(e, d) => Follows(e, d)' \/ (d = Head(inFlight) /\ Due(e)')
      /\ \A d, e : Follows(e, d) => Due(d) /\ Due(e)'
      /\ \A k : Mentioned(k)' => Mentioned(k)
      /\ WorldsStand' /\ BuriedStand'
      /\ \A k \in Worlds : Mentioned(k)' => k.id \in 1..given'[k.by]
      /\ \A k, d \in Worlds : Mentioned(k)' /\ Mentioned(d)' /\ k.by = d.by /\ k.id = d.id => k = d
  BY ConsumedKeeps DEF handle_execution_context_destroyed, Takes
<1>2. PICK c \in Worlds : Head(inFlight) = Destroyed(c)
  BY <1>1, TellingsAre DEF handle_execution_context_destroyed, Takes
<1>3. /\ home' = home /\ contexts' = contexts /\ dying' = dying /\ given' = given
      /\ allFrames' = allFrames /\ chosen' = chosen /\ ran' = ran
      /\ setup' = setup /\ selected' = selected
      /\ LET own == {x \in filed : <<x[1], x[2]>> = <<c.by, c.id>>}
             holds == {x \in own : x[3] \in Listed /\ tracked[x[3]] = [by |-> c.by, ctx |-> c.id]}
         IN /\ filed' = filed \ own
            /\ tracked' = [f \in Listed |-> IF \E x \in holds : x[3] = f THEN [tracked[f] EXCEPT !.ctx = 0] ELSE tracked[f]]
  <2>1. Head(inFlight).c = c
    BY <1>2 DEF Destroyed
  <2>2. QED
    BY <2>1 DEF handle_execution_context_destroyed, Takes, chrome, Keeps
<1>4. /\ FrameTypes /\ WorldsStand /\ BuriedStand /\ IdsStand /\ SessionsStand /\ NavigationsStand
      /\ CreationsStand /\ HoldsStand /\ LatestStands
  BY DEF FrameInv
<1>5. /\ Listed' = Listed /\ \A f \in Listed : tracked'[f].by = tracked[f].by
      /\ tracked' \in [Listed -> [by : Processes, ctx : Nat]]
      /\ \A f \in Listed :
           \/ tracked'[f].ctx = tracked[f].ctx
           \/ tracked'[f].ctx = 0 /\ tracked[f].by = c.by /\ tracked[f].ctx = c.id
      /\ \A f \in Listed : <<c.by, c.id, f>> \in filed /\ tracked[f].by = c.by /\ tracked[f].ctx = c.id => tracked'[f].ctx = 0
  <2>1. tracked \in [Listed -> [by : Processes, ctx : Nat]] /\ tracked' = [f \in Listed |-> tracked'[f]]
    BY <1>3, <1>4 DEF FrameTypes
  <2>2. Listed' = Listed
    BY <2>1 DEF Listed
  <2>3. ASSUME NEW f \in Listed
        PROVE  /\ tracked'[f] = tracked[f] \/ (tracked'[f] = [tracked[f] EXCEPT !.ctx = 0] /\ tracked[f] = [by |-> c.by, ctx |-> c.id])
               /\ <<c.by, c.id, f>> \in filed /\ tracked[f] = [by |-> c.by, ctx |-> c.id] => tracked'[f] = [tracked[f] EXCEPT !.ctx = 0]
    BY <1>3
  <2>4. \A f \in Listed : tracked[f] \in [by : Processes, ctx : Nat]
    BY <2>1
  <2>5. \A f \in Listed : [tracked[f] EXCEPT !.ctx = 0].ctx = 0 /\ [tracked[f] EXCEPT !.ctx = 0].by = tracked[f].by
                          /\ [tracked[f] EXCEPT !.ctx = 0] \in [by : Processes, ctx : Nat]
    BY <2>4
  <2>6. /\ \A f \in Listed : tracked'[f].by = tracked[f].by /\ tracked'[f] \in [by : Processes, ctx : Nat]
        /\ \A f \in Listed :
             \/ tracked'[f].ctx = tracked[f].ctx
             \/ tracked'[f].ctx = 0 /\ tracked[f].by = c.by /\ tracked[f].ctx = c.id
    <3>1. SUFFICES ASSUME NEW f \in Listed
                   PROVE  /\ tracked'[f].by = tracked[f].by /\ tracked'[f] \in [by : Processes, ctx : Nat]
                          /\ \/ tracked'[f].ctx = tracked[f].ctx
                             \/ tracked'[f].ctx = 0 /\ tracked[f].by = c.by /\ tracked[f].ctx = c.id
      OBVIOUS
    <3>2. CASE tracked'[f] = tracked[f]
      BY <2>4, <3>2
    <3>3. CASE tracked'[f] = [tracked[f] EXCEPT !.ctx = 0] /\ tracked[f] = [by |-> c.by, ctx |-> c.id]
      <4>1. tracked[f].by = c.by /\ tracked[f].ctx = c.id
        BY <3>3
      <4>2. QED
        BY <2>5, <3>3, <4>1
    <3>4. QED
      BY <2>3, <3>2, <3>3
  <2>7. \A f \in Listed : tracked[f].by = c.by /\ tracked[f].ctx = c.id => tracked[f] = [by |-> c.by, ctx |-> c.id]
    BY <2>4
  <2>8. \A f \in Listed : <<c.by, c.id, f>> \in filed /\ tracked[f].by = c.by /\ tracked[f].ctx = c.id => tracked'[f].ctx = 0
    BY <2>3, <2>5, <2>7
  <2>9. tracked' \in [Listed -> [by : Processes, ctx : Nat]]
    BY <2>1, <2>6
  <2>10. QED
    BY <2>2, <2>6, <2>8, <2>9
<1>6. c.by = 0 /\ c.frame = Kid /\ c \notin contexts /\ Mentioned(c)
  BY <1>1, <1>2, <1>4 DEF BuriedStand, Mentioned
<1>7. \A a, r : a \notin {"created", "destroyed"} => On(a, r) # Head(inFlight)
  BY <1>2, TellingsDiffer
<1>10. FrameTypes'
  BY <1>1, <1>3, <1>4, <1>5 DEF FrameTypes
<1>11. IdsStand'
  <2>1. \A f \in Listed : Seated(f)' => Seated(f) /\ tracked'[f].ctx = tracked[f].ctx
    BY <1>3, <1>5 DEF Seated
  <2>2. QED
    BY <1>1, <1>3, <1>4, <1>5, <2>1 DEF IdsStand, Worlds
<1>12. SessionsStand'
  <2>1. \A r \in Sessions : SessionStands(r)'
    BY <1>1, <1>3, <1>4, <1>5, <1>7 DEF SessionsStand, SessionStands, Busy
  <2>2. \A r, s \in Sessions : r # s => SessionsApart(r, s)'
    BY <1>1, <1>3, <1>4, <1>7 DEF SessionsStand, SessionsApart, Busy
  <2>3. QED
    BY <2>1, <2>2 DEF SessionsStand, Sessions
<1>13. NavigationsStand'
  BY <1>1, <1>2, <1>3, <1>4, <1>5 DEF NavigationsStand, Navigated, FrameTypes
<1>14. CreationsStand'
  <2>1. SUFFICES ASSUME NEW d \in Worlds, Due(Created(d))' PROVE CreationStands(d)'
    BY DEF CreationsStand
  <2>2. CreationStands(d)
    BY <1>1, <1>4, <2>1 DEF CreationsStand
  <2>3. Created(d) # Head(inFlight)
    BY <1>2, TellingsDiffer
  <2>4. QED
    BY <1>1, <1>3, <1>5, <2>1, <2>2, <2>3 DEF CreationStands, Navigated
<1>15. HoldsStand'
  <2>1. ScriptRunsInItsFrame'
    BY <1>3, <1>4 DEF HoldsStand, ScriptRunsInItsFrame
  <2>2. ASSUME Kid \in Listed, tracked'[Kid].by = 0, tracked'[Kid].ctx # 0
        PROVE  /\ <<0, tracked'[Kid].ctx, Kid>> \in filed'
               /\ Held' \in contexts' \/ Held' \in dying' \/ Due(Destroyed(Held))' \/ Due(On("cleared", 0))'
    <3>1. tracked'[Kid].ctx = tracked[Kid].ctx /\ tracked[Kid].by = 0 /\ <<0, tracked[Kid].ctx, Kid>> \in filed
      BY <1>4, <1>5, <2>2 DEF HoldsStand
    <3>2. Held' = Held
      BY <3>1 DEF Held
    <3>3. tracked[Kid].ctx # c.id
      BY <1>5, <1>6, <2>2, <3>1
    <3>4. <<0, tracked[Kid].ctx, Kid>> \in filed'
      BY <1>3, <3>1, <3>3
    <3>5. Held \in contexts \/ Held \in dying \/ Due(Destroyed(Held)) \/ Due(On("cleared", 0))
      BY <1>4, <2>2, <3>1 DEF HoldsStand
    <3>6. Destroyed(Held) # Destroyed(c) /\ On("cleared", 0) # Destroyed(c)
      BY <3>3, TellingsDiffer DEF Held, Context
    <3>7. QED
      BY <1>1, <1>2, <1>3, <3>1, <3>2, <3>4, <3>5, <3>6
  <2>4. QED
    BY <1>5, <2>1, <2>2 DEF HoldsStand
<1>16. LatestStands'
  <2>1. SUFFICES ASSUME NEW k \in contexts, Reported(k)' PROVE Settles(k)'
    BY <1>3 DEF LatestStands
  <2>2. Settles(k) /\ k.default /\ k \in Worlds /\ Mentioned(k)
    BY <1>3, <1>4, <2>1 DEF LatestStands, Reported, FrameTypes, Mentioned
  <2>3. \A e : Upsets(k, e)' = Upsets(k, e)
    BY DEF Upsets, Worlds
  <2>4. CASE Due(Created(k)) /\ \A e \in Tellings : Upsets(k, e) => ~Follows(e, Created(k))
    <3>1. Due(Created(k))'
      BY <1>1, <1>2, <2>4, TellingsDiffer
    <3>2. QED
      BY <1>1, <2>3, <2>4, <3>1 DEF Settles
  <2>5. CASE /\ \A e \in Tellings : Upsets(k, e) => ~Due(e)
             /\ k.frame \in Listed /\ tracked[k.frame].by = k.by => tracked[k.frame].ctx = k.id
    <3>1. ~(k.by = c.by /\ k.id = c.id)
      BY <1>4, <1>6, <2>2 DEF IdsStand
    <3>2. k.frame \in Listed' /\ tracked'[k.frame].by = k.by => tracked'[k.frame].ctx = k.id
      BY <1>5, <2>5, <3>1
    <3>3. QED
      BY <1>1, <2>3, <2>5, <3>2 DEF Settles
  <2>7. QED
    BY <2>2, <2>4, <2>5 DEF Settles
<1>20. QED
  BY <1>1, <1>10, <1>11, <1>12, <1>13, <1>14, <1>15, <1>16 DEF FrameInv

LEMMA ClearedKeeps ==
  ASSUME FrameInv, handle_execution_contexts_cleared
  PROVE  FrameInv'
<1>1. /\ Head(inFlight) \in Tellings /\ inFlight' \in Seq(Tellings) /\ Due(Head(inFlight))
      /\ \A e : Due(e)' => Due(e) /\ Follows(e, Head(inFlight))
      /\ \A e : Due(e) => e = Head(inFlight) \/ Due(e)'
      /\ \A d, e : Follows(e, d)' => Follows(e, d) /\ Due(d)' /\ Due(e)'
      /\ \A d, e : Follows(e, d) => Follows(e, d)' \/ (d = Head(inFlight) /\ Due(e)')
      /\ \A d, e : Follows(e, d) => Due(d) /\ Due(e)'
      /\ \A k : Mentioned(k)' => Mentioned(k)
      /\ WorldsStand' /\ BuriedStand'
      /\ \A k \in Worlds : Mentioned(k)' => k.id \in 1..given'[k.by]
      /\ \A k, d \in Worlds : Mentioned(k)' /\ Mentioned(d)' /\ k.by = d.by /\ k.id = d.id => k = d
  BY ConsumedKeeps DEF handle_execution_contexts_cleared, Takes
<1>2. PICK p \in Processes : Head(inFlight) = On("cleared", p)
  BY <1>1, TellingsAre DEF handle_execution_contexts_cleared, Takes
<1>3. /\ home' = home /\ contexts' = contexts /\ dying' = dying /\ given' = given
      /\ allFrames' = allFrames /\ chosen' = chosen /\ ran' = ran
      /\ setup' = setup /\ selected' = selected
      /\ filed' = {x \in filed : x[1] # p}
      /\ tracked' = [f \in Listed |-> IF tracked[f].by = p THEN [tracked[f] EXCEPT !.ctx = 0] ELSE tracked[f]]
  <2>1. Head(inFlight).of = p
    BY <1>2 DEF On
  <2>2. QED
    BY <2>1 DEF handle_execution_contexts_cleared, Takes, chrome, Keeps
<1>4. /\ FrameTypes /\ WorldsStand /\ BuriedStand /\ IdsStand /\ SessionsStand /\ NavigationsStand
      /\ CreationsStand /\ HoldsStand /\ LatestStands
  BY DEF FrameInv
<1>5. /\ Listed' = Listed /\ \A f \in Listed : tracked'[f].by = tracked[f].by
      /\ tracked' \in [Listed -> [by : Processes, ctx : Nat]]
      /\ \A f \in Listed : tracked'[f].ctx = IF tracked[f].by = p THEN 0 ELSE tracked[f].ctx
  <2>1. \A f \in Listed : tracked[f] \in [by : Processes, ctx : Nat]
    BY <1>4 DEF FrameTypes
  <2>2. DOMAIN tracked' = Listed /\ tracked' = [f \in Listed |-> tracked'[f]]
    BY <1>3
  <2>3. ASSUME NEW f \in Listed
        PROVE  /\ tracked'[f].by = tracked[f].by /\ tracked'[f] \in [by : Processes, ctx : Nat]
               /\ tracked'[f].ctx = IF tracked[f].by = p THEN 0 ELSE tracked[f].ctx
    BY <1>3, <2>1
  <2>4. QED
    BY <2>2, <2>3 DEF Listed
<1>6. p = 0 => home = Gone
  BY <1>1, <1>2, <1>4 DEF NavigationsStand
<1>7. /\ \A a, s : a # "cleared" => On(a, s) # Head(inFlight)
      /\ \A c : Created(c) # Head(inFlight) /\ Destroyed(c) # Head(inFlight)
  BY <1>2, TellingsDiffer
<1>10. FrameTypes'
  BY <1>1, <1>3, <1>4, <1>5 DEF FrameTypes
<1>11. IdsStand'
  <2>1. \A f \in Listed : Seated(f)' => Seated(f) /\ tracked'[f].ctx = tracked[f].ctx
    BY <1>3, <1>5 DEF Seated
  <2>2. QED
    BY <1>1, <1>3, <1>4, <1>5, <2>1 DEF IdsStand, Worlds
<1>12. SessionsStand'
  <2>1. \A r \in Sessions : SessionStands(r)'
    BY <1>1, <1>3, <1>4, <1>5, <1>7 DEF SessionsStand, SessionStands, Busy
  <2>2. \A r, s \in Sessions : r # s => SessionsApart(r, s)'
    BY <1>1, <1>3, <1>4, <1>7 DEF SessionsStand, SessionsApart, Busy
  <2>3. QED
    BY <2>1, <2>2 DEF SessionsStand, Sessions
<1>13. NavigationsStand'
  BY <1>1, <1>3, <1>4, <1>5 DEF NavigationsStand, Navigated, FrameTypes
<1>14. CreationsStand'
  <2>1. SUFFICES ASSUME NEW d \in Worlds, Due(Created(d))' PROVE CreationStands(d)'
    BY DEF CreationsStand
  <2>2. CreationStands(d)
    BY <1>1, <1>4, <2>1 DEF CreationsStand
  <2>3. Created(d) # Head(inFlight)
    BY <1>2, TellingsDiffer
  <2>4. QED
    BY <1>1, <1>3, <1>5, <2>1, <2>2, <2>3 DEF CreationStands, Navigated
<1>15. HoldsStand'
  <2>1. ScriptRunsInItsFrame'
    BY <1>3, <1>4 DEF HoldsStand, ScriptRunsInItsFrame
  <2>2. ASSUME Kid \in Listed, tracked'[Kid].by = 0, tracked'[Kid].ctx # 0
        PROVE  /\ <<0, tracked'[Kid].ctx, Kid>> \in filed'
               /\ Held' \in contexts' \/ Held' \in dying' \/ Due(Destroyed(Held))' \/ Due(On("cleared", 0))'
    <3>1. tracked'[Kid].ctx = tracked[Kid].ctx /\ tracked[Kid].by = 0 /\ p # 0
      BY <1>5, <2>2
    <3>2. Held' = Held
      BY <3>1 DEF Held
    <3>4. <<0, tracked[Kid].ctx, Kid>> \in filed'
      BY <1>3, <1>4, <2>2, <3>1 DEF HoldsStand
    <3>5. Held \in contexts \/ Held \in dying \/ Due(Destroyed(Held)) \/ Due(On("cleared", 0))
      BY <1>4, <2>2, <3>1 DEF HoldsStand
    <3>6. On("cleared", 0) # Head(inFlight)
      BY <1>2, <3>1, TellingsDiffer
    <3>7. QED
      BY <1>1, <1>3, <1>7, <3>1, <3>2, <3>4, <3>5, <3>6
  <2>4. QED
    BY <1>5, <2>1, <2>2 DEF HoldsStand
<1>16. LatestStands'
  <2>1. SUFFICES ASSUME NEW k \in contexts, Reported(k)' PROVE Settles(k)'
    BY <1>3 DEF LatestStands
  <2>2. Settles(k) /\ k.default /\ k \in Worlds
    BY <1>3, <1>4, <2>1 DEF LatestStands, Reported, FrameTypes
  <2>3. \A e : Upsets(k, e)' = Upsets(k, e)
    BY DEF Upsets, Worlds
  <2>4. CASE Due(Created(k)) /\ \A e \in Tellings : Upsets(k, e) => ~Follows(e, Created(k))
    <3>1. Due(Created(k))'
      BY <1>1, <1>2, <2>4, TellingsDiffer
    <3>2. QED
      BY <1>1, <2>3, <2>4, <3>1 DEF Settles
  <2>5. CASE /\ \A e \in Tellings : Upsets(k, e) => ~Due(e)
             /\ k.frame \in Listed /\ tracked[k.frame].by = k.by => tracked[k.frame].ctx = k.id
    <3>1. ~Upsets(k, Head(inFlight))
      BY <1>1, <2>5
    <3>2. k.frame \in Listed' /\ tracked'[k.frame].by = k.by => tracked'[k.frame].ctx = k.id
      <4>1. k.by # p
        BY <1>2, <3>1 DEF Upsets
      <4>2. QED
        BY <1>5, <2>5, <4>1
    <3>3. QED
      BY <1>1, <2>3, <2>5, <3>2 DEF Settles
  <2>7. QED
    BY <2>2, <2>4, <2>5 DEF Settles
<1>20. QED
  BY <1>1, <1>10, <1>11, <1>12, <1>13, <1>14, <1>15, <1>16 DEF FrameInv

LEMMA NavigatedKeeps ==
  ASSUME FrameInv, handle_frame_navigated
  PROVE  FrameInv'
<1>1. /\ Head(inFlight) \in Tellings /\ inFlight' \in Seq(Tellings) /\ Due(Head(inFlight))
      /\ \A e : Due(e)' => Due(e) /\ Follows(e, Head(inFlight))
      /\ \A e : Due(e) => e = Head(inFlight) \/ Due(e)'
      /\ \A d, e : Follows(e, d)' => Follows(e, d) /\ Due(d)' /\ Due(e)'
      /\ \A d, e : Follows(e, d) => Follows(e, d)' \/ (d = Head(inFlight) /\ Due(e)')
      /\ \A d, e : Follows(e, d) => Due(d) /\ Due(e)'
      /\ \A k : Mentioned(k)' => Mentioned(k)
      /\ WorldsStand' /\ BuriedStand'
      /\ \A k \in Worlds : Mentioned(k)' => k.id \in 1..given'[k.by]
      /\ \A k, d \in Worlds : Mentioned(k)' /\ Mentioned(d)' /\ k.by = d.by /\ k.id = d.id => k = d
  BY ConsumedKeeps DEF handle_frame_navigated, Takes
<1>2. PICK g \in {Top, Kid} : Head(inFlight) = On("navigated", g)
  BY <1>1, TellingsAre DEF handle_frame_navigated, Takes
<1>3. /\ home' = home /\ contexts' = contexts /\ dying' = dying /\ given' = given
      /\ allFrames' = allFrames /\ chosen' = chosen /\ ran' = ran
      /\ setup' = setup /\ filed' = filed
      /\ selected' = IF chosen \in DOMAIN tracked' THEN chosen ELSE None
      /\ tracked' = IF g = Top THEN Without(Kid)
                    ELSE IF Kid \in Listed THEN tracked
                    ELSE [f \in {Top, Kid} |-> IF f = Kid THEN [by |-> 0, ctx |-> 0] ELSE tracked[Top]]
  <2>1. Head(inFlight).of = g
    BY <1>2 DEF On
  <2>2. QED
    BY <2>1 DEF handle_frame_navigated, Takes, chrome, Keeps, Resolve
<1>4. /\ FrameTypes /\ WorldsStand /\ BuriedStand /\ IdsStand /\ SessionsStand /\ NavigationsStand
      /\ CreationsStand /\ HoldsStand /\ LatestStands
  BY DEF FrameInv
<1>5. /\ Listed' \in {{Top}, {Top, Kid}} /\ tracked' \in [Listed' -> [by : Processes, ctx : Nat]]
      /\ tracked'[Top] = tracked[Top]
      /\ Kid \in Listed' => g = Kid /\ IF Kid \in Listed THEN tracked'[Kid] = tracked[Kid]
                                       ELSE tracked'[Kid].by = 0 /\ tracked'[Kid].ctx = 0
  <2>1. Listed \in {{Top}, {Top, Kid}} /\ tracked \in [Listed -> [by : Processes, ctx : Nat]] /\ Top # Kid /\ 0 \in Processes
    BY <1>4, RenderersAssumption DEF FrameTypes, Top, Kid, Processes
  <2>2. CASE g = Top
    <3>1. tracked' = [f \in Listed \ {Kid} |-> tracked[f]]
      BY <1>3, <2>2 DEF Without
    <3>2. QED
      BY <2>1, <2>2, <3>1 DEF Listed
  <2>3. CASE g # Top /\ Kid \in Listed
    BY <1>2, <1>3, <2>1, <2>3 DEF Listed
  <2>4. CASE g # Top /\ Kid \notin Listed
    <3>1. tracked' = [f \in {Top, Kid} |-> IF f = Kid THEN [by |-> 0, ctx |-> 0] ELSE tracked[Top]]
      BY <1>3, <2>4
    <3>2. QED
      BY <1>2, <2>1, <2>4, <3>1 DEF Listed
  <2>5. QED
    BY <2>2, <2>3, <2>4
<1>6. g = Top => home = Gone
  BY <1>1, <1>2, <1>4 DEF NavigationsStand
<1>7. /\ \A a, s : a # "navigated" => On(a, s) # Head(inFlight)
      /\ \A c : Created(c) # Head(inFlight) /\ Destroyed(c) # Head(inFlight)
      /\ g = Kid => Head(inFlight) = Navigated
      /\ \A f \in Listed' : f \in {Top, Kid}
  BY <1>2, <1>5, TellingsDiffer DEF Navigated
<1>10. FrameTypes'
  <2>1. selected' \in {None} \union Listed' /\ chosen' \in {None, Top, Kid}
    BY <1>3, <1>4 DEF FrameTypes, Listed
  <2>2. QED
    BY <1>1, <1>3, <1>4, <1>5, <2>1 DEF FrameTypes
<1>11. IdsStand'
  <2>1. \A f \in Listed' : Seated(f)' => f \in Listed /\ Seated(f) /\ tracked'[f] = tracked[f]
    BY <1>3, <1>4, <1>5, <1>7 DEF Seated, FrameTypes
  <2>2. QED
    BY <1>1, <1>3, <1>4, <2>1 DEF IdsStand, Worlds
<1>12. SessionsStand'
  <2>1. \A r \in Sessions : SessionStands(r)'
    BY <1>1, <1>3, <1>4, <1>5, <1>7 DEF SessionsStand, SessionStands, Busy, Sessions
  <2>2. \A r, s \in Sessions : r # s => SessionsApart(r, s)'
    BY <1>1, <1>3, <1>4, <1>7 DEF SessionsStand, SessionsApart, Busy
  <2>3. QED
    BY <2>1, <2>2 DEF SessionsStand, Sessions
<1>13. NavigationsStand'
  BY <1>1, <1>3, <1>4, <1>5, <1>7 DEF NavigationsStand, Navigated
<1>14. CreationsStand'
  <2>1. SUFFICES ASSUME NEW d \in Worlds, Due(Created(d))' PROVE CreationStands(d)'
    BY DEF CreationsStand
  <2>2. CreationStands(d) /\ Follows(Created(d), Head(inFlight))
    BY <1>1, <1>4, <2>1 DEF CreationsStand
  <2>3. d.by # 0 => ~(Kid \in Listed' /\ tracked'[Kid].by # d.by)
    BY <1>5, <1>7, <2>2 DEF CreationStands
  <2>4. QED
    BY <1>1, <1>3, <1>7, <2>1, <2>2, <2>3 DEF CreationStands, Navigated
<1>15. HoldsStand'
  <2>1. ScriptRunsInItsFrame'
    BY <1>3, <1>4 DEF HoldsStand, ScriptRunsInItsFrame
  <2>2. ASSUME Kid \in Listed', tracked'[Kid].by = 0, tracked'[Kid].ctx # 0
        PROVE  /\ <<0, tracked'[Kid].ctx, Kid>> \in filed'
               /\ Held' \in contexts' \/ Held' \in dying' \/ Due(Destroyed(Held))' \/ Due(On("cleared", 0))'
    <3>1. Kid \in Listed /\ tracked'[Kid] = tracked[Kid] /\ tracked[Kid].by = 0
      BY <1>5, <2>2
    <3>2. Held' = Held
      BY <3>1 DEF Held
    <3>5. /\ <<0, tracked[Kid].ctx, Kid>> \in filed
          /\ Held \in contexts \/ Held \in dying \/ Due(Destroyed(Held)) \/ Due(On("cleared", 0))
      BY <1>4, <2>2, <3>1 DEF HoldsStand
    <3>7. QED
      BY <1>1, <1>3, <1>7, <3>1, <3>2, <3>5
  <2>4. QED
    BY <2>1, <2>2 DEF HoldsStand
<1>16. LatestStands'
  <2>1. SUFFICES ASSUME NEW k \in contexts, Reported(k)' PROVE Settles(k)'
    BY <1>3 DEF LatestStands
  <2>2. Settles(k) /\ k.default /\ k \in Worlds
    BY <1>3, <1>4, <2>1 DEF LatestStands, Reported, FrameTypes
  <2>3. \A e : Upsets(k, e)' = Upsets(k, e)
    BY DEF Upsets, Worlds
  <2>4. CASE Due(Created(k)) /\ \A e \in Tellings : Upsets(k, e) => ~Follows(e, Created(k))
    <3>1. Due(Created(k))'
      BY <1>1, <1>7, <2>4
    <3>2. QED
      BY <1>1, <2>3, <2>4, <3>1 DEF Settles
  <2>5. CASE /\ \A e \in Tellings : Upsets(k, e) => ~Due(e)
             /\ k.frame \in Listed /\ tracked[k.frame].by = k.by => tracked[k.frame].ctx = k.id
    <3>1. ~Upsets(k, Head(inFlight))
      BY <1>1, <2>5
    <3>2. k.frame \in Listed' /\ tracked'[k.frame].by = k.by => tracked'[k.frame].ctx = k.id
      <4>1. k.frame = Top \/ g = Top
        BY <1>7, <2>2, <3>1 DEF Upsets, Worlds
      <4>2. CASE k.frame = Top
        BY <1>4, <1>5, <2>5, <4>2 DEF FrameTypes
      <4>3. CASE g = Top /\ k.frame = Kid
        BY <1>5, <4>3 DEF Top, Kid
      <4>4. QED
        BY <2>2, <4>1, <4>2, <4>3 DEF Worlds
    <3>3. QED
      BY <1>1, <2>3, <2>5, <3>2 DEF Settles
  <2>7. QED
    BY <2>2, <2>4, <2>5 DEF Settles
<1>20. QED
  BY <1>1, <1>10, <1>11, <1>12, <1>13, <1>14, <1>15, <1>16 DEF FrameInv

LEMMA SwappedKeeps ==
  ASSUME FrameInv, handle_frame_detached
  PROVE  FrameInv'
<1>1. /\ Head(inFlight) \in Tellings /\ inFlight' \in Seq(Tellings) /\ Due(Head(inFlight))
      /\ \A e : Due(e)' => Due(e) /\ Follows(e, Head(inFlight))
      /\ \A e : Due(e) => e = Head(inFlight) \/ Due(e)'
      /\ \A d, e : Follows(e, d)' => Follows(e, d) /\ Due(d)' /\ Due(e)'
      /\ \A d, e : Follows(e, d) => Follows(e, d)' \/ (d = Head(inFlight) /\ Due(e)')
      /\ \A d, e : Follows(e, d) => Due(d) /\ Due(e)'
      /\ \A k : Mentioned(k)' => Mentioned(k)
      /\ WorldsStand' /\ BuriedStand'
      /\ \A k \in Worlds : Mentioned(k)' => k.id \in 1..given'[k.by]
      /\ \A k, d \in Worlds : Mentioned(k)' /\ Mentioned(d)' /\ k.by = d.by /\ k.id = d.id => k = d
  BY ConsumedKeeps DEF handle_frame_detached, Takes
<1>2. Head(inFlight).ev = "swapped" /\ Head(inFlight) = On("swapped", Head(inFlight).of)
  BY <1>1, TellingsAre DEF handle_frame_detached, Takes
<1>3. /\ home' = home /\ contexts' = contexts /\ dying' = dying /\ given' = given
      /\ allFrames' = allFrames /\ chosen' = chosen /\ ran' = ran
      /\ setup' = setup /\ filed' = filed
      /\ selected' = IF selected = Kid THEN None ELSE selected
      /\ tracked' = Without(Kid)
  BY DEF handle_frame_detached, Takes, chrome, Keeps
<1>4. /\ FrameTypes /\ WorldsStand /\ BuriedStand /\ IdsStand /\ SessionsStand /\ NavigationsStand
      /\ CreationsStand /\ HoldsStand /\ LatestStands
  BY DEF FrameInv
<1>5. /\ Listed' = {Top} /\ tracked' \in [Listed' -> [by : Processes, ctx : Nat]]
      /\ tracked'[Top] = tracked[Top] /\ Kid \notin Listed' /\ Top \in Listed
  <2>1. Listed \in {{Top}, {Top, Kid}} /\ tracked \in [Listed -> [by : Processes, ctx : Nat]] /\ Top # Kid
    BY <1>4 DEF FrameTypes, Top, Kid
  <2>2. tracked' = [f \in Listed \ {Kid} |-> tracked[f]]
    BY <1>3 DEF Without
  <2>3. QED
    BY <2>1, <2>2 DEF Listed
<1>7. /\ \A a, s : a # "swapped" => On(a, s) # Head(inFlight)
      /\ \A c : Created(c) # Head(inFlight) /\ Destroyed(c) # Head(inFlight)
  BY <1>2, TellingsDiffer
<1>10. FrameTypes'
  <2>1. selected' \in {None} \union Listed' /\ chosen' \in {None, Top, Kid}
    BY <1>3, <1>4, <1>5 DEF FrameTypes
  <2>2. QED
    BY <1>1, <1>3, <1>4, <1>5, <2>1 DEF FrameTypes
<1>11. IdsStand'
  <2>1. \A f \in Listed' : Seated(f)' => f \in Listed /\ Seated(f) /\ tracked'[f] = tracked[f]
    BY <1>3, <1>5 DEF Seated
  <2>2. QED
    BY <1>1, <1>3, <1>4, <2>1 DEF IdsStand, Worlds
<1>12. SessionsStand'
  <2>1. \A r \in Sessions : SessionStands(r)'
    BY <1>1, <1>3, <1>4, <1>5, <1>7 DEF SessionsStand, SessionStands, Busy
  <2>2. \A r, s \in Sessions : r # s => SessionsApart(r, s)'
    BY <1>1, <1>3, <1>4, <1>7 DEF SessionsStand, SessionsApart, Busy
  <2>3. QED
    BY <2>1, <2>2 DEF SessionsStand, Sessions
<1>13. NavigationsStand'
  BY <1>1, <1>3, <1>4, <1>5, <1>7 DEF NavigationsStand, Navigated
<1>14. CreationsStand'
  <2>1. SUFFICES ASSUME NEW d \in Worlds, Due(Created(d))' PROVE CreationStands(d)'
    BY DEF CreationsStand
  <2>2. CreationStands(d)
    BY <1>1, <1>4, <2>1 DEF CreationsStand
  <2>3. Created(d) # Head(inFlight)
    BY <1>7
  <2>4. QED
    BY <1>1, <1>3, <1>5, <2>1, <2>2, <2>3 DEF CreationStands, Navigated
<1>15. HoldsStand'
  <2>1. ScriptRunsInItsFrame'
    BY <1>3, <1>4 DEF HoldsStand, ScriptRunsInItsFrame
  <2>4. QED
    BY <1>5, <2>1 DEF HoldsStand
<1>16. LatestStands'
  <2>1. SUFFICES ASSUME NEW k \in contexts, Reported(k)' PROVE Settles(k)'
    BY <1>3 DEF LatestStands
  <2>2. Settles(k) /\ k.default /\ k \in Worlds
    BY <1>3, <1>4, <2>1 DEF LatestStands, Reported, FrameTypes
  <2>3. \A e : Upsets(k, e)' = Upsets(k, e)
    BY DEF Upsets, Worlds
  <2>4. CASE Due(Created(k)) /\ \A e \in Tellings : Upsets(k, e) => ~Follows(e, Created(k))
    <3>1. Due(Created(k))'
      BY <1>1, <1>7, <2>4
    <3>2. QED
      BY <1>1, <2>3, <2>4, <3>1 DEF Settles
  <2>5. CASE /\ \A e \in Tellings : Upsets(k, e) => ~Due(e)
             /\ k.frame \in Listed /\ tracked[k.frame].by = k.by => tracked[k.frame].ctx = k.id
    <3>1. ~Upsets(k, Head(inFlight))
      BY <1>1, <2>5
    <3>2. k.frame \in Listed' /\ tracked'[k.frame].by = k.by => tracked'[k.frame].ctx = k.id
      BY <1>5, <2>5
    <3>3. QED
      BY <1>1, <2>3, <2>5, <3>2 DEF Settles
  <2>7. QED
    BY <2>2, <2>4, <2>5 DEF Settles
<1>20. QED
  BY <1>1, <1>10, <1>11, <1>12, <1>13, <1>14, <1>15, <1>16 DEF FrameInv

LEMMA TreeReadKeeps ==
  ASSUME FrameInv, TreeRead
  PROVE  FrameInv'
<1>1. /\ Head(inFlight) \in Tellings /\ inFlight' \in Seq(Tellings) /\ Due(Head(inFlight))
      /\ \A e : Due(e)' => Due(e) /\ Follows(e, Head(inFlight))
      /\ \A e : Due(e) => e = Head(inFlight) \/ Due(e)'
      /\ \A d, e : Follows(e, d)' => Follows(e, d) /\ Due(d)' /\ Due(e)'
      /\ \A d, e : Follows(e, d) => Follows(e, d)' \/ (d = Head(inFlight) /\ Due(e)')
      /\ \A d, e : Follows(e, d) => Due(d) /\ Due(e)'
      /\ \A k : Mentioned(k)' => Mentioned(k)
      /\ WorldsStand' /\ BuriedStand'
      /\ \A k \in Worlds : Mentioned(k)' => k.id \in 1..given'[k.by]
      /\ \A k, d \in Worlds : Mentioned(k)' /\ Mentioned(d)' /\ k.by = d.by /\ k.id = d.id => k = d
  BY ConsumedKeeps DEF TreeRead, Takes
<1>2. PICK p \in Sessions : Head(inFlight) = On("tree", p)
  BY <1>1, TellingsAre DEF TreeRead, Takes
<1>3. /\ home' = home /\ contexts' = contexts /\ dying' = dying /\ given' = given
      /\ allFrames' = allFrames /\ chosen' = chosen /\ ran' = ran
      /\ tracked' = tracked /\ filed' = filed /\ selected' = selected
      /\ setup' = [setup EXCEPT ![p] = IF @ = "reading" THEN "read" ELSE @]
  <2>1. Head(inFlight).of = p
    BY <1>2 DEF On
  <2>2. QED
    BY <2>1 DEF TreeRead, Takes, chrome, Keeps
<1>4. /\ FrameTypes /\ WorldsStand /\ BuriedStand /\ IdsStand /\ SessionsStand /\ NavigationsStand
      /\ CreationsStand /\ HoldsStand /\ LatestStands
  BY DEF FrameInv
<1>5. Listed' = Listed
  BY <1>3 DEF Listed
<1>6. /\ setup' \in [Processes -> {"none", "reading", "read", "on", "over"}] /\ setup'[0] = "on"
      /\ \A r \in Processes : setup'[r] = setup[r] \/ (r = p /\ setup[r] = "reading" /\ setup'[r] = "read")
  <2>1. setup \in [Processes -> {"none", "reading", "read", "on", "over"}] /\ setup[0] = "on" /\ p \in Processes /\ p # 0 /\ 0 \in Processes
    BY <1>4, RenderersAssumption DEF FrameTypes, Sessions, Processes
  <2>2. QED
    BY <1>3, <2>1
<1>7. /\ \A a, s : a # "tree" => On(a, s) # Head(inFlight)
      /\ \A c : Created(c) # Head(inFlight) /\ Destroyed(c) # Head(inFlight)
  BY <1>2, TellingsDiffer
<1>8. \A r \in Sessions : /\ Busy(r)' <=> Busy(r)
                          /\ setup'[r] = "none" <=> setup[r] = "none"
                          /\ setup'[r] = "on" <=> setup[r] = "on"
  BY <1>6 DEF Busy, Sessions
<1>10. FrameTypes'
  BY <1>1, <1>3, <1>4, <1>5, <1>6 DEF FrameTypes
<1>11. IdsStand'
  BY <1>1, <1>3, <1>4, <1>5 DEF IdsStand, Seated
<1>12. SessionsStand'
  <2>1. \A r \in Sessions : SessionStands(r)'
    BY <1>1, <1>3, <1>4, <1>5, <1>7, <1>8 DEF SessionsStand, SessionStands
  <2>2. \A r, s \in Sessions : r # s => SessionsApart(r, s)'
    BY <1>1, <1>3, <1>4, <1>7, <1>8 DEF SessionsStand, SessionsApart
  <2>3. QED
    BY <2>1, <2>2 DEF SessionsStand, Sessions
<1>13. NavigationsStand'
  <2>1. home \in Sessions /\ setup'[home] \in {"read", "on"} => ~Due(Navigated)'
    <3>1. CASE home = p
      BY <1>1, <1>2, <1>4, <3>1 DEF NavigationsStand, Navigated
    <3>2. CASE home # p
      BY <1>1, <1>4, <1>6, <3>2 DEF NavigationsStand, Navigated, Sessions
    <3>3. QED
      BY <3>1, <3>2
  <2>2. QED
    BY <1>1, <1>3, <1>4, <1>5, <1>7, <1>8, <2>1 DEF NavigationsStand, Navigated, Sessions
<1>14. CreationsStand'
  <2>1. SUFFICES ASSUME NEW d \in Worlds, Due(Created(d))' PROVE CreationStands(d)'
    BY DEF CreationsStand
  <2>2. CreationStands(d) /\ d.by \in Processes
    BY <1>1, <1>4, <2>1 DEF CreationsStand, Worlds
  <2>3. QED
    BY <1>1, <1>3, <1>5, <1>7, <1>8, <2>1, <2>2 DEF CreationStands, Navigated, Sessions
<1>15. HoldsStand'
  <2>1. ScriptRunsInItsFrame'
    BY <1>3, <1>4 DEF HoldsStand, ScriptRunsInItsFrame
  <2>2. ASSUME Kid \in Listed', tracked'[Kid].by = 0, tracked'[Kid].ctx # 0
        PROVE  /\ <<0, tracked'[Kid].ctx, Kid>> \in filed'
               /\ Held' \in contexts' \/ Held' \in dying' \/ Due(Destroyed(Held))' \/ Due(On("cleared", 0))'
    <3>1. Kid \in Listed /\ tracked'[Kid] = tracked[Kid] /\ tracked[Kid].by = 0
      BY <1>3, <1>5, <2>2
    <3>2. Held' = Held
      BY <3>1 DEF Held
    <3>5. /\ <<0, tracked[Kid].ctx, Kid>> \in filed
          /\ Held \in contexts \/ Held \in dying \/ Due(Destroyed(Held)) \/ Due(On("cleared", 0))
      BY <1>4, <2>2, <3>1 DEF HoldsStand
    <3>7. QED
      BY <1>1, <1>3, <1>7, <3>1, <3>2, <3>5
  <2>4. QED
    BY <2>1, <2>2 DEF HoldsStand
<1>16. LatestStands'
  <2>1. SUFFICES ASSUME NEW k \in contexts, Reported(k)' PROVE Settles(k)'
    BY <1>3 DEF LatestStands
  <2>2. Settles(k) /\ k.default /\ k \in Worlds
    <3>1. setup[k.by] = "on"
      BY <1>4, <1>6, <2>1 DEF Reported, FrameTypes, Worlds
    <3>2. QED
      BY <1>4, <2>1, <3>1 DEF LatestStands, Reported, FrameTypes
  <2>3. \A e : Upsets(k, e)' = Upsets(k, e)
    BY DEF Upsets, Worlds
  <2>4. CASE Due(Created(k)) /\ \A e \in Tellings : Upsets(k, e) => ~Follows(e, Created(k))
    <3>1. Due(Created(k))'
      BY <1>1, <1>7, <2>4
    <3>2. QED
      BY <1>1, <2>3, <2>4, <3>1 DEF Settles
  <2>5. CASE /\ \A e \in Tellings : Upsets(k, e) => ~Due(e)
             /\ k.frame \in Listed /\ tracked[k.frame].by = k.by => tracked[k.frame].ctx = k.id
    <3>1. ~Upsets(k, Head(inFlight))
      BY <1>1, <2>5
    <3>2. k.frame \in Listed' /\ tracked'[k.frame].by = k.by => tracked'[k.frame].ctx = k.id
      BY <1>3, <1>5, <2>5
    <3>3. QED
      BY <1>1, <2>3, <2>5, <3>2 DEF Settles
  <2>7. QED
    BY <2>2, <2>4, <2>5 DEF Settles
<1>20. QED
  BY <1>1, <1>10, <1>11, <1>12, <1>13, <1>14, <1>15, <1>16 DEF FrameInv

LEMMA DroppedKeeps ==
  ASSUME FrameInv, SessionDropped
  PROVE  FrameInv'
<1>1. /\ Head(inFlight) \in Tellings /\ inFlight' \in Seq(Tellings) /\ Due(Head(inFlight))
      /\ \A e : Due(e)' => Due(e) /\ Follows(e, Head(inFlight))
      /\ \A e : Due(e) => e = Head(inFlight) \/ Due(e)'
      /\ \A d, e : Follows(e, d)' => Follows(e, d) /\ Due(d)' /\ Due(e)'
      /\ \A d, e : Follows(e, d) => Follows(e, d)' \/ (d = Head(inFlight) /\ Due(e)')
      /\ \A d, e : Follows(e, d) => Due(d) /\ Due(e)'
      /\ \A k : Mentioned(k)' => Mentioned(k)
      /\ WorldsStand' /\ BuriedStand'
      /\ \A k \in Worlds : Mentioned(k)' => k.id \in 1..given'[k.by]
      /\ \A k, d \in Worlds : Mentioned(k)' /\ Mentioned(d)' /\ k.by = d.by /\ k.id = d.id => k = d
  BY ConsumedKeeps DEF SessionDropped, Takes
<1>2. PICK p \in Sessions : Head(inFlight) = On("detached", p) \/ Head(inFlight) = On("failed", p)
  BY <1>1, TellingsAre DEF SessionDropped, Takes
<1>3. /\ home' = home /\ contexts' = contexts /\ dying' = dying /\ given' = given
      /\ allFrames' = allFrames /\ chosen' = chosen /\ ran' = ran
      /\ filed' = filed /\ selected' = IF chosen \in DOMAIN tracked' THEN chosen ELSE None
      /\ setup' = [setup EXCEPT ![p] = "over"]
      /\ tracked' = IF Kid \in Listed /\ tracked[Kid].by = p THEN Without(Kid) ELSE tracked
  <2>1. Head(inFlight).of = p
    BY <1>2 DEF On
  <2>2. QED
    BY <2>1 DEF SessionDropped, Takes, chrome, Keeps, Resolve
<1>4. /\ FrameTypes /\ WorldsStand /\ BuriedStand /\ IdsStand /\ SessionsStand /\ NavigationsStand
      /\ CreationsStand /\ HoldsStand /\ LatestStands
  BY DEF FrameInv
<1>5. /\ Listed' \in {{Top}, {Top, Kid}} /\ tracked' \in [Listed' -> [by : Processes, ctx : Nat]]
      /\ tracked'[Top] = tracked[Top]
      /\ Kid \in Listed' => Kid \in Listed /\ tracked'[Kid] = tracked[Kid] /\ tracked[Kid].by # p
  <2>1. Listed \in {{Top}, {Top, Kid}} /\ tracked \in [Listed -> [by : Processes, ctx : Nat]] /\ Top # Kid
    BY <1>4 DEF FrameTypes, Top, Kid
  <2>2. CASE Kid \in Listed /\ tracked[Kid].by = p
    <3>1. tracked' = [f \in Listed \ {Kid} |-> tracked[f]]
      BY <1>3, <2>2 DEF Without
    <3>2. QED
      BY <2>1, <2>2, <3>1 DEF Listed
  <2>3. CASE ~(Kid \in Listed /\ tracked[Kid].by = p)
    BY <1>3, <2>1, <2>3 DEF Listed
  <2>4. QED
    BY <2>2, <2>3
<1>6. /\ setup' \in [Processes -> {"none", "reading", "read", "on", "over"}] /\ setup'[0] = "on"
      /\ \A r \in Processes : setup'[r] = IF r = p THEN "over" ELSE setup[r]
      /\ p # 0 /\ p \in Processes
  <2>1. setup \in [Processes -> {"none", "reading", "read", "on", "over"}] /\ setup[0] = "on" /\ p \in Processes /\ p # 0 /\ 0 \in Processes
    BY <1>4, RenderersAssumption DEF FrameTypes, Sessions, Processes
  <2>2. QED
    BY <1>3, <2>1
<1>7. /\ \A a, s : a \notin {"detached", "failed"} \/ s # p => On(a, s) # Head(inFlight)
      /\ \A c : Created(c) # Head(inFlight) /\ Destroyed(c) # Head(inFlight)
      /\ \A f \in Listed' : f \in {Top, Kid}
  BY <1>2, <1>5, TellingsDiffer
<1>8. /\ \A r \in Sessions : Busy(r)' <=> r # p /\ Busy(r)
      /\ home # p /\ SessionStands(p) /\ ~Due(On("attached", p))'
  <2>1. \A r \in Sessions : Busy(r)' <=> r # p /\ Busy(r)
    BY <1>6 DEF Busy, Sessions
  <2>2. SessionStands(p)
    BY <1>4 DEF SessionsStand
  <2>3. home # p /\ ~Due(On("attached", p))'
    BY <1>1, <1>2, <2>2 DEF SessionStands
  <2>4. QED
    BY <2>1, <2>2, <2>3
<1>10. FrameTypes'
  <2>1. selected' \in {None} \union Listed' /\ chosen' \in {None, Top, Kid}
    BY <1>3, <1>4 DEF FrameTypes, Listed
  <2>2. QED
    BY <1>1, <1>3, <1>4, <1>5, <1>6, <2>1 DEF FrameTypes
<1>11. IdsStand'
  <2>1. \A f \in Listed' : Seated(f)' => f \in Listed /\ Seated(f) /\ tracked'[f] = tracked[f]
    BY <1>3, <1>4, <1>5, <1>7 DEF Seated, FrameTypes
  <2>2. QED
    BY <1>1, <1>3, <1>4, <2>1 DEF IdsStand, Worlds
<1>12. SessionsStand'
  <2>1. SessionStands(p)'
    <3>1. setup'[p] = "over" /\ ~Busy(p)'
      BY <1>6, <1>8
    <3>2. given[p] # 0 /\ allFrames
      BY <1>1, <1>2, <1>4, <1>8 DEF SessionStands, FrameTypes
    <3>3. QED
      BY <1>1, <1>3, <1>5, <1>8, <3>1, <3>2 DEF SessionStands
  <2>2. ASSUME NEW r \in Sessions, r # p PROVE SessionStands(r)'
    <3>1. setup'[r] = setup[r] /\ (Busy(r)' <=> Busy(r)) /\ SessionStands(r)
      BY <1>4, <1>6, <1>8, <2>2 DEF SessionsStand, Sessions
    <3>2. \A a : On(a, r) # Head(inFlight)
      BY <1>7, <2>2
    <3>3. QED
      BY <1>1, <1>3, <1>5, <3>1, <3>2 DEF SessionStands
  <2>3. ASSUME NEW r \in Sessions, NEW s \in Sessions, r # s PROVE SessionsApart(r, s)'
    <3>1. SessionsApart(r, s)
      BY <1>4, <2>3 DEF SessionsStand
    <3>2. CASE r = p
      BY <1>1, <1>7, <1>8, <3>1, <3>2 DEF SessionsApart
    <3>3. CASE s = p
      BY <1>1, <1>7, <1>8, <3>1, <3>3 DEF SessionsApart
    <3>4. CASE r # p /\ s # p
      BY <1>1, <1>7, <1>8, <3>1, <3>4 DEF SessionsApart
    <3>5. QED
      BY <3>2, <3>3, <3>4
  <2>4. QED
    BY <2>1, <2>2, <2>3 DEF SessionsStand, Sessions
<1>13. NavigationsStand'
  <2>1. home \in Sessions => setup'[home] = setup[home]
    BY <1>6, <1>8 DEF Sessions
  <2>2. QED
    BY <1>1, <1>3, <1>4, <1>5, <1>7, <2>1 DEF NavigationsStand, Navigated
<1>14. CreationsStand'
  <2>1. SUFFICES ASSUME NEW d \in Worlds, Due(Created(d))' PROVE CreationStands(d)'
    BY DEF CreationsStand
  <2>2. CreationStands(d) /\ Follows(Created(d), Head(inFlight)) /\ d.by \in Processes
    BY <1>1, <1>4, <2>1 DEF CreationsStand, Worlds
  <2>3. d.by # 0 => d.by # p
    BY <1>2, <2>2 DEF CreationStands
  <2>4. (d.by # 0 => setup'[d.by] = setup[d.by]) /\ (home \in Sessions => setup'[home] = setup[home])
    BY <1>6, <1>8, <2>2, <2>3 DEF Sessions
  <2>5. QED
    BY <1>1, <1>3, <1>5, <1>7, <2>2, <2>4 DEF CreationStands, Navigated
<1>15. HoldsStand'
  <2>1. ScriptRunsInItsFrame'
    BY <1>3, <1>4 DEF HoldsStand, ScriptRunsInItsFrame
  <2>2. ASSUME Kid \in Listed', tracked'[Kid].by = 0, tracked'[Kid].ctx # 0
        PROVE  /\ <<0, tracked'[Kid].ctx, Kid>> \in filed'
               /\ Held' \in contexts' \/ Held' \in dying' \/ Due(Destroyed(Held))' \/ Due(On("cleared", 0))'
    <3>1. Kid \in Listed /\ tracked'[Kid] = tracked[Kid] /\ tracked[Kid].by = 0
      BY <1>3, <1>5, <2>2
    <3>2. Held' = Held
      BY <3>1 DEF Held
    <3>5. /\ <<0, tracked[Kid].ctx, Kid>> \in filed
          /\ Held \in contexts \/ Held \in dying \/ Due(Destroyed(Held)) \/ Due(On("cleared", 0))
      BY <1>4, <2>2, <3>1 DEF HoldsStand
    <3>7. QED
      BY <1>1, <1>3, <1>7, <3>1, <3>2, <3>5
  <2>4. QED
    BY <2>1, <2>2 DEF HoldsStand
<1>16. LatestStands'
  <2>1. SUFFICES ASSUME NEW k \in contexts, Reported(k)' PROVE Settles(k)'
    BY <1>3 DEF LatestStands
  <2>2. Settles(k) /\ k.default /\ k \in Worlds
    <3>1. setup[k.by] = "on"
      BY <1>4, <1>6, <2>1 DEF Reported, FrameTypes, Worlds
    <3>2. QED
      BY <1>4, <2>1, <3>1 DEF LatestStands, Reported, FrameTypes
  <2>3. \A e : Upsets(k, e)' = Upsets(k, e)
    BY DEF Upsets, Worlds
  <2>4. CASE Due(Created(k)) /\ \A e \in Tellings : Upsets(k, e) => ~Follows(e, Created(k))
    <3>1. Due(Created(k))'
      BY <1>1, <1>7, <2>4
    <3>2. QED
      BY <1>1, <2>3, <2>4, <3>1 DEF Settles
  <2>5. CASE /\ \A e \in Tellings : Upsets(k, e) => ~Due(e)
             /\ k.frame \in Listed /\ tracked[k.frame].by = k.by => tracked[k.frame].ctx = k.id
    <3>1. ~Upsets(k, Head(inFlight))
      BY <1>1, <2>5
    <3>2. k.frame \in Listed' /\ tracked'[k.frame].by = k.by => tracked'[k.frame].ctx = k.id
      <4>1. k.frame \in {Top, Kid} /\ Top \in Listed
        BY <1>4, <2>2 DEF Worlds, FrameTypes
      <4>2. QED
        BY <1>5, <1>7, <2>5, <4>1
    <3>3. QED
      BY <1>1, <2>3, <2>5, <3>2 DEF Settles
  <2>7. QED
    BY <2>2, <2>4, <2>5 DEF Settles
<1>20. QED
  BY <1>1, <1>10, <1>11, <1>12, <1>13, <1>14, <1>15, <1>16 DEF FrameInv

(* A question of a handler is answered behind what has been sent.          *)
LEMMA AnsweredIs ==
  ASSUME inFlight \in Seq(Tellings), inFlight # <<>>, NEW x \in Tellings, inFlight' = Tail(inFlight) \o <<x>>
  PROVE  /\ Head(inFlight) \in Tellings /\ inFlight' \in Seq(Tellings) /\ Due(Head(inFlight)) /\ Due(x)'
         /\ \A e : Due(e)' => e = x \/ (Due(e) /\ Follows(e, Head(inFlight)))
         /\ \A e : Due(e) => e = Head(inFlight) \/ Due(e)'
         /\ \A d, e : Follows(e, d)' => Follows(e, d) \/ e = x
         /\ \A d, e : Follows(e, d) => Follows(e, d)' \/ d = Head(inFlight)
         /\ \A d, e : Follows(e, d) => Due(d) /\ Due(e)'
<1> DEFINE h == Head(inFlight)
           s == Tail(inFlight)
<1>1. /\ h \in Tellings /\ s \in Seq(Tellings)
      /\ \A e : Within(e, inFlight) <=> e = h \/ Within(e, s)
      /\ \A d, e : Behind(d, e, inFlight) <=> Behind(d, e, s) \/ (d = h /\ Within(e, s))
  BY WithinTail
<1>2. \A d, e : Behind(d, e, s) => Within(d, s) /\ Within(e, s)
  BY <1>1, BothWithin
<1>3. <<x>> \in Seq(Tellings)
  OBVIOUS
<1>4. /\ inFlight' \in Seq(Tellings)
      /\ \A e : Within(e, s \o <<x>>) <=> Within(e, s) \/ Within(e, <<x>>)
      /\ \A d, e : Behind(d, e, s \o <<x>>) <=> Behind(d, e, s) \/ Behind(d, e, <<x>>) \/ (Within(d, s) /\ Within(e, <<x>>))
  BY <1>1, <1>3, WithinConcat, ConcatProperties
<1>5. \A e : Due(e)' <=> Within(e, s \o <<x>>)
  BY DEF Due
<1>6. \A d, e : Follows(e, d)' <=> Behind(d, e, s \o <<x>>)
  BY DEF Follows
<1>7. \A d, e : (Due(e) <=> Within(e, inFlight)) /\ (Follows(e, d) <=> Behind(d, e, inFlight))
  BY DEF Due, Follows
<1>8. (\A e : Within(e, <<x>>) <=> e = x) /\ (\A d, e : ~Behind(d, e, <<x>>))
  BY WithinOne
<1> HIDE DEF h, s
<1>9. /\ h \in Tellings /\ inFlight' \in Seq(Tellings) /\ Due(h) /\ Due(x)'
      /\ \A e : Due(e)' => e = x \/ (Due(e) /\ Follows(e, h))
      /\ \A e : Due(e) => e = h \/ Due(e)'
      /\ \A d, e : Follows(e, d)' => Follows(e, d) \/ e = x
      /\ \A d, e : Follows(e, d) => Follows(e, d)' \/ d = h
      /\ \A d, e : Follows(e, d) => Due(d) /\ Due(e)'
  <2>1. \A e : Due(e)' <=> Within(e, s) \/ e = x
    BY <1>4, <1>5, <1>8
  <2>2. \A d, e : Follows(e, d)' <=> Behind(d, e, s) \/ (Within(d, s) /\ e = x)
    BY <1>4, <1>6, <1>8
  <2>3. \A e : Due(e) <=> e = h \/ Within(e, s)
    BY <1>1, <1>7
  <2>4. \A d, e : Follows(e, d) <=> Behind(d, e, s) \/ (d = h /\ Within(e, s))
    BY <1>1, <1>7
  <2>5. \A d, e : Follows(e, d) => Due(d) /\ Due(e)'
    BY <1>2, <2>1, <2>3, <2>4
  <2>6. h \in Tellings /\ inFlight' \in Seq(Tellings) /\ Due(h) /\ Due(x)'
    BY <1>1, <1>4, <2>1, <2>3
  <2>7. QED
    BY <2>1, <2>2, <2>3, <2>4, <2>5, <2>6
<1>10. QED
  BY <1>9 DEF h

LEMMA AttachedKeeps ==
  ASSUME FrameInv, Attached
  PROVE  FrameInv'
<1>2. PICK p \in Sessions : Head(inFlight) = On("attached", p)
  <2>1. Head(inFlight) \in Tellings
    BY WithinTail DEF Attached, Takes, FrameInv, FrameTypes
  <2>2. QED
    BY <2>1, TellingsAre DEF Attached, Takes
<1>3. /\ home' = home /\ contexts' = contexts /\ dying' = dying /\ given' = given
      /\ allFrames' = allFrames /\ chosen' = chosen /\ ran' = ran
      /\ tracked' = tracked /\ filed' = filed /\ selected' = selected
      /\ setup' = [setup EXCEPT ![p] = "reading"]
      /\ inFlight # <<>>
      /\ inFlight' = Tail(inFlight) \o <<IF home = p THEN On("tree", p) ELSE On("failed", p)>>
  <2>1. Head(inFlight).of = p
    BY <1>2 DEF On
  <2>2. QED
    BY <2>1 DEF Attached, Takes, chrome, Keeps, Asks
<1>4. /\ FrameTypes /\ WorldsStand /\ BuriedStand /\ IdsStand /\ SessionsStand /\ NavigationsStand
      /\ CreationsStand /\ HoldsStand /\ LatestStands
  BY DEF FrameInv
<1> DEFINE x0 == IF home = p THEN On("tree", p) ELSE On("failed", p)
<1>17. PICK x \in Tellings : x = x0
  BY TellingsAre
<1> HIDE DEF x0
<1>18. /\ inFlight' = Tail(inFlight) \o <<x>>
       /\ home = p => x = On("tree", p)
       /\ home # p => x = On("failed", p)
  BY <1>3, <1>17 DEF x0
<1>1. /\ Head(inFlight) \in Tellings /\ inFlight' \in Seq(Tellings) /\ Due(Head(inFlight)) /\ Due(x)'
      /\ \A e : Due(e)' => e = x \/ (Due(e) /\ Follows(e, Head(inFlight)))
      /\ \A e : Due(e) => e = Head(inFlight) \/ Due(e)'
      /\ \A d, e : Follows(e, d)' => Follows(e, d) \/ e = x
      /\ \A d, e : Follows(e, d) => Follows(e, d)' \/ d = Head(inFlight)
      /\ \A d, e : Follows(e, d) => Due(d) /\ Due(e)'
  BY <1>3, <1>4, <1>18, AnsweredIs DEF FrameTypes
<1>7. /\ \A a, s : a # "attached" \/ s # p => On(a, s) # Head(inFlight)
      /\ \A a, s : a \notin {"tree", "failed"} \/ s # p => On(a, s) # x
      /\ \A c : Created(c) # Head(inFlight) /\ Destroyed(c) # Head(inFlight) /\ Created(c) # x /\ Destroyed(c) # x
      /\ On("failed", p) # On("tree", p)
  BY <1>2, <1>18, TellingsDiffer
<1>6. \A k \in Worlds : ~Upsets(k, x)
  BY <1>7 DEF Upsets, Navigated
<1>5. /\ setup' \in [Processes -> {"none", "reading", "read", "on", "over"}] /\ setup'[0] = "on"
      /\ \A r \in Processes : setup'[r] = IF r = p THEN "reading" ELSE setup[r]
      /\ p # 0 /\ p \in Processes /\ Listed' = Listed
  <2>1. setup \in [Processes -> {"none", "reading", "read", "on", "over"}] /\ setup[0] = "on" /\ p \in Processes /\ p # 0 /\ 0 \in Processes
    BY <1>4, RenderersAssumption DEF FrameTypes, Sessions, Processes
  <2>2. QED
    BY <1>3, <2>1 DEF Listed
<1>19. /\ SessionStands(p) /\ setup[p] = "none" /\ ~Due(On("attached", p))' /\ allFrames /\ given[p] # 0
       /\ \A r \in Sessions : Busy(r)' <=> r = p \/ Busy(r)
  <2>1. SessionStands(p) /\ Due(On("attached", p))
    BY <1>1, <1>2, <1>4 DEF SessionsStand
  <2>2. setup[p] = "none" /\ ~Due(On("attached", p))' /\ allFrames /\ given[p] # 0
    BY <1>1, <1>2, <1>4, <1>7, <2>1 DEF SessionStands, FrameTypes
  <2>3. \A r \in Sessions : Busy(r)' <=> r = p \/ Busy(r)
    BY <1>5 DEF Busy, Sessions
  <2>4. QED
    BY <2>1, <2>2, <2>3
<1>8. WorldsStand'
  BY <1>3, <1>4 DEF WorldsStand
<1>9. BuriedStand'
  BY <1>1, <1>3, <1>4, <1>7 DEF BuriedStand
<1>10. FrameTypes'
  BY <1>1, <1>3, <1>4, <1>5 DEF FrameTypes
<1>11. IdsStand'
  <2>1. \A c : Mentioned(c)' => Mentioned(c)
    BY <1>1, <1>3, <1>7 DEF Mentioned
  <2>2. QED
    BY <1>3, <1>4, <1>5, <2>1 DEF IdsStand, Seated
<1>12. SessionsStand'
  <2>1. SessionStands(p)'
    <3>1. setup'[p] = "reading"
      BY <1>5
    <3>2. home = p => ~Due(On("detached", p))' /\ ~Due(On("failed", p))'
      BY <1>1, <1>7, <1>18, <1>19 DEF SessionStands
    <3>3. home # p => Due(On("detached", p))'
      BY <1>1, <1>2, <1>7, <1>19 DEF SessionStands
    <3>4. ~Follows(On("attached", p), On("attached", p))' /\ ~Follows(On("attached", p), On("detached", p))'
      BY <1>1, <1>7, <1>19 DEF SessionStands
    <3>5. Kid \in Listed /\ tracked[Kid].by = p => setup[p] = "on"
      BY <1>19 DEF SessionStands
    <3>6. QED
      BY <1>3, <1>5, <1>19, <3>1, <3>2, <3>3, <3>4, <3>5 DEF SessionStands
  <2>2. ASSUME NEW r \in Sessions, r # p PROVE SessionStands(r)'
    <3>1. setup'[r] = setup[r] /\ (Busy(r)' <=> Busy(r)) /\ SessionStands(r)
      BY <1>4, <1>5, <1>19, <2>2 DEF SessionsStand, Sessions
    <3>2. \A a : On(a, r) # Head(inFlight) /\ On(a, r) # x
      BY <1>7, <2>2
    <3>3. QED
      BY <1>1, <1>3, <1>5, <3>1, <3>2 DEF SessionStands
  <2>3. ASSUME NEW r \in Sessions, NEW s \in Sessions, r # s PROVE SessionsApart(r, s)'
    <3>1. SessionsApart(r, s) /\ SessionsApart(s, r)
      BY <1>4, <2>3 DEF SessionsStand
    <3>2. CASE r = p
      <4>1. ~Busy(s)
        BY <1>1, <1>2, <1>7, <1>19, <3>1, <3>2, <2>3 DEF SessionsApart
      <4>2. QED
        BY <1>1, <1>7, <1>19, <2>3, <3>2, <4>1 DEF SessionsApart
    <3>3. CASE s = p
      <4>1. ~Busy(r)
        BY <1>1, <1>2, <1>7, <1>19, <3>1, <3>3, <2>3 DEF SessionsApart
      <4>2. Due(On("attached", r)) => Follows(On("attached", r), On("detached", s))
        BY <1>1, <1>2, <1>7, <1>19, <3>1, <3>3 DEF SessionsApart
      <4>3. QED
        BY <1>1, <1>7, <1>19, <2>3, <3>3, <4>1, <4>2 DEF SessionsApart
    <3>4. CASE r # p /\ s # p
      BY <1>1, <1>7, <1>19, <3>1, <3>4 DEF SessionsApart
    <3>5. QED
      BY <3>2, <3>3, <3>4
  <2>4. QED
    BY <2>1, <2>2, <2>3 DEF SessionsStand, Sessions
<1>13. NavigationsStand'
  <2>1. CASE home = p
    BY <1>1, <1>2, <1>3, <1>4, <1>5, <1>7, <1>18, <1>19, <2>1 DEF NavigationsStand, Navigated
  <2>2. CASE home # p
    <3>1. home \in Sessions => setup'[home] = setup[home]
      BY <1>5, <2>2 DEF Sessions
    <3>2. QED
      BY <1>1, <1>3, <1>4, <1>5, <1>7, <2>2, <3>1 DEF NavigationsStand, Navigated
  <2>3. QED
    BY <2>1, <2>2
<1>14. CreationsStand'
  <2>1. SUFFICES ASSUME NEW d \in Worlds, Due(Created(d))' PROVE CreationStands(d)'
    BY DEF CreationsStand
  <2>2. CreationStands(d) /\ Follows(Created(d), Head(inFlight)) /\ d.by \in Processes
    BY <1>1, <1>4, <1>7, <2>1 DEF CreationsStand, Worlds
  <2>3. d.by # 0 => d.by # p
    BY <1>19, <2>2 DEF CreationStands
  <2>4. d.by # 0 => setup'[d.by] = setup[d.by]
    BY <1>5, <2>2, <2>3 DEF Sessions
  <2>5. d.frame = Kid /\ home \in Sessions /\ d.by # home => home # p
    BY <1>2, <2>2 DEF CreationStands
  <2>6. home \in Sessions /\ home # p => setup'[home] = setup[home]
    BY <1>5 DEF Sessions
  <2>7. QED
    BY <1>1, <1>3, <1>5, <1>7, <2>2, <2>4, <2>5, <2>6 DEF CreationStands, Navigated
<1>15. HoldsStand'
  <2>1. ScriptRunsInItsFrame'
    BY <1>3, <1>4 DEF HoldsStand, ScriptRunsInItsFrame
  <2>2. ASSUME Kid \in Listed', tracked'[Kid].by = 0, tracked'[Kid].ctx # 0
        PROVE  /\ <<0, tracked'[Kid].ctx, Kid>> \in filed'
               /\ Held' \in contexts' \/ Held' \in dying' \/ Due(Destroyed(Held))' \/ Due(On("cleared", 0))'
    <3>1. Kid \in Listed /\ tracked'[Kid] = tracked[Kid] /\ tracked[Kid].by = 0
      BY <1>3, <1>5, <2>2
    <3>2. Held' = Held
      BY <3>1 DEF Held
    <3>5. /\ <<0, tracked[Kid].ctx, Kid>> \in filed
          /\ Held \in contexts \/ Held \in dying \/ Due(Destroyed(Held)) \/ Due(On("cleared", 0))
      BY <1>4, <2>2, <3>1 DEF HoldsStand
    <3>7. QED
      BY <1>1, <1>3, <1>7, <3>1, <3>2, <3>5
  <2>4. QED
    BY <2>1, <2>2 DEF HoldsStand
<1>16. LatestStands'
  <2>1. SUFFICES ASSUME NEW k \in contexts, Reported(k)' PROVE Settles(k)'
    BY <1>3 DEF LatestStands
  <2>2. Settles(k) /\ k.default /\ k \in Worlds
    <3>1. setup[k.by] = "on"
      BY <1>4, <1>5, <2>1 DEF Reported, FrameTypes, Worlds
    <3>2. QED
      BY <1>4, <2>1, <3>1 DEF LatestStands, Reported, FrameTypes
  <2>3. \A e : Upsets(k, e)' = Upsets(k, e)
    BY DEF Upsets, Worlds
  <2>4. CASE Due(Created(k)) /\ \A e \in Tellings : Upsets(k, e) => ~Follows(e, Created(k))
    <3>1. Due(Created(k))'
      BY <1>1, <1>7, <2>4
    <3>2. QED
      BY <1>1, <1>6, <2>2, <2>3, <2>4, <3>1 DEF Settles
  <2>5. CASE /\ \A e \in Tellings : Upsets(k, e) => ~Due(e)
             /\ k.frame \in Listed /\ tracked[k.frame].by = k.by => tracked[k.frame].ctx = k.id
    <3>2. k.frame \in Listed' /\ tracked'[k.frame].by = k.by => tracked'[k.frame].ctx = k.id
      BY <1>3, <1>5, <2>5
    <3>3. QED
      BY <1>1, <1>6, <2>2, <2>3, <2>5, <3>2 DEF Settles
  <2>7. QED
    BY <2>2, <2>4, <2>5 DEF Settles
<1>20. QED
  BY <1>1, <1>8, <1>9, <1>10, <1>11, <1>12, <1>13, <1>14, <1>15, <1>16 DEF FrameInv

LEMMA SplicedKeeps ==
  ASSUME FrameInv, NEW p \in Sessions, Spliced(p)
  PROVE  FrameInv'
<1> DEFINE replay == [i \in 1..Len(Replay(p)) |-> Created(Replay(p)[i])]
<1>3. /\ home' = home /\ contexts' = contexts /\ dying' = dying /\ given' = given
      /\ allFrames' = allFrames /\ chosen' = chosen /\ ran' = ran
      /\ filed' = filed /\ selected' = selected /\ setup[p] = "read"
      /\ tracked' = [f \in {Top, Kid} |-> IF f = Kid THEN [by |-> p, ctx |-> 0] ELSE tracked[Top]]
      /\ setup' = [setup EXCEPT ![p] = "on"]
      /\ inFlight' = inFlight \o (IF home = p THEN replay ELSE <<On("failed", p)>>)
  BY DEF Spliced, Replay, Asks, chrome, Keeps
<1>4. /\ FrameTypes /\ WorldsStand /\ BuriedStand /\ IdsStand /\ SessionsStand /\ NavigationsStand
      /\ CreationsStand /\ HoldsStand /\ LatestStands
  BY DEF FrameInv
<1>17. /\ replay \in Seq(Tellings)
       /\ \A e : Within(e, replay) <=> \E c \in contexts : c.by = p /\ e = Created(c)
       /\ \A d, e : Behind(d, e, replay) => d # e
  BY <1>4, ReplayIs DEF FrameTypes
<1>2. PICK new \in Seq(Tellings) : /\ inFlight' = inFlight \o new
                                   /\ new = IF home = p THEN replay ELSE <<On("failed", p)>>
  <2>1. <<On("failed", p)>> \in Seq(Tellings)
    <3>1. On("failed", p) \in Tellings
      BY TellingsAre
    <3>2. QED
      BY <3>1
  <2>2. QED
    BY <1>3, <1>17, <2>1
<1>1. /\ inFlight' \in Seq(Tellings)
      /\ \A e : Due(e)' <=> Due(e) \/ Within(e, new)
      /\ \A d, e : Follows(e, d)' <=> Follows(e, d) \/ Behind(d, e, new) \/ (Due(d) /\ Within(e, new))
      /\ \A d, e : Follows(e, d) => Due(d) /\ Due(e)
      /\ \A d, e : Follows(e, d)' => Due(d)' /\ Due(e)'
      /\ \A d, e : Behind(d, e, new) => Within(d, new) /\ Within(e, new)
  BY <1>2, <1>3, <1>4, Emitted, BothWithin DEF FrameTypes
<1>6. /\ \A e : Within(e, new) =>
           \/ home # p /\ e = On("failed", p)
           \/ home = p /\ \E c \in contexts : c.by = p /\ e = Created(c)
      /\ \A c \in contexts : home = p /\ c.by = p => Within(Created(c), new)
      /\ \A d, e : Behind(d, e, new) => home = p /\ d # e
  <2>1. CASE home = p
    BY <1>2, <1>17, <2>1
  <2>2. CASE home # p
    BY <1>2, <2>2, WithinOne
  <2>3. QED
    BY <2>1, <2>2
<1> HIDE DEF replay
<1>5. /\ setup' \in [Processes -> {"none", "reading", "read", "on", "over"}] /\ setup'[0] = "on"
      /\ \A r \in Processes : setup'[r] = IF r = p THEN "on" ELSE setup[r]
      /\ p # 0 /\ p \in Processes
  <2>1. setup \in [Processes -> {"none", "reading", "read", "on", "over"}] /\ setup[0] = "on" /\ p \in Processes /\ p # 0 /\ 0 \in Processes
    BY <1>4, RenderersAssumption DEF FrameTypes, Sessions, Processes
  <2>2. QED
    BY <1>3, <2>1
<1>18. /\ Listed' = {Top, Kid} /\ tracked' \in [Listed' -> [by : Processes, ctx : Nat]]
       /\ tracked'[Top] = tracked[Top] /\ Top \in Listed /\ tracked'[Kid].by = p /\ tracked'[Kid].ctx = 0
       /\ Top # Kid /\ Listed \subseteq {Top, Kid}
  <2>1. Listed \in {{Top}, {Top, Kid}} /\ tracked \in [Listed -> [by : Processes, ctx : Nat]] /\ Top # Kid
    BY <1>4 DEF FrameTypes, Top, Kid
  <2>2. QED
    BY <1>3, <1>5, <2>1 DEF Listed
<1>7. /\ \A a, s : a # "failed" \/ s # p => ~Within(On(a, s), new)
      /\ \A a, s, e : a # "failed" \/ s # p => ~Behind(e, On(a, s), new) /\ ~Behind(On(a, s), e, new)
      /\ \A c : ~Within(Destroyed(c), new)
      /\ \A c : Within(Created(c), new) => c \in contexts /\ c.by = p /\ home = p
      /\ Within(On("failed", p), new) => home # p
  <2>1. \A c, a, s : On(a, s) # Created(c) /\ (\A d : Destroyed(d) # Created(c))
    BY TellingsDiffer
  <2>2. \A d : Destroyed(d) # On("failed", p) /\ Created(d) # On("failed", p)
    BY TellingsDiffer
  <2>3. \A a, s : On(a, s) = On("failed", p) => a = "failed" /\ s = p
    BY TellingsDiffer
  <2>4. \A c, d : Created(c) = Created(d) => c = d
    BY TellingsDiffer
  <2>5. QED
    BY <1>1, <1>6, <2>1, <2>2, <2>3, <2>4
<1>19. /\ \A r \in Sessions : Busy(r)' <=> Busy(r)
       /\ Busy(p) /\ SessionStands(p)
       /\ \A s \in Sessions : s # p => ~Busy(s) /\ setup[s] # "on" /\ setup[s] # "read"
  <2>1. \A r \in Sessions : Busy(r)' <=> Busy(r)
    BY <1>3, <1>5 DEF Busy, Sessions
  <2>2. Busy(p) /\ SessionStands(p)
    BY <1>3, <1>4 DEF Busy, SessionsStand
  <2>3. \A s \in Sessions : s # p => ~Busy(s)
    BY <1>4, <2>2 DEF SessionsStand, SessionsApart
  <2>4. QED
    BY <2>1, <2>2, <2>3 DEF Busy
<1>8. WorldsStand'
  BY <1>3, <1>4 DEF WorldsStand
<1>9. BuriedStand'
  BY <1>1, <1>3, <1>4, <1>7 DEF BuriedStand
<1>10. FrameTypes'
  <2>1. selected' \in {None} \union Listed'
    BY <1>3, <1>4, <1>18 DEF FrameTypes
  <2>2. QED
    BY <1>1, <1>3, <1>4, <1>5, <1>18, <2>1 DEF FrameTypes
<1>11. IdsStand'
  <2>1. \A c : Mentioned(c)' => Mentioned(c)
    BY <1>1, <1>3, <1>7 DEF Mentioned
  <2>3. \A f \in Listed' : Seated(f)' => f \in Listed /\ Seated(f) /\ tracked'[f] = tracked[f]
    BY <1>3, <1>4, <1>18 DEF Seated
  <2>2. QED
    BY <1>3, <1>4, <2>1, <2>3 DEF IdsStand
<1>12. SessionsStand'
  <2>1. SessionStands(p)'
    BY <1>1, <1>3, <1>5, <1>7, <1>19 DEF SessionStands
  <2>2. ASSUME NEW r \in Sessions, r # p PROVE SessionStands(r)'
    <3>1. setup'[r] = setup[r] /\ (Busy(r)' <=> Busy(r)) /\ SessionStands(r)
      BY <1>4, <1>5, <1>19, <2>2 DEF SessionsStand, Sessions
    <3>2. \A a : ~Within(On(a, r), new)
      BY <1>7, <2>2
    <3>3. QED
      BY <1>1, <1>3, <1>18, <2>2, <3>1, <3>2 DEF SessionStands
  <2>3. ASSUME NEW r \in Sessions, NEW s \in Sessions, r # s PROVE SessionsApart(r, s)'
    <3>1. SessionsApart(r, s)
      BY <1>4, <2>3 DEF SessionsStand
    <3>2. QED
      BY <1>1, <1>7, <1>19, <3>1 DEF SessionsApart
  <2>4. QED
    BY <2>1, <2>2, <2>3 DEF SessionsStand, Sessions
<1>13. NavigationsStand'
  <2>1. CASE home = p
    BY <1>1, <1>3, <1>4, <1>5, <1>7, <1>18, <1>19, <2>1 DEF NavigationsStand, Navigated
  <2>2. CASE home # p
    <3>1. home \in Sessions => setup'[home] = setup[home] /\ setup[home] \notin {"on", "read"}
      BY <1>5, <1>19, <2>2 DEF Sessions
    <3>2. QED
      BY <1>1, <1>3, <1>4, <1>7, <2>2, <3>1 DEF NavigationsStand, Navigated
  <2>3. QED
    BY <2>1, <2>2
<1>14. CreationsStand'
  <2>1. SUFFICES ASSUME NEW d \in Worlds, Due(Created(d))' PROVE CreationStands(d)'
    BY DEF CreationsStand
  <2>2. CASE Due(Created(d))
    <3>1. CreationStands(d) /\ d.by \in Processes
      BY <1>4, <2>2 DEF CreationsStand, Worlds
    <3>2. d.by = 0
      BY <1>3, <1>19, <3>1 DEF CreationStands, Sessions
    <3>3. d.frame = Kid /\ home \in Sessions => home # p /\ setup'[home] = "none"
      BY <1>3, <1>5, <1>19, <3>1, <3>2 DEF CreationStands, Sessions
    <3>4. ~Within(Created(d), new)
      BY <1>5, <1>7, <3>2
    <3>5. QED
      BY <1>1, <1>3, <1>7, <3>1, <3>2, <3>3, <3>4 DEF CreationStands
  <2>3. CASE ~Due(Created(d))
    <3>1. d \in contexts /\ d.by = p /\ home = p /\ d.frame = Kid
      <4>1. d \in contexts /\ d.by = p /\ home = p
        BY <1>1, <1>7, <2>1, <2>3
      <4>2. QED
        BY <1>4, <1>5, <4>1 DEF WorldsStand, Worlds
    <3>2. ~Due(Navigated) /\ ~Due(On("detached", p)) /\ ~Due(On("failed", p))
      BY <1>3, <1>4, <1>19, <3>1 DEF NavigationsStand, SessionStands
    <3>3. ~Follows(Created(d), Created(d))'
      BY <1>1, <1>6, <2>3
    <3>4. ~Follows(Created(d), Navigated)' /\ ~Follows(Created(d), On("detached", p))' /\ ~Follows(Created(d), On("failed", p))'
      BY <1>1, <1>7, <3>1, <3>2 DEF Navigated
    <3>5. QED
      BY <1>3, <1>5, <1>18, <3>1, <3>3, <3>4 DEF CreationStands, Top, Kid
  <2>4. QED
    BY <2>2, <2>3
<1>15. HoldsStand'
  <2>1. ScriptRunsInItsFrame'
    BY <1>3, <1>4 DEF HoldsStand, ScriptRunsInItsFrame
  <2>2. QED
    BY <1>5, <1>18, <2>1 DEF HoldsStand
<1>16. LatestStands'
  <2>1. SUFFICES ASSUME NEW k \in contexts, Reported(k)' PROVE Settles(k)'
    BY <1>3 DEF LatestStands
  <2>2. k.default /\ k \in Worlds
    BY <1>4, <2>1 DEF Reported, FrameTypes
  <2>3. \A e : Upsets(k, e)' = Upsets(k, e)
    BY DEF Upsets, Worlds
  <2>4. CASE k.by = p
    <3>1. home = p /\ k.frame = Kid /\ ~Due(Created(k))
      <4>1. home = p /\ k.frame = Kid
        BY <1>4, <1>5, <2>2, <2>4 DEF WorldsStand, Worlds
      <4>2. QED
        BY <1>3, <1>4, <1>5, <2>2, <2>4, <4>1 DEF CreationsStand, CreationStands
    <3>2. Due(Created(k))'
      BY <1>1, <1>6, <2>4, <3>1
    <3>3. ASSUME NEW e \in Tellings, Upsets(k, e), Follows(e, Created(k))' PROVE FALSE
      <4>1. Behind(Created(k), e, new)
        BY <1>1, <3>1, <3>3
      <4>2. PICK c \in contexts : c.by = p /\ e = Created(c)
        BY <1>1, <1>6, <3>1, <4>1
      <4>3. c.default /\ c.frame = Kid
        BY <3>1, <3>3, <4>2, TellingsDiffer DEF Upsets, Navigated
      <4>4. c = k
        BY <1>4, <2>2, <3>1, <4>3 DEF WorldsStand
      <4>5. QED
        BY <1>6, <4>1, <4>2, <4>4
    <3>4. QED
      BY <2>3, <3>2, <3>3 DEF Settles
  <2>5. CASE k.by # p
    <3>1. k.by = 0 /\ k.by \in Processes
      <4>1. k.by \in Processes /\ setup[k.by] = "on"
        BY <1>5, <2>1, <2>2, <2>5 DEF Reported, Worlds
      <4>2. QED
        BY <1>19, <2>5, <4>1 DEF Sessions
    <3>2. Settles(k)
      BY <1>4, <1>5, <2>1, <2>5, <3>1 DEF LatestStands, Reported
    <3>3. \A e : Upsets(k, e) => ~Within(e, new)
      <4>1. SUFFICES ASSUME NEW e, Upsets(k, e), Within(e, new) PROVE FALSE
        OBVIOUS
      <4>2. e # On("failed", p)
        BY <4>1, TellingsDiffer DEF Upsets, Navigated
      <4>3. home = p /\ \E c \in contexts : c.by = p /\ e = Created(c)
        BY <1>6, <4>1, <4>2
      <4>4. k.frame = Top
        BY <1>4, <1>5, <2>2, <3>1, <4>3 DEF WorldsStand, Worlds
      <4>5. PICK c \in contexts : c.by = p /\ e = Created(c)
        BY <4>3
      <4>6. c.frame = Kid
        BY <1>4, <1>5, <4>5 DEF WorldsStand, FrameTypes, Worlds
      <4>7. QED
        BY <1>18, <4>1, <4>4, <4>5, <4>6, TellingsDiffer DEF Upsets, Navigated
    <3>4. CASE Due(Created(k)) /\ \A e \in Tellings : Upsets(k, e) => ~Follows(e, Created(k))
      BY <1>1, <2>3, <3>3, <3>4 DEF Settles
    <3>5. CASE /\ \A e \in Tellings : Upsets(k, e) => ~Due(e)
               /\ k.frame \in Listed /\ tracked[k.frame].by = k.by => tracked[k.frame].ctx = k.id
      <4>1. k.frame \in Listed' /\ tracked'[k.frame].by = k.by => tracked'[k.frame].ctx = k.id
        BY <1>5, <1>18, <2>2, <3>1, <3>5 DEF Worlds
      <4>2. QED
        BY <1>1, <2>3, <3>3, <3>5, <4>1 DEF Settles
    <3>6. QED
      BY <3>2, <3>4, <3>5 DEF Settles
  <2>6. QED
    BY <2>4, <2>5
<1>20. QED
  BY <1>1, <1>8, <1>9, <1>10, <1>11, <1>12, <1>13, <1>14, <1>15, <1>16 DEF FrameInv

LEMMA WithinThree ==
  ASSUME NEW S, NEW s \in Seq(S), NEW t \in Seq(S), NEW u \in Seq(S), NEW v \in Seq(S)
  PROVE  /\ s \o t \o u \o v \in Seq(S)
         /\ \A e : Within(e, s \o t \o u \o v) <=> Within(e, s) \/ Within(e, t) \/ Within(e, u) \/ Within(e, v)
         /\ \A d, e : Behind(d, e, s \o t \o u \o v) <=>
              \/ Behind(d, e, s) \/ Behind(d, e, t) \/ Behind(d, e, u) \/ Behind(d, e, v)
              \/ Within(d, s) /\ (Within(e, t) \/ Within(e, u) \/ Within(e, v))
              \/ Within(d, t) /\ (Within(e, u) \/ Within(e, v))
              \/ Within(d, u) /\ Within(e, v)
<1> DEFINE z == s \o t \o u
<1>1. /\ z \in Seq(S)
      /\ \A e : Within(e, z) <=> Within(e, s) \/ Within(e, t) \/ Within(e, u)
      /\ \A d, e : Behind(d, e, z) <=>
           \/ Behind(d, e, s) \/ Behind(d, e, t) \/ Behind(d, e, u)
           \/ Within(d, s) /\ (Within(e, t) \/ Within(e, u))
           \/ Within(d, t) /\ Within(e, u)
  BY WithinTwo
<1> HIDE DEF z
<1>2. /\ z \o v \in Seq(S)
      /\ \A e : Within(e, z \o v) <=> Within(e, z) \/ Within(e, v)
      /\ \A d, e : Behind(d, e, z \o v) <=> Behind(d, e, z) \/ Behind(d, e, v) \/ (Within(d, z) /\ Within(e, v))
  BY <1>1, WithinConcat, ConcatProperties
<1>3. /\ z \o v \in Seq(S)
      /\ \A e : Within(e, z \o v) <=> Within(e, s) \/ Within(e, t) \/ Within(e, u) \/ Within(e, v)
      /\ \A d, e : Behind(d, e, z \o v) <=>
              \/ Behind(d, e, s) \/ Behind(d, e, t) \/ Behind(d, e, u) \/ Behind(d, e, v)
              \/ Within(d, s) /\ (Within(e, t) \/ Within(e, u) \/ Within(e, v))
              \/ Within(d, t) /\ (Within(e, u) \/ Within(e, v))
              \/ Within(d, u) /\ Within(e, v)
  BY <1>1, <1>2
<1>4. QED
  BY <1>3 DEF z

(* Who listens.                                                            *)
LEMMA HeardIs ==
  /\ \A c : Heard(Created(c)) <=> setup[c.by] = "on"
  /\ \A c : Heard(Destroyed(c)) <=> setup[c.by] = "on"
  /\ \A r : Heard(On("cleared", r)) <=> setup[r] = "on"
  /\ \A r : (Heard(On("attached", r)) <=> allFrames) /\ (Heard(On("detached", r)) <=> allFrames)
  /\ \A f : Heard(On("navigated", f)) /\ Heard(On("swapped", f))
BY DEF Heard, Created, Destroyed, On

(* An id that has just been given is nobody's.                             *)
LEMMA FreshIs ==
  ASSUME FrameInv, NEW f \in {Top, Kid}, NEW r \in Processes, NEW d \in BOOLEAN
  PROVE  LET n == Context(f, r, NextId(r), d)
         IN /\ n \in Worlds /\ n.frame = f /\ n.by = r /\ n.default = d /\ n.id = given[r] + 1
            /\ ~Mentioned(n)
<1> DEFINE n == Context(f, r, NextId(r), d)
<1>1. given[r] \in Nat /\ given[r] + 1 \in Nat
  BY DEF FrameInv, FrameTypes
<1>2. n \in Worlds /\ n.frame = f /\ n.by = r /\ n.default = d /\ n.id = given[r] + 1
  BY <1>1 DEF Context, NextId, Worlds
<1> HIDE DEF n
<1>3. ~Mentioned(n)
  <2>1. Mentioned(n) => n.id \in 1..given[n.by]
    BY <1>2 DEF FrameInv, IdsStand
  <2>2. QED
    BY <1>1, <1>2, <2>1
<1>4. QED
  BY <1>2, <1>3 DEF n

LEMMA GivenIds ==
  ASSUME FrameInv, NEW n \in Worlds, n.id = given[n.by] + 1, given' = [given EXCEPT ![n.by] = @ + 1],
         tracked' = tracked, \A c : Mentioned(c)' => Mentioned(c) \/ c = n,
         \A f \in Listed : Seated(f)' => Seated(f)
  PROVE  IdsStand'
<1>1. /\ given \in [Processes -> Nat] /\ n.by \in Processes /\ Listed' = Listed
      /\ \A f \in Listed : tracked[f].by \in Processes /\ tracked[f].ctx \in Nat
  BY DEF FrameInv, FrameTypes, Worlds, Listed
<1>2. \A r \in Processes : given'[r] \in Nat /\ given[r] <= given'[r] /\ given[r] \in Nat
  BY <1>1
<1>3. given'[n.by] = given[n.by] + 1
  BY <1>1
<1>4. ASSUME NEW c \in Worlds, Mentioned(c) PROVE c.id \in 1..given[c.by] /\ c.by \in Processes
  BY <1>4 DEF FrameInv, IdsStand, Worlds
<1>5. \A c \in Worlds : Mentioned(c)' => c.id \in 1..given'[c.by]
  <2>1. SUFFICES ASSUME NEW c \in Worlds, Mentioned(c)' PROVE c.id \in 1..given'[c.by]
    OBVIOUS
  <2>2. CASE c = n
    BY <1>1, <1>2, <1>3, <2>2
  <2>3. CASE Mentioned(c)
    <3>1. c.id \in 1..given[c.by] /\ c.by \in Processes
      BY <1>4, <2>3
    <3>2. QED
      BY <1>2, <3>1
  <2>4. QED
    BY <2>1, <2>2, <2>3
<1>6. \A c, d \in Worlds : Mentioned(c)' /\ Mentioned(d)' /\ c.by = d.by /\ c.id = d.id => c = d
  <2>1. SUFFICES ASSUME NEW c \in Worlds, NEW d \in Worlds, Mentioned(c)', Mentioned(d)', c.by = d.by, c.id = d.id PROVE c = d
    OBVIOUS
  <2>2. CASE Mentioned(c) /\ Mentioned(d)
    BY <2>1, <2>2 DEF FrameInv, IdsStand
  <2>3. \A e \in Worlds : Mentioned(e) => ~(e.by = n.by /\ e.id = n.id)
    BY <1>1, <1>4
  <2>4. QED
    BY <2>1, <2>2, <2>3
<1>7. \A f \in Listed : Seated(f)' => tracked[f].ctx <= given'[tracked[f].by]
  <2>1. SUFFICES ASSUME NEW f \in Listed, Seated(f)' PROVE tracked[f].ctx <= given'[tracked[f].by]
    OBVIOUS
  <2>2. tracked[f].ctx <= given[tracked[f].by]
    BY <2>1 DEF FrameInv, IdsStand
  <2>3. QED
    BY <1>1, <1>2, <2>2
<1>8. \A f \in Listed, c \in Worlds :
        Seated(f)' /\ Mentioned(c)' /\ c.by = tracked[f].by /\ c.id = tracked[f].ctx => c.frame = f /\ c.default
  <2>1. SUFFICES ASSUME NEW f \in Listed, NEW c \in Worlds, Seated(f)', Mentioned(c)', c.by = tracked[f].by, c.id = tracked[f].ctx
                 PROVE  c.frame = f /\ c.default
    OBVIOUS
  <2>2. Seated(f) /\ tracked[f].ctx <= given[tracked[f].by]
    BY <2>1 DEF FrameInv, IdsStand
  <2>3. c # n
    BY <1>1, <2>1, <2>2
  <2>4. QED
    BY <2>1, <2>2, <2>3 DEF FrameInv, IdsStand
<1>9. QED
  BY <1>1, <1>5, <1>6, <1>7, <1>8 DEF IdsStand

LEMMA TopReloadsKeeps ==
  ASSUME FrameInv, TopReloads
  PROVE  FrameInv'
<1>4. /\ FrameTypes /\ WorldsStand /\ BuriedStand /\ IdsStand /\ SessionsStand /\ NavigationsStand
      /\ CreationsStand /\ HoldsStand /\ LatestStands
  BY DEF FrameInv
<1> DEFINE new0 == Context(Top, 0, NextId(0), TRUE)
           s0 == Tells(On("cleared", 0))
           s1 == IF home \in Processes \ {0} THEN Tells(On("detached", home)) ELSE <<>>
           s2 == Tells(On("navigated", Top))
           s3 == Tells(Created(new0))
<1>17. PICK n \in Worlds : /\ n = new0 /\ n.frame = Top /\ n.by = 0 /\ n.default /\ n.id = given[0] + 1
                          /\ ~Mentioned(n)
  <2>1. 0 \in Processes /\ Top \in {Top, Kid}
    BY RenderersAssumption DEF Processes
  <2>2. QED
    BY <2>1, FreshIs
<1>3. /\ home' = Gone /\ contexts' = {n} /\ dying' = dying /\ given' = [given EXCEPT ![n.by] = @ + 1]
      /\ /\ allFrames' = allFrames /\ chosen' = chosen /\ ran' = ran
      /\ tracked' = tracked /\ filed' = filed /\ setup' = setup /\ selected' = selected /\ Listed' = Listed
      /\ inFlight' = inFlight \o (s0 \o s1 \o s2 \o s3)
  BY <1>17 DEF TopReloads, Replaces, Emit, New, Moves, client, Keeps, Listed
<1>18. /\ s0 \in Seq(Tellings) /\ s1 \in Seq(Tellings) /\ s2 \in Seq(Tellings) /\ s3 \in Seq(Tellings)
       /\ \A e : Within(e, s0) <=> e = On("cleared", 0)
       /\ \A e : Within(e, s1) <=> home \in Sessions /\ allFrames /\ e = On("detached", home)
       /\ \A e : Within(e, s2) <=> e = On("navigated", Top)
       /\ \A e : Within(e, s3) <=> e = Created(n)
       /\ \A d, e : ~Behind(d, e, s0) /\ ~Behind(d, e, s1) /\ ~Behind(d, e, s2) /\ ~Behind(d, e, s3)
  <2>1. /\ On("cleared", 0) \in Tellings /\ On("navigated", Top) \in Tellings /\ Created(n) \in Tellings
        /\ home \in Sessions => On("detached", home) \in Tellings
    <3>1. 0 \in Processes
      BY RenderersAssumption DEF Processes
    <3>2. On("cleared", 0) \in Tellings
      BY <3>1, TellingsAre
    <3>3. On("navigated", Top) \in Tellings
      BY TellingsAre
    <3>4. Created(n) \in Tellings
      BY TellingsAre
    <3>5. home \in Sessions => On("detached", home) \in Tellings
      BY TellingsAre
    <3>6. QED
      BY <3>2, <3>3, <3>4, <3>5
  <2>2. Heard(On("cleared", 0)) /\ Heard(On("navigated", Top)) /\ Heard(Created(n)) /\ (Heard(On("detached", home)) <=> allFrames)
    BY <1>4, <1>17, HeardIs DEF FrameTypes
  <2>3. s0 \in Seq(Tellings) /\ (\A e : Within(e, s0) <=> e = On("cleared", 0)) /\ (\A d, e : ~Behind(d, e, s0))
    BY <2>1, <2>2, TellsIs
  <2>4. s2 \in Seq(Tellings) /\ (\A e : Within(e, s2) <=> e = On("navigated", Top)) /\ (\A d, e : ~Behind(d, e, s2))
    BY <2>1, <2>2, TellsIs
  <2>5. s3 \in Seq(Tellings) /\ (\A e : Within(e, s3) <=> e = Created(n)) /\ (\A d, e : ~Behind(d, e, s3))
    BY <1>17, <2>1, <2>2, TellsIs
  <2>6. s1 \in Seq(Tellings) /\ (\A e : Within(e, s1) <=> home \in Sessions /\ allFrames /\ e = On("detached", home)) /\ (\A d, e : ~Behind(d, e, s1))
    <3>1. CASE home \in Sessions
      <4>1. s1 = Tells(On("detached", home))
        BY <3>1 DEF Sessions
      <4>2. QED
        BY <2>1, <2>2, <3>1, <4>1, TellsIs
    <3>2. CASE home \notin Sessions
      <4>1. s1 = <<>> /\ <<>> \in Seq(Tellings)
        BY <3>2 DEF Sessions
      <4>2. QED
        BY <3>2, <4>1, WithinOne
    <3>3. QED
      BY <3>1, <3>2
  <2>7. QED
    BY <2>3, <2>4, <2>5, <2>6
<1> HIDE DEF s0, s1, s2, s3, new0
<1>2. PICK new \in Seq(Tellings) : new = s0 \o s1 \o s2 \o s3 /\ inFlight' = inFlight \o new
  BY <1>3, <1>18, WithinThree
<1>1. /\ inFlight' \in Seq(Tellings)
      /\ \A e : Due(e)' <=> Due(e) \/ Within(e, new)
      /\ \A d, e : Follows(e, d)' <=> Follows(e, d) \/ Behind(d, e, new) \/ (Due(d) /\ Within(e, new))
      /\ \A d, e : Follows(e, d) => Due(d) /\ Due(e)
      /\ \A d, e : Follows(e, d)' => Due(d)' /\ Due(e)'
      /\ \A d, e : Behind(d, e, new) => Within(d, new) /\ Within(e, new)
  BY <1>2, <1>3, <1>4, Emitted, BothWithin DEF FrameTypes
<1>19. /\ \A e : Within(e, s0 \o s1 \o s2 \o s3) <=> Within(e, s0) \/ Within(e, s1) \/ Within(e, s2) \/ Within(e, s3)
       /\ \A d, e : Behind(d, e, s0 \o s1 \o s2 \o s3) <=>
              \/ Behind(d, e, s0) \/ Behind(d, e, s1) \/ Behind(d, e, s2) \/ Behind(d, e, s3)
              \/ Within(d, s0) /\ (Within(e, s1) \/ Within(e, s2) \/ Within(e, s3))
              \/ Within(d, s1) /\ (Within(e, s2) \/ Within(e, s3))
              \/ Within(d, s2) /\ Within(e, s3)
  BY <1>18, WithinThree
<1>6. /\ \A e : Within(e, new) <=>
           \/ e = On("cleared", 0) \/ e = On("navigated", Top) \/ e = Created(n)
           \/ home \in Sessions /\ allFrames /\ e = On("detached", home)
      /\ \A e : ~Behind(Created(n), e, new)
  <2>1. Created(n) # On("cleared", 0) /\ Created(n) # On("navigated", Top) /\ Created(n) # On("detached", home)
    BY TellingsDiffer
  <2>2. \A e : Within(e, new) <=> Within(e, s0) \/ Within(e, s1) \/ Within(e, s2) \/ Within(e, s3)
    BY <1>2, <1>19
  <2>3. \A e : Within(e, new) <=>
           \/ e = On("cleared", 0) \/ e = On("navigated", Top) \/ e = Created(n)
           \/ home \in Sessions /\ allFrames /\ e = On("detached", home)
    BY <1>18, <2>2
  <2>4. ~Within(Created(n), s0) /\ ~Within(Created(n), s1) /\ ~Within(Created(n), s2)
    BY <1>18, <2>1
  <2>5. \A e : ~Behind(Created(n), e, new)
    BY <1>2, <1>18, <1>19, <2>4
  <2>6. QED
    BY <2>3, <2>5
<1>7. /\ n.id = given[n.by] + 1 /\ ~Mentioned(n) /\ ~Due(Created(n)) /\ ~Due(Destroyed(n))
      /\ n \notin contexts /\ n \notin dying
  BY <1>17 DEF Mentioned
<1>5. /\ home' \in Processes \union {Gone} /\ contexts' \subseteq Worlds /\ IsFiniteSet(contexts') /\ dying' \subseteq Worlds
      /\ given' \in [Processes -> Nat] /\ Gone \notin Processes /\ 0 \in Processes
  <2>1. contexts' \subseteq Worlds /\ IsFiniteSet(contexts')
    BY <1>3, FS_Singleton
  <2>2. given' \in [Processes -> Nat]
    BY <1>3, <1>4, <1>17 DEF FrameTypes, Worlds
  <2>3. Gone \notin Processes /\ 0 \in Processes
    BY RenderersAssumption DEF Gone, Processes
  <2>4. QED
    BY <1>3, <1>4, <2>1, <2>2, <2>3 DEF FrameTypes
<1>21. /\ \A a, s : Within(On(a, s), new) =>
            \/ a = "cleared" /\ s = 0
            \/ a = "navigated" /\ s = Top
            \/ a = "detached" /\ s = home /\ home \in Sessions /\ allFrames
       /\ \A c : ~Within(Destroyed(c), new)
       /\ \A c : Within(Created(c), new) => c = n
  <2>1. /\ \A a, s : On(a, s) = On("cleared", 0) => a = "cleared" /\ s = 0
        /\ \A a, s : On(a, s) = On("navigated", Top) => a = "navigated" /\ s = Top
        /\ \A a, s : On(a, s) = On("detached", home) => a = "detached" /\ s = home
        /\ \A a, s : On(a, s) # Created(n)
        /\ \A c, a, s : Destroyed(c) # On(a, s) /\ Destroyed(c) # Created(n) /\ Created(c) # On(a, s)
        /\ \A c : Created(c) = Created(n) => c = n
    BY TellingsDiffer
  <2>2. ASSUME NEW a, NEW s, Within(On(a, s), new)
        PROVE  \/ a = "cleared" /\ s = 0
               \/ a = "navigated" /\ s = Top
               \/ a = "detached" /\ s = home /\ home \in Sessions /\ allFrames
    BY <1>6, <2>1, <2>2
  <2>3. \A c : ~Within(Destroyed(c), new)
    BY <1>6, <2>1
  <2>4. ASSUME NEW c, Within(Created(c), new) PROVE c = n
    <3>1. Created(c) # On("cleared", 0) /\ Created(c) # On("navigated", Top) /\ Created(c) # On("detached", home)
      BY <2>1
    <3>2. Created(c) = Created(n)
      BY <1>6, <2>4, <3>1
    <3>3. QED
      BY <2>1, <3>2
  <2>5. QED
    BY <2>2, <2>3, <2>4
<1>8. WorldsStand'
  BY <1>3, <1>17, <1>5 DEF WorldsStand, Top, Kid
<1>9. BuriedStand'
  BY <1>1, <1>3, <1>4, <1>7, <1>21 DEF BuriedStand
<1>10. FrameTypes'
  BY <1>1, <1>3, <1>4, <1>5 DEF FrameTypes
<1>11. IdsStand'
  <2>1. \A c : Mentioned(c)' => Mentioned(c) \/ c = n
    BY <1>1, <1>3, <1>21 DEF Mentioned
  <2>2. \A f \in Listed : Seated(f)' => Seated(f)
    BY <1>3, <1>4, <1>5 DEF Seated, FrameTypes
  <2>3. QED
    BY <1>3, <1>7, <2>1, <2>2, GivenIds
<1>12. SessionsStand'
  <2>1. ASSUME NEW r \in Sessions PROVE SessionStands(r)'
    <3>1. SessionStands(r) /\ r # 0 /\ r \in Processes
      BY <1>4 DEF SessionsStand, Sessions
    <3>2. ~Within(On("attached", r), new) /\ ~Within(On("failed", r), new) /\ ~Within(On("tree", r), new)
      BY <1>21
    <3>3. Within(On("detached", r), new) <=> r = home /\ allFrames
      BY <1>6, <1>21, <2>1
    <3>4. /\ given'[r] = given[r] /\ home' # r /\ setup' = setup /\ tracked' = tracked /\ Listed' = Listed /\ allFrames' = allFrames
          /\ Busy(r)' <=> Busy(r)
      BY <1>3, <1>4, <1>5, <1>17, <3>1 DEF FrameTypes, Busy
    <3>5. home = r => (Busy(r) \/ Due(On("attached", r)) => Due(On("detached", r))')
      BY <1>1, <1>4, <3>1, <3>3 DEF SessionStands, FrameTypes, Busy
    <3>6. ~Behind(On("attached", r), On("attached", r), new) /\ ~Behind(On("attached", r), On("detached", r), new)
      BY <1>1, <3>2
    <3>7. QED
      BY <1>1, <3>1, <3>2, <3>3, <3>4, <3>5, <3>6 DEF SessionStands
  <2>2. ASSUME NEW r \in Sessions, NEW s \in Sessions, r # s PROVE SessionsApart(r, s)'
    <3>1. SessionsApart(r, s)
      BY <1>4, <2>2 DEF SessionsStand
    <3>2. (Busy(r)' <=> Busy(r)) /\ (Busy(s)' <=> Busy(s)) /\ ~Within(On("attached", r), new) /\ ~Within(On("attached", s), new)
      BY <1>3, <1>21 DEF Busy
    <3>3. QED
      BY <1>1, <3>1, <3>2 DEF SessionsApart
  <2>3. QED
    BY <2>1, <2>2 DEF SessionsStand, Sessions
<1>13. NavigationsStand'
  BY <1>3, <1>5 DEF NavigationsStand, Sessions
<1>14. CreationsStand'
  <2>1. SUFFICES ASSUME NEW d \in Worlds, Due(Created(d))' PROVE CreationStands(d)'
    BY DEF CreationsStand
  <2>2. CASE d = n
    <3>1. ~Follows(Created(d), Created(d))'
      BY <1>1, <1>6, <1>7, <2>2
    <3>2. QED
      BY <1>3, <1>5, <1>17, <2>2, <3>1 DEF CreationStands, Sessions, Top, Kid
  <2>3. CASE d # n
    <3>1. CreationStands(d) /\ Due(Created(d)) /\ ~Within(Created(d), new)
      BY <1>1, <1>4, <1>21, <2>1, <2>3 DEF CreationsStand
    <3>2. Follows(On("cleared", 0), Created(d))'
      BY <1>1, <1>6, <3>1
    <3>3. QED
      BY <1>1, <1>3, <1>5, <3>1, <3>2 DEF CreationStands, Sessions
  <2>4. QED
    BY <2>2, <2>3
<1>15. HoldsStand'
  <2>1. ScriptRunsInItsFrame'
    BY <1>3, <1>4 DEF HoldsStand, ScriptRunsInItsFrame
  <2>2. ASSUME Kid \in Listed', tracked'[Kid].by = 0, tracked'[Kid].ctx # 0
        PROVE  /\ <<0, tracked'[Kid].ctx, Kid>> \in filed'
               /\ Held' \in contexts' \/ Held' \in dying' \/ Due(Destroyed(Held))' \/ Due(On("cleared", 0))'
    <3>2. Held' = Held /\ Held.frame = Kid /\ Held.by = 0
      BY <1>3 DEF Held, Context
    <3>5. /\ <<0, tracked[Kid].ctx, Kid>> \in filed
          /\ Held \in contexts \/ Held \in dying \/ Due(Destroyed(Held)) \/ Due(On("cleared", 0))
      BY <1>3, <1>4, <2>2 DEF HoldsStand
    <3>6. Held \in contexts' \/ Held \in dying' \/ Due(Destroyed(Held))' \/ Due(On("cleared", 0))'
      BY <1>1, <1>6
    <3>7. QED
      BY <1>3, <3>2, <3>5, <3>6
  <2>4. QED
    BY <2>1, <2>2 DEF HoldsStand
<1>16. LatestStands'
  <2>1. SUFFICES ASSUME NEW k \in contexts', Reported(k)' PROVE Settles(k)'
    BY DEF LatestStands
  <2>2. k \in Worlds /\ k.default /\ setup[k.by] = "on"
    BY <1>3, <1>4, <1>10, <2>1 DEF Reported, FrameTypes
  <2>3. \A e : Upsets(k, e)' = Upsets(k, e)
    BY DEF Upsets, Worlds
  <2>4. CASE k = n
    <3>1. Due(Created(k))'
      BY <1>1, <1>6, <2>2, <2>4
    <3>2. \A e \in Tellings : Upsets(k, e) => ~Follows(e, Created(k))'
      <4>1. \A e : Upsets(k, e) => ~Behind(Created(n), e, new)
        BY <1>6, <2>4, TellingsDiffer DEF Upsets, Navigated
      <4>2. QED
        BY <1>1, <1>7, <2>4, <4>1
    <3>3. QED
      BY <2>3, <3>1, <3>2 DEF Settles
  <2>5. CASE k # n
    <3>1. k \in contexts /\ Settles(k)
      BY <1>3, <1>4, <2>1, <2>2, <2>5 DEF LatestStands, Reported
    <3>2. \A e : Upsets(k, e) => ~Within(e, new)
      BY <1>3, <2>1, <2>5
    <3>3. CASE Due(Created(k)) /\ \A e \in Tellings : Upsets(k, e) => ~Follows(e, Created(k))
      BY <1>1, <2>3, <3>2, <3>3 DEF Settles
    <3>4. CASE /\ \A e \in Tellings : Upsets(k, e) => ~Due(e)
               /\ k.frame \in Listed /\ tracked[k.frame].by = k.by => tracked[k.frame].ctx = k.id
      BY <1>1, <1>3, <2>3, <3>2, <3>4 DEF Settles
    <3>5. QED
      BY <3>1, <3>3, <3>4 DEF Settles
  <2>6. QED
    BY <2>4, <2>5
<1>20. QED
  BY <1>1, <1>8, <1>9, <1>10, <1>11, <1>12, <1>13, <1>14, <1>15, <1>16 DEF FrameInv

LEMMA KidReloadsInPage ==
  ASSUME FrameInv, home = 0, KidReloads
  PROVE  FrameInv'
<1>4. /\ FrameTypes /\ WorldsStand /\ BuriedStand /\ IdsStand /\ SessionsStand /\ NavigationsStand
      /\ CreationsStand /\ HoldsStand /\ LatestStands
  BY DEF FrameInv
<1> DEFINE new0 == Context(Kid, 0, NextId(0), TRUE)
           s0 == Lost(Of(Kid))
           s1 == Tells(On("navigated", Kid))
           s2 == Tells(Created(new0))
<1>17. PICK n \in Worlds : /\ n = new0 /\ n.frame = Kid /\ n.by = 0 /\ n.default /\ n.id = given[0] + 1
                          /\ ~Mentioned(n)
  <2>1. 0 \in Processes /\ Kid \in {Top, Kid}
    BY RenderersAssumption DEF Processes
  <2>2. QED
    BY <2>1, FreshIs
<1>3. /\ home' = home /\ contexts' = (contexts \ Of(Kid)) \union {n} /\ dying' = dying /\ given' = [given EXCEPT ![n.by] = @ + 1]
      /\ /\ allFrames' = allFrames /\ chosen' = chosen /\ ran' = ran
      /\ tracked' = tracked /\ filed' = filed /\ setup' = setup /\ selected' = selected /\ Listed' = Listed
      /\ inFlight' = inFlight \o (s0 \o s1 \o s2)
  BY <1>17 DEF KidReloads, Replaces, Emit, New, Moves, client, Keeps, Listed
<1>18. /\ s0 \in Seq(Tellings) /\ s1 \in Seq(Tellings) /\ s2 \in Seq(Tellings)
       /\ \A e : Within(e, s0) <=> \E c \in Of(Kid) : e = Destroyed(c)
       /\ \A e : Within(e, s1) <=> e = Navigated
       /\ \A e : Within(e, s2) <=> e = Created(n)
       /\ \A d, e : ~Behind(d, e, s1) /\ ~Behind(d, e, s2)
  <2>1. Navigated \in Tellings /\ Created(n) \in Tellings
    BY TellingsAre DEF Navigated
  <2>2. Heard(Navigated) /\ Heard(Created(n))
    BY <1>4, <1>17, HeardIs DEF FrameTypes, Navigated
  <2>3. s0 \in Seq(Tellings) /\ \A e : Within(e, s0) <=> \E c \in Of(Kid) : e = Destroyed(c)
    <3>1. Of(Kid) \in SUBSET contexts /\ IsFiniteSet(contexts) /\ contexts \subseteq Worlds
      BY <1>4 DEF FrameTypes, Of
    <3>2. IsFiniteSet(Of(Kid)) /\ Of(Kid) \in SUBSET Worlds
      BY <3>1, FS_Subset
    <3>3. QED
      BY <3>2, LostIs
  <2>4. s1 \in Seq(Tellings) /\ (\A e : Within(e, s1) <=> e = Navigated) /\ (\A d, e : ~Behind(d, e, s1))
    BY <2>1, <2>2, TellsIs DEF Navigated
  <2>5. s2 \in Seq(Tellings) /\ (\A e : Within(e, s2) <=> e = Created(n)) /\ (\A d, e : ~Behind(d, e, s2))
    BY <1>17, <2>1, <2>2, TellsIs
  <2>7. QED
    BY <2>3, <2>4, <2>5
<1> HIDE DEF s0, s1, s2, new0
<1>2. PICK new \in Seq(Tellings) : new = s0 \o s1 \o s2 /\ inFlight' = inFlight \o new
  BY <1>3, <1>18, WithinTwo
<1>1. /\ inFlight' \in Seq(Tellings)
      /\ \A e : Due(e)' <=> Due(e) \/ Within(e, new)
      /\ \A d, e : Follows(e, d)' <=> Follows(e, d) \/ Behind(d, e, new) \/ (Due(d) /\ Within(e, new))
      /\ \A d, e : Follows(e, d) => Due(d) /\ Due(e)
      /\ \A d, e : Follows(e, d)' => Due(d)' /\ Due(e)'
      /\ \A d, e : Behind(d, e, new) => Within(d, new) /\ Within(e, new)
  BY <1>2, <1>3, <1>4, Emitted, BothWithin DEF FrameTypes
<1>19. /\ \A e : Within(e, s0 \o s1 \o s2) <=> Within(e, s0) \/ Within(e, s1) \/ Within(e, s2)
       /\ \A d, e : Behind(d, e, s0 \o s1 \o s2) <=>
              \/ Behind(d, e, s0) \/ Behind(d, e, s1) \/ Behind(d, e, s2)
              \/ Within(d, s0) /\ (Within(e, s1) \/ Within(e, s2))
              \/ Within(d, s1) /\ Within(e, s2)
       /\ \A d, e : Behind(d, e, s0) => Within(d, s0)
  BY <1>18, WithinTwo, BothWithin
<1>6. /\ \A e : Within(e, new) <=> e = Navigated \/ e = Created(n) \/ \E c \in Of(Kid) : e = Destroyed(c)
      /\ \A e : ~Behind(Created(n), e, new)
  <2>1. Created(n) # Navigated /\ \A c : Created(n) # Destroyed(c)
    BY TellingsDiffer DEF Navigated
  <2>2. \A e : Within(e, new) <=> Within(e, s0) \/ Within(e, s1) \/ Within(e, s2)
    BY <1>2, <1>19
  <2>3. \A e : Within(e, new) <=> e = Navigated \/ e = Created(n) \/ \E c \in Of(Kid) : e = Destroyed(c)
    BY <1>18, <2>2
  <2>4. ~Within(Created(n), s0) /\ ~Within(Created(n), s1)
    BY <1>18, <2>1
  <2>5. \A e : ~Behind(Created(n), e, new)
    BY <1>2, <1>18, <1>19, <2>4
  <2>6. QED
    BY <2>3, <2>5
<1>7. /\ n.id = given[n.by] + 1 /\ ~Mentioned(n) /\ ~Due(Created(n)) /\ ~Due(Destroyed(n))
      /\ n \notin contexts /\ n \notin dying
  BY <1>17 DEF Mentioned
<1>5. /\ home' \in Processes \union {Gone} /\ contexts' \subseteq Worlds /\ IsFiniteSet(contexts') /\ dying' \subseteq Worlds
      /\ given' \in [Processes -> Nat] /\ Gone \notin Processes /\ 0 \in Processes
      /\ \A r \in Processes : given'[r] = 0 => given[r] = 0
  <2>1. contexts' \subseteq Worlds /\ IsFiniteSet(contexts')
    <3>1. IsFiniteSet(contexts \ Of(Kid)) /\ contexts \ Of(Kid) \subseteq Worlds
      BY <1>4, FS_Subset DEF FrameTypes
    <3>2. IsFiniteSet((contexts \ Of(Kid)) \union {n})
      BY <3>1, FS_AddElement
    <3>3. QED
      BY <1>3, <3>1, <3>2
  <2>2. given' \in [Processes -> Nat] /\ \A r \in Processes : given'[r] = 0 => given[r] = 0
    BY <1>3, <1>4, <1>17 DEF FrameTypes, Worlds
  <2>3. Gone \notin Processes /\ 0 \in Processes
    BY RenderersAssumption DEF Gone, Processes
  <2>4. QED
    BY <1>3, <1>4, <2>1, <2>2, <2>3 DEF FrameTypes, Of
<1>21. /\ \A a, s : Within(On(a, s), new) => a = "navigated" /\ s = Kid
       /\ \A c : Within(Destroyed(c), new) <=> c \in Of(Kid)
       /\ \A c : Within(Created(c), new) => c = n
  <2>1. ASSUME NEW a, NEW s, Within(On(a, s), new) PROVE a = "navigated" /\ s = Kid
    <3>1. On(a, s) # Created(n) /\ \A c : On(a, s) # Destroyed(c)
      BY TellingsDiffer
    <3>2. On(a, s) = On("navigated", Kid)
      BY <1>6, <2>1, <3>1 DEF Navigated
    <3>3. QED
      BY <3>2, TellingsDiffer
  <2>2. ASSUME NEW c PROVE Within(Destroyed(c), new) <=> c \in Of(Kid)
    <3>1. Destroyed(c) # Created(n) /\ Destroyed(c) # Navigated
      BY TellingsDiffer DEF Navigated
    <3>2. \A d : Destroyed(c) = Destroyed(d) => c = d
      BY TellingsDiffer
    <3>3. QED
      BY <1>6, <3>1, <3>2
  <2>3. ASSUME NEW c, Within(Created(c), new) PROVE c = n
    <3>1. Created(c) # Navigated /\ \A d : Created(c) # Destroyed(d)
      BY TellingsDiffer DEF Navigated
    <3>2. Created(c) = Created(n)
      BY <1>6, <2>3, <3>1
    <3>3. QED
      BY <3>2, TellingsDiffer
  <2>4. QED
    BY <2>1, <2>2, <2>3
<1>8. WorldsStand'
  BY <1>3, <1>4, <1>17, <1>5 DEF WorldsStand, Of, Top, Kid
<1>9. BuriedStand'
  <2>1. SUFFICES ASSUME NEW c \in Worlds, c \in dying' \/ Due(Destroyed(c))'
                 PROVE  c.by = 0 /\ c.frame = Kid /\ c \notin contexts'
    BY DEF BuriedStand
  <2>2. CASE c \in dying \/ Due(Destroyed(c))
    BY <1>3, <1>4, <1>7, <2>2 DEF BuriedStand
  <2>3. CASE c \in Of(Kid)
    BY <1>3, <1>4, <1>7, <2>3 DEF WorldsStand, Of, Top, Kid
  <2>4. QED
    BY <1>1, <1>3, <1>21, <2>1, <2>2, <2>3
<1>10. FrameTypes'
  BY <1>1, <1>3, <1>4, <1>5 DEF FrameTypes
<1>11. IdsStand'
  <2>1. \A c : Mentioned(c)' => Mentioned(c) \/ c = n
    BY <1>1, <1>3, <1>21 DEF Mentioned, Of
  <2>2. \A f \in Listed : Seated(f)' => Seated(f)
    BY <1>3 DEF Seated
  <2>3. QED
    BY <1>3, <1>7, <2>1, <2>2, GivenIds
<1>12. SessionsStand'
  <2>1. ASSUME NEW r \in Sessions PROVE SessionStands(r)'
    <3>1. SessionStands(r) /\ r \in Processes
      BY <1>4 DEF SessionsStand, Sessions
    <3>2. ~Within(On("attached", r), new) /\ ~Within(On("failed", r), new) /\ ~Within(On("tree", r), new) /\ ~Within(On("detached", r), new)
      BY <1>21
    <3>3. (given'[r] = 0 => given[r] = 0) /\ (Busy(r)' <=> Busy(r))
      BY <1>3, <1>5, <3>1 DEF Busy
    <3>4. ~Behind(On("attached", r), On("attached", r), new) /\ ~Behind(On("attached", r), On("detached", r), new)
      BY <1>1, <3>2
    <3>5. QED
      BY <1>1, <1>3, <3>1, <3>2, <3>3, <3>4 DEF SessionStands
  <2>2. ASSUME NEW r \in Sessions, NEW s \in Sessions, r # s PROVE SessionsApart(r, s)'
    <3>1. SessionsApart(r, s)
      BY <1>4, <2>2 DEF SessionsStand
    <3>2. (Busy(r)' <=> Busy(r)) /\ (Busy(s)' <=> Busy(s)) /\ ~Within(On("attached", r), new) /\ ~Within(On("attached", s), new)
      BY <1>3, <1>21 DEF Busy
    <3>3. QED
      BY <1>1, <3>1, <3>2 DEF SessionsApart
  <2>3. QED
    BY <2>1, <2>2 DEF SessionsStand, Sessions
<1>13. NavigationsStand'
  BY <1>1, <1>3, <1>4, <1>5, <1>21 DEF NavigationsStand, Sessions, Top, Kid
<1>14. CreationsStand'
  <2>1. SUFFICES ASSUME NEW d \in Worlds, Due(Created(d))' PROVE CreationStands(d)'
    BY DEF CreationsStand
  <2>2. CASE d = n
    <3>1. ~Follows(Created(d), Created(d))'
      BY <1>1, <1>6, <1>7, <2>2
    <3>2. QED
      BY <1>3, <1>5, <1>17, <2>2, <3>1 DEF CreationStands, Sessions, Top, Kid
  <2>3. CASE d # n
    <3>1. CreationStands(d) /\ Due(Created(d)) /\ ~Within(Created(d), new)
      BY <1>1, <1>4, <1>21, <2>1, <2>3 DEF CreationsStand
    <3>2. d \in Of(Kid) => Follows(Destroyed(d), Created(d))'
      BY <1>1, <1>21, <3>1
    <3>3. d \in contexts /\ d.frame = Kid => d \in Of(Kid)
      BY DEF Of
    <3>4. QED
      BY <1>1, <1>3, <1>5, <3>1, <3>2, <3>3 DEF CreationStands, Sessions
  <2>4. QED
    BY <2>2, <2>3
<1>15. HoldsStand'
  <2>1. ScriptRunsInItsFrame'
    BY <1>3, <1>4 DEF HoldsStand, ScriptRunsInItsFrame
  <2>2. ASSUME Kid \in Listed', tracked'[Kid].by = 0, tracked'[Kid].ctx # 0
        PROVE  /\ <<0, tracked'[Kid].ctx, Kid>> \in filed'
               /\ Held' \in contexts' \/ Held' \in dying' \/ Due(Destroyed(Held))' \/ Due(On("cleared", 0))'
    <3>2. Held' = Held /\ Held.frame = Kid /\ Held.by = 0
      BY <1>3 DEF Held, Context
    <3>5. /\ <<0, tracked[Kid].ctx, Kid>> \in filed
          /\ Held \in contexts \/ Held \in dying \/ Due(Destroyed(Held)) \/ Due(On("cleared", 0))
      BY <1>3, <1>4, <2>2 DEF HoldsStand
    <3>6. Held \in contexts' \/ Held \in dying' \/ Due(Destroyed(Held))' \/ Due(On("cleared", 0))'
      <4>1. Held \in contexts => Held \in Of(Kid)
        BY <3>2 DEF Of
      <4>2. Held \in Of(Kid) => Due(Destroyed(Held))'
        BY <1>1, <1>21, <3>2
      <4>3. QED
        BY <1>1, <1>3, <3>2, <3>5, <4>1, <4>2
    <3>7. QED
      BY <1>3, <3>2, <3>5, <3>6
  <2>4. QED
    BY <2>1, <2>2 DEF HoldsStand
<1>16. LatestStands'
  <2>1. SUFFICES ASSUME NEW k \in contexts', Reported(k)' PROVE Settles(k)'
    BY DEF LatestStands
  <2>2. k \in Worlds /\ k.default /\ setup[k.by] = "on"
    BY <1>3, <1>4, <1>10, <2>1 DEF Reported, FrameTypes
  <2>3. \A e : Upsets(k, e)' = Upsets(k, e)
    BY DEF Upsets, Worlds
  <2>4. CASE k = n
    <3>1. Due(Created(k))'
      BY <1>1, <1>6, <2>2, <2>4
    <3>2. \A e \in Tellings : Upsets(k, e) => ~Follows(e, Created(k))'
      <4>1. \A e : Upsets(k, e) => ~Behind(Created(n), e, new)
        BY <1>6, <2>4, TellingsDiffer DEF Upsets, Navigated
      <4>2. QED
        BY <1>1, <1>7, <2>4, <4>1
    <3>3. QED
      BY <2>3, <3>1, <3>2 DEF Settles
  <2>5. CASE k # n
    <3>1. k \in contexts /\ Settles(k)
      BY <1>3, <1>4, <2>1, <2>2, <2>5 DEF LatestStands, Reported
    <3>2. \A e : Upsets(k, e) => ~Within(e, new)
      <4>1. k.frame = Top
        BY <1>3, <2>1, <2>2, <2>5 DEF Of, Worlds
      <4>2. SUFFICES ASSUME NEW e, Upsets(k, e), Within(e, new) PROVE FALSE
        OBVIOUS
      <4>3. CASE e = Navigated
        BY <4>1, <4>2, <4>3, TellingsDiffer DEF Upsets, Navigated, Top, Kid
      <4>4. CASE e = Created(n)
        BY <1>17, <4>1, <4>2, <4>4, TellingsDiffer DEF Upsets, Navigated, Top, Kid
      <4>5. CASE \E c \in Of(Kid) : e = Destroyed(c)
        BY <4>2, <4>5, TellingsDiffer DEF Upsets, Navigated
      <4>6. QED
        BY <1>6, <4>2, <4>3, <4>4, <4>5
    <3>3. CASE Due(Created(k)) /\ \A e \in Tellings : Upsets(k, e) => ~Follows(e, Created(k))
      BY <1>1, <2>3, <3>2, <3>3 DEF Settles
    <3>4. CASE /\ \A e \in Tellings : Upsets(k, e) => ~Due(e)
               /\ k.frame \in Listed /\ tracked[k.frame].by = k.by => tracked[k.frame].ctx = k.id
      BY <1>1, <1>3, <2>3, <3>2, <3>4 DEF Settles
    <3>5. QED
      BY <3>1, <3>3, <3>4 DEF Settles
  <2>6. QED
    BY <2>4, <2>5
<1>20. QED
  BY <1>1, <1>8, <1>9, <1>10, <1>11, <1>12, <1>13, <1>14, <1>15, <1>16 DEF FrameInv

LEMMA KidReloadsInOwn ==
  ASSUME FrameInv, home \in Sessions, KidReloads
  PROVE  FrameInv'
<1>4. /\ FrameTypes /\ WorldsStand /\ BuriedStand /\ IdsStand /\ SessionsStand /\ NavigationsStand
      /\ CreationsStand /\ HoldsStand /\ LatestStands
  BY DEF FrameInv
<1> DEFINE new0 == Context(Kid, home, NextId(home), TRUE)
           s0 == Tells(On("cleared", home))
           s1 == Tells(Created(new0))
<1>17. PICK n \in Worlds : /\ n = new0 /\ n.frame = Kid /\ n.by = home /\ n.default /\ n.id = given[home] + 1
                          /\ ~Mentioned(n)
  <2>1. home \in Processes /\ Kid \in {Top, Kid}
    BY DEF Sessions
  <2>2. QED
    BY <2>1, FreshIs
<1>22. PICK p \in Sessions : p = home
  OBVIOUS
<1>3. /\ home' = home /\ contexts' = (contexts \ Of(Kid)) \union {n} /\ dying' = dying /\ given' = [given EXCEPT ![n.by] = @ + 1]
      /\ /\ allFrames' = allFrames /\ chosen' = chosen /\ ran' = ran
      /\ tracked' = tracked /\ filed' = filed /\ setup' = setup /\ selected' = selected /\ Listed' = Listed
      /\ inFlight' = inFlight \o (s0 \o s1)
  BY <1>17 DEF KidReloads, Replaces, Emit, New, Sessions, Moves, client, Keeps, Listed
<1>18. /\ s0 \in Seq(Tellings) /\ s1 \in Seq(Tellings)
       /\ \A e : Within(e, s0) <=> setup[p] = "on" /\ e = On("cleared", p)
       /\ \A e : Within(e, s1) <=> setup[p] = "on" /\ e = Created(n)
       /\ \A d, e : ~Behind(d, e, s0) /\ ~Behind(d, e, s1)
  <2>1. On("cleared", home) \in Tellings /\ Created(n) \in Tellings
    BY TellingsAre DEF Sessions
  <2>2. (Heard(On("cleared", home)) <=> setup[p] = "on") /\ (Heard(Created(n)) <=> setup[p] = "on")
    BY <1>17, <1>22, HeardIs
  <2>4. s0 \in Seq(Tellings) /\ (\A e : Within(e, s0) <=> setup[p] = "on" /\ e = On("cleared", p)) /\ (\A d, e : ~Behind(d, e, s0))
    BY <1>22, <2>1, <2>2, TellsIs
  <2>5. s1 \in Seq(Tellings) /\ (\A e : Within(e, s1) <=> setup[p] = "on" /\ e = Created(n)) /\ (\A d, e : ~Behind(d, e, s1))
    BY <1>17, <2>1, <2>2, TellsIs
  <2>7. QED
    BY <2>4, <2>5
<1> HIDE DEF s0, s1, new0
<1>23. /\ s0 \o s1 \in Seq(Tellings)
       /\ \A e : Within(e, s0 \o s1) <=> Within(e, s0) \/ Within(e, s1)
       /\ \A d, e : Behind(d, e, s0 \o s1) <=> Behind(d, e, s0) \/ Behind(d, e, s1) \/ (Within(d, s0) /\ Within(e, s1))
  BY <1>18, WithinConcat, ConcatProperties
<1>2. PICK new \in Seq(Tellings) : new = s0 \o s1 /\ inFlight' = inFlight \o new /\ home \in Sessions /\ p = home
  BY <1>3, <1>22, <1>23
<1>1. /\ inFlight' \in Seq(Tellings)
      /\ \A e : Due(e)' <=> Due(e) \/ Within(e, new)
      /\ \A d, e : Follows(e, d)' <=> Follows(e, d) \/ Behind(d, e, new) \/ (Due(d) /\ Within(e, new))
      /\ \A d, e : Follows(e, d) => Due(d) /\ Due(e)
      /\ \A d, e : Follows(e, d)' => Due(d)' /\ Due(e)'
      /\ \A d, e : Behind(d, e, new) => Within(d, new) /\ Within(e, new)
  BY <1>2, <1>3, <1>4, Emitted, BothWithin DEF FrameTypes
<1>6. /\ \A e : Within(e, new) <=> setup[p] = "on" /\ (e = On("cleared", p) \/ e = Created(n))
      /\ \A e : ~Behind(Created(n), e, new)
  <2>1. Created(n) # On("cleared", p)
    BY TellingsDiffer
  <2>2. \A e : Within(e, new) <=> setup[p] = "on" /\ (e = On("cleared", p) \/ e = Created(n))
    BY <1>2, <1>18, <1>23
  <2>5. \A e : ~Behind(Created(n), e, new)
    BY <1>2, <1>18, <1>23, <2>1
  <2>6. QED
    BY <2>2, <2>5
<1>7. /\ n.id = given[n.by] + 1 /\ ~Mentioned(n) /\ ~Due(Created(n)) /\ ~Due(Destroyed(n))
      /\ n \notin contexts /\ n \notin dying
  BY <1>17 DEF Mentioned
<1>5. /\ home' \in Processes \union {Gone} /\ contexts' \subseteq Worlds /\ IsFiniteSet(contexts') /\ dying' \subseteq Worlds
      /\ given' \in [Processes -> Nat] /\ Gone \notin Processes /\ 0 \in Processes
      /\ \A r \in Processes : given'[r] = 0 => given[r] = 0
  <2>1. contexts' \subseteq Worlds /\ IsFiniteSet(contexts')
    <3>1. IsFiniteSet(contexts \ Of(Kid)) /\ contexts \ Of(Kid) \subseteq Worlds
      BY <1>4, FS_Subset DEF FrameTypes
    <3>2. IsFiniteSet((contexts \ Of(Kid)) \union {n})
      BY <3>1, FS_AddElement
    <3>3. QED
      BY <1>3, <3>1, <3>2
  <2>2. given' \in [Processes -> Nat] /\ \A r \in Processes : given'[r] = 0 => given[r] = 0
    BY <1>3, <1>4, <1>17 DEF FrameTypes, Worlds
  <2>3. Gone \notin Processes /\ 0 \in Processes
    BY RenderersAssumption DEF Gone, Processes
  <2>4. QED
    BY <1>3, <1>4, <2>1, <2>2, <2>3 DEF FrameTypes, Of
<1>21. /\ \A a, s : Within(On(a, s), new) => a = "cleared" /\ s = p
       /\ \A c : ~Within(Destroyed(c), new)
       /\ \A c : Within(Created(c), new) => c = n /\ setup[p] = "on"
  <2>1. ASSUME NEW a, NEW s, Within(On(a, s), new) PROVE a = "cleared" /\ s = p
    <3>1. On(a, s) # Created(n)
      BY TellingsDiffer
    <3>2. On(a, s) = On("cleared", p)
      BY <1>6, <2>1, <3>1
    <3>3. QED
      BY <3>2, TellingsDiffer
  <2>2. ASSUME NEW c PROVE ~Within(Destroyed(c), new)
    <3>1. Destroyed(c) # Created(n) /\ Destroyed(c) # On("cleared", p)
      BY TellingsDiffer
    <3>3. QED
      BY <1>6, <3>1
  <2>3. ASSUME NEW c, Within(Created(c), new) PROVE c = n /\ setup[p] = "on"
    <3>1. Created(c) # On("cleared", p)
      BY TellingsDiffer
    <3>2. Created(c) = Created(n) /\ setup[p] = "on"
      BY <1>6, <2>3, <3>1
    <3>3. QED
      BY <3>2, TellingsDiffer
  <2>4. QED
    BY <2>1, <2>2, <2>3
<1>8. WorldsStand'
  BY <1>2, <1>3, <1>4, <1>17, <1>5 DEF WorldsStand, Of, Top, Kid
<1>9. BuriedStand'
  BY <1>1, <1>3, <1>4, <1>7, <1>21 DEF BuriedStand
<1>10. FrameTypes'
  BY <1>1, <1>3, <1>4, <1>5 DEF FrameTypes
<1>11. IdsStand'
  <2>1. \A c : Mentioned(c)' => Mentioned(c) \/ c = n
    BY <1>1, <1>3, <1>21 DEF Mentioned, Of
  <2>2. \A f \in Listed : Seated(f)' => Seated(f)
    BY <1>3 DEF Seated
  <2>3. QED
    BY <1>3, <1>7, <2>1, <2>2, GivenIds
<1>12. SessionsStand'
  <2>1. ASSUME NEW r \in Sessions PROVE SessionStands(r)'
    <3>1. SessionStands(r) /\ r \in Processes
      BY <1>4 DEF SessionsStand, Sessions
    <3>2. ~Within(On("attached", r), new) /\ ~Within(On("failed", r), new) /\ ~Within(On("tree", r), new) /\ ~Within(On("detached", r), new)
      BY <1>21
    <3>3. (given'[r] = 0 => given[r] = 0) /\ (Busy(r)' <=> Busy(r))
      BY <1>3, <1>5, <3>1 DEF Busy
    <3>4. ~Behind(On("attached", r), On("attached", r), new) /\ ~Behind(On("attached", r), On("detached", r), new)
      BY <1>1, <3>2
    <3>5. QED
      BY <1>1, <1>3, <3>1, <3>2, <3>3, <3>4 DEF SessionStands
  <2>2. ASSUME NEW r \in Sessions, NEW s \in Sessions, r # s PROVE SessionsApart(r, s)'
    <3>1. SessionsApart(r, s)
      BY <1>4, <2>2 DEF SessionsStand
    <3>2. (Busy(r)' <=> Busy(r)) /\ (Busy(s)' <=> Busy(s)) /\ ~Within(On("attached", r), new) /\ ~Within(On("attached", s), new)
      BY <1>3, <1>21 DEF Busy
    <3>3. QED
      BY <1>1, <3>1, <3>2 DEF SessionsApart
  <2>3. QED
    BY <2>1, <2>2 DEF SessionsStand, Sessions
<1>13. NavigationsStand'
  BY <1>1, <1>2, <1>3, <1>4, <1>5, <1>21 DEF NavigationsStand, Navigated, Sessions
<1>14. CreationsStand'
  <2>1. SUFFICES ASSUME NEW d \in Worlds, Due(Created(d))' PROVE CreationStands(d)'
    BY DEF CreationsStand
  <2>2. CASE d = n
    <3>1. ~Follows(Created(d), Created(d))'
      BY <1>1, <1>6, <1>7, <2>2
    <3>2. setup[p] = "on" /\ ~Due(Navigated) /\ ~Due(On("detached", p)) /\ ~Due(On("failed", p))
          /\ (Kid \in Listed => tracked[Kid].by = p)
      <4>1. setup[p] = "on"
        BY <1>1, <1>6, <1>7, <1>21, <2>1, <2>2
      <4>2. QED
        BY <1>2, <1>4, <4>1 DEF NavigationsStand, SessionsStand, SessionStands
    <3>3. ~Follows(Created(d), Navigated)' /\ ~Follows(Created(d), On("detached", p))' /\ ~Follows(Created(d), On("failed", p))'
      BY <1>1, <1>21, <3>2 DEF Navigated
    <3>4. QED
      BY <1>2, <1>3, <1>5, <1>17, <2>2, <3>1, <3>2, <3>3 DEF CreationStands, Sessions, Top, Kid
  <2>3. CASE d # n
    <3>1. CreationStands(d) /\ Due(Created(d)) /\ ~Within(Created(d), new)
      BY <1>1, <1>4, <1>21, <2>1, <2>3 DEF CreationsStand
    <3>2. d.frame = Kid /\ d.by = 0 => d \notin contexts
      BY <1>2, <1>4 DEF WorldsStand, Sessions, Top, Kid
    <3>4. QED
      BY <1>1, <1>3, <1>5, <3>1, <3>2 DEF CreationStands, Sessions
  <2>4. QED
    BY <2>2, <2>3
<1>15. HoldsStand'
  <2>1. ScriptRunsInItsFrame'
    BY <1>3, <1>4 DEF HoldsStand, ScriptRunsInItsFrame
  <2>2. ASSUME Kid \in Listed', tracked'[Kid].by = 0, tracked'[Kid].ctx # 0
        PROVE  /\ <<0, tracked'[Kid].ctx, Kid>> \in filed'
               /\ Held' \in contexts' \/ Held' \in dying' \/ Due(Destroyed(Held))' \/ Due(On("cleared", 0))'
    <3>2. Held' = Held /\ Held.frame = Kid /\ Held.by = 0
      BY <1>3 DEF Held, Context
    <3>5. /\ <<0, tracked[Kid].ctx, Kid>> \in filed
          /\ Held \in contexts \/ Held \in dying \/ Due(Destroyed(Held)) \/ Due(On("cleared", 0))
      BY <1>3, <1>4, <2>2 DEF HoldsStand
    <3>6. Held \in contexts' \/ Held \in dying' \/ Due(Destroyed(Held))' \/ Due(On("cleared", 0))'
      <4>1. Held \notin contexts
        BY <1>2, <1>4, <3>2 DEF WorldsStand, Sessions, Top, Kid
      <4>3. QED
        BY <1>1, <1>3, <3>2, <3>5, <4>1
    <3>7. QED
      BY <1>3, <3>2, <3>5, <3>6
  <2>4. QED
    BY <2>1, <2>2 DEF HoldsStand
<1>16. LatestStands'
  <2>1. SUFFICES ASSUME NEW k \in contexts', Reported(k)' PROVE Settles(k)'
    BY DEF LatestStands
  <2>2. k \in Worlds /\ k.default /\ setup[k.by] = "on"
    BY <1>3, <1>4, <1>10, <2>1 DEF Reported, FrameTypes
  <2>3. \A e : Upsets(k, e)' = Upsets(k, e)
    BY DEF Upsets, Worlds
  <2>4. CASE k = n
    <3>1. Due(Created(k))'
      BY <1>1, <1>2, <1>6, <1>17, <2>2, <2>4
    <3>2. \A e \in Tellings : Upsets(k, e) => ~Follows(e, Created(k))'
      <4>1. \A e : Upsets(k, e) => ~Behind(Created(n), e, new)
        BY <1>6, <2>4, TellingsDiffer DEF Upsets, Navigated
      <4>2. QED
        BY <1>1, <1>7, <2>4, <4>1
    <3>3. QED
      BY <2>3, <3>1, <3>2 DEF Settles
  <2>5. CASE k # n
    <3>1. k \in contexts /\ Settles(k)
      BY <1>3, <1>4, <2>1, <2>2, <2>5 DEF LatestStands, Reported
    <3>2. \A e : Upsets(k, e) => ~Within(e, new)
      <4>1. k.frame = Top /\ k.by = 0 /\ p # 0
        BY <1>2, <1>3, <1>4, <2>1, <2>2, <2>5 DEF Of, Worlds, WorldsStand, Sessions
      <4>2. SUFFICES ASSUME NEW e, Upsets(k, e), Within(e, new) PROVE FALSE
        OBVIOUS
      <4>3. CASE e = On("cleared", p)
        BY <4>1, <4>2, <4>3, TellingsDiffer DEF Upsets, Navigated, Top, Kid
      <4>4. CASE e = Created(n)
        BY <1>17, <4>1, <4>2, <4>4, TellingsDiffer DEF Upsets, Navigated, Top, Kid
      <4>6. QED
        BY <1>6, <4>2, <4>3, <4>4
    <3>3. CASE Due(Created(k)) /\ \A e \in Tellings : Upsets(k, e) => ~Follows(e, Created(k))
      BY <1>1, <2>3, <3>2, <3>3 DEF Settles
    <3>4. CASE /\ \A e \in Tellings : Upsets(k, e) => ~Due(e)
               /\ k.frame \in Listed /\ tracked[k.frame].by = k.by => tracked[k.frame].ctx = k.id
      BY <1>1, <1>3, <2>3, <3>2, <3>4 DEF Settles
    <3>5. QED
      BY <3>1, <3>3, <3>4 DEF Settles
  <2>6. QED
    BY <2>4, <2>5
<1>20. QED
  BY <1>1, <1>8, <1>9, <1>10, <1>11, <1>12, <1>13, <1>14, <1>15, <1>16 DEF FrameInv

LEMMA WorldAddedKeeps ==
  ASSUME FrameInv, NEW g \in {Top, Kid}, WorldAdded(g)
  PROVE  FrameInv'
<1>4. /\ FrameTypes /\ WorldsStand /\ BuriedStand /\ IdsStand /\ SessionsStand /\ NavigationsStand
      /\ CreationsStand /\ HoldsStand /\ LatestStands
  BY DEF FrameInv
<1>22. PICK p \in Processes : /\ p = (CHOOSE c \in Of(g) : TRUE).by
                             /\ p = IF g = Top THEN 0 ELSE home
  <2>1. PICK c \in Of(g) : c = CHOOSE k \in Of(g) : TRUE
    BY DEF WorldAdded
  <2>2. c \in contexts /\ c.frame = g /\ c \in Worlds
    BY <1>4 DEF Of, FrameTypes
  <2>3. QED
    BY <1>4, <2>1, <2>2 DEF WorldsStand, Worlds
<1> DEFINE new0 == Context(g, p, NextId(p), FALSE)
           s0 == Tells(Created(new0))
<1>17. PICK n \in Worlds : /\ n = new0 /\ n.frame = g /\ n.by = p /\ ~n.default /\ n.id = given[p] + 1
                          /\ ~Mentioned(n)
  <2>1. FALSE \in BOOLEAN
    OBVIOUS
  <2>2. /\ new0 \in Worlds /\ new0.frame = g /\ new0.by = p /\ new0.default = FALSE /\ new0.id = given[p] + 1
        /\ ~Mentioned(new0)
    BY <1>22, <2>1, FreshIs
  <2>3. QED
    BY <2>2
<1>3. /\ home' = home /\ contexts' = contexts \union {n} /\ dying' = dying /\ given' = [given EXCEPT ![n.by] = @ + 1]
      /\ /\ allFrames' = allFrames /\ chosen' = chosen /\ ran' = ran
      /\ tracked' = tracked /\ filed' = filed /\ setup' = setup /\ selected' = selected /\ Listed' = Listed
      /\ inFlight' = inFlight \o s0
  BY <1>17, <1>22 DEF WorldAdded, Emit, Moves, client, Keeps, Listed
<1>2. PICK new \in Seq(Tellings) : new = s0 /\ inFlight' = inFlight \o new
  BY <1>3, <1>17, TellingsAre, TellsIs
<1>1. /\ inFlight' \in Seq(Tellings)
      /\ \A e : Due(e)' <=> Due(e) \/ Within(e, new)
      /\ \A d, e : Follows(e, d)' <=> Follows(e, d) \/ Behind(d, e, new) \/ (Due(d) /\ Within(e, new))
      /\ \A d, e : Follows(e, d) => Due(d) /\ Due(e)
      /\ \A d, e : Follows(e, d)' => Due(d)' /\ Due(e)'
      /\ \A d, e : Behind(d, e, new) => Within(d, new) /\ Within(e, new)
  BY <1>2, <1>3, <1>4, Emitted, BothWithin DEF FrameTypes
<1>6. /\ \A e : Within(e, new) <=> setup[p] = "on" /\ e = Created(n)
      /\ \A d, e : ~Behind(d, e, new)
  <2>1. Created(n) \in Tellings /\ (Heard(Created(n)) <=> setup[p] = "on")
    BY <1>17, HeardIs, TellingsAre
  <2>2. QED
    BY <1>2, <1>17, <2>1, TellsIs
<1> HIDE DEF s0, new0
<1>7. /\ n.id = given[n.by] + 1 /\ ~Mentioned(n) /\ ~Due(Created(n)) /\ ~Due(Destroyed(n))
      /\ n \notin contexts /\ n \notin dying
  BY <1>17 DEF Mentioned
<1>5. /\ home' \in Processes \union {Gone} /\ contexts' \subseteq Worlds /\ IsFiniteSet(contexts') /\ dying' \subseteq Worlds
      /\ given' \in [Processes -> Nat] /\ Gone \notin Processes /\ 0 \in Processes
      /\ \A r \in Processes : given'[r] = 0 => given[r] = 0
  <2>1. contexts' \subseteq Worlds /\ IsFiniteSet(contexts')
    <3>1. IsFiniteSet(contexts) /\ contexts \subseteq Worlds
      BY <1>4, FS_Subset DEF FrameTypes
    <3>2. IsFiniteSet((contexts) \union {n})
      BY <3>1, FS_AddElement
    <3>3. QED
      BY <1>3, <3>1, <3>2
  <2>2. given' \in [Processes -> Nat] /\ \A r \in Processes : given'[r] = 0 => given[r] = 0
    BY <1>3, <1>4, <1>17 DEF FrameTypes, Worlds
  <2>3. Gone \notin Processes /\ 0 \in Processes
    BY RenderersAssumption DEF Gone, Processes
  <2>4. QED
    BY <1>3, <1>4, <2>1, <2>2, <2>3 DEF FrameTypes, Of
<1>21. /\ \A a, s : ~Within(On(a, s), new)
       /\ \A c : ~Within(Destroyed(c), new)
       /\ \A c : Within(Created(c), new) => c = n /\ setup[p] = "on"
  <2>1. \A a, s : ~Within(On(a, s), new)
    BY <1>6, TellingsDiffer
  <2>2. \A c : ~Within(Destroyed(c), new)
    BY <1>6, TellingsDiffer
  <2>3. \A c : Within(Created(c), new) => c = n /\ setup[p] = "on"
    BY <1>6, TellingsDiffer
  <2>4. QED
    BY <2>1, <2>2, <2>3
<1>8. WorldsStand'
  BY <1>3, <1>4, <1>17, <1>22 DEF WorldsStand, Top, Kid
<1>9. BuriedStand'
  BY <1>1, <1>3, <1>4, <1>7, <1>21 DEF BuriedStand
<1>10. FrameTypes'
  BY <1>1, <1>3, <1>4, <1>5 DEF FrameTypes
<1>11. IdsStand'
  <2>1. \A c : Mentioned(c)' => Mentioned(c) \/ c = n
    BY <1>1, <1>3, <1>21 DEF Mentioned
  <2>2. \A f \in Listed : Seated(f)' => Seated(f)
    BY <1>3 DEF Seated
  <2>3. QED
    BY <1>3, <1>7, <2>1, <2>2, GivenIds
<1>12. SessionsStand'
  <2>1. ASSUME NEW r \in Sessions PROVE SessionStands(r)'
    <3>1. SessionStands(r) /\ r \in Processes
      BY <1>4 DEF SessionsStand, Sessions
    <3>2. ~Within(On("attached", r), new) /\ ~Within(On("failed", r), new) /\ ~Within(On("tree", r), new) /\ ~Within(On("detached", r), new)
      BY <1>21
    <3>3. (given'[r] = 0 => given[r] = 0) /\ (Busy(r)' <=> Busy(r))
      BY <1>3, <1>5, <3>1 DEF Busy
    <3>4. ~Behind(On("attached", r), On("attached", r), new) /\ ~Behind(On("attached", r), On("detached", r), new)
      BY <1>1, <3>2
    <3>5. QED
      BY <1>1, <1>3, <3>1, <3>2, <3>3, <3>4 DEF SessionStands
  <2>2. ASSUME NEW r \in Sessions, NEW s \in Sessions, r # s PROVE SessionsApart(r, s)'
    <3>1. SessionsApart(r, s)
      BY <1>4, <2>2 DEF SessionsStand
    <3>2. (Busy(r)' <=> Busy(r)) /\ (Busy(s)' <=> Busy(s)) /\ ~Within(On("attached", r), new) /\ ~Within(On("attached", s), new)
      BY <1>3, <1>21 DEF Busy
    <3>3. QED
      BY <1>1, <3>1, <3>2 DEF SessionsApart
  <2>3. QED
    BY <2>1, <2>2 DEF SessionsStand, Sessions
<1>13. NavigationsStand'
  BY <1>1, <1>3, <1>4, <1>5, <1>21 DEF NavigationsStand, Navigated, Sessions
<1>14. CreationsStand'
  <2>1. SUFFICES ASSUME NEW d \in Worlds, Due(Created(d))' PROVE CreationStands(d)'
    BY DEF CreationsStand
  <2>2. CASE d = n
    <3>1. ~Follows(Created(d), Created(d))' /\ setup[p] = "on"
      BY <1>1, <1>6, <1>7, <2>1, <2>2
    <3>2. CASE p = 0
      <4>1. ~(d.frame = Kid /\ home \in Sessions /\ d.by # home)
        BY <1>17, <1>22, <2>2 DEF Top, Kid
      <4>2. QED
        BY <1>3, <1>17, <2>2, <3>1, <3>2, <4>1 DEF CreationStands
    <3>3. CASE p # 0
      <4>1. g = Kid /\ p = home /\ home \in Sessions /\ Top # Kid
        BY <1>22, <3>3 DEF Sessions, Top, Kid
      <4>2. ~Due(Navigated) /\ ~Due(On("detached", p)) /\ ~Due(On("failed", p)) /\ (Kid \in Listed => tracked[Kid].by = p)
        BY <1>4, <3>1, <4>1 DEF NavigationsStand, SessionsStand, SessionStands
      <4>3. ~Follows(Created(d), Navigated)' /\ ~Follows(Created(d), On("detached", p))' /\ ~Follows(Created(d), On("failed", p))'
        BY <1>1, <1>21, <4>2 DEF Navigated
      <4>4. QED
        BY <1>3, <1>17, <2>2, <3>1, <3>3, <4>1, <4>2, <4>3 DEF CreationStands
    <3>4. QED
      BY <3>2, <3>3
  <2>3. CASE d # n
    <3>1. CreationStands(d) /\ Due(Created(d)) /\ ~Within(Created(d), new)
      BY <1>1, <1>4, <1>21, <2>1, <2>3 DEF CreationsStand
    <3>4. QED
      BY <1>1, <1>3, <1>5, <3>1 DEF CreationStands, Sessions
  <2>4. QED
    BY <2>2, <2>3
<1>15. HoldsStand'
  <2>1. ScriptRunsInItsFrame'
    BY <1>3, <1>4 DEF HoldsStand, ScriptRunsInItsFrame
  <2>2. ASSUME Kid \in Listed', tracked'[Kid].by = 0, tracked'[Kid].ctx # 0
        PROVE  /\ <<0, tracked'[Kid].ctx, Kid>> \in filed'
               /\ Held' \in contexts' \/ Held' \in dying' \/ Due(Destroyed(Held))' \/ Due(On("cleared", 0))'
    <3>2. Held' = Held /\ Held.frame = Kid /\ Held.by = 0
      BY <1>3 DEF Held, Context
    <3>5. /\ <<0, tracked[Kid].ctx, Kid>> \in filed
          /\ Held \in contexts \/ Held \in dying \/ Due(Destroyed(Held)) \/ Due(On("cleared", 0))
      BY <1>3, <1>4, <2>2 DEF HoldsStand
    <3>6. Held \in contexts' \/ Held \in dying' \/ Due(Destroyed(Held))' \/ Due(On("cleared", 0))'
      BY <1>1, <1>3, <3>2, <3>5
    <3>7. QED
      BY <1>3, <3>2, <3>5, <3>6
  <2>4. QED
    BY <2>1, <2>2 DEF HoldsStand
<1>16. LatestStands'
  <2>1. SUFFICES ASSUME NEW k \in contexts', Reported(k)' PROVE Settles(k)'
    BY DEF LatestStands
  <2>2. k \in Worlds /\ k.default /\ setup[k.by] = "on"
    BY <1>3, <1>4, <1>10, <2>1 DEF Reported, FrameTypes
  <2>3. \A e : Upsets(k, e)' = Upsets(k, e)
    BY DEF Upsets, Worlds
  <2>4. CASE k = n
    BY <1>17, <2>2, <2>4
  <2>5. CASE k # n
    <3>1. k \in contexts /\ Settles(k)
      BY <1>3, <1>4, <2>1, <2>2, <2>5 DEF LatestStands, Reported
    <3>2. \A e : Upsets(k, e) => ~Within(e, new)
      BY <1>6, <1>17, TellingsDiffer DEF Upsets, Navigated
    <3>3. CASE Due(Created(k)) /\ \A e \in Tellings : Upsets(k, e) => ~Follows(e, Created(k))
      BY <1>1, <2>3, <3>2, <3>3 DEF Settles
    <3>4. CASE /\ \A e \in Tellings : Upsets(k, e) => ~Due(e)
               /\ k.frame \in Listed /\ tracked[k.frame].by = k.by => tracked[k.frame].ctx = k.id
      BY <1>1, <1>3, <2>3, <3>2, <3>4 DEF Settles
    <3>5. QED
      BY <3>1, <3>3, <3>4 DEF Settles
  <2>6. QED
    BY <2>4, <2>5
<1>20. QED
  BY <1>1, <1>8, <1>9, <1>10, <1>11, <1>12, <1>13, <1>14, <1>15, <1>16 DEF FrameInv

LEMMA DeathKeeps ==
  ASSUME FrameInv, DeathIsTold
  PROVE  FrameInv'
<1>4. /\ FrameTypes /\ WorldsStand /\ BuriedStand /\ IdsStand /\ SessionsStand /\ NavigationsStand
      /\ CreationsStand /\ HoldsStand /\ LatestStands
  BY DEF FrameInv
<1>17. PICK b \in dying : dying' = dying \ {b} /\ Emit(Tells(Destroyed(b)))
  BY DEF DeathIsTold
<1>3. /\ home' = home /\ contexts' = contexts /\ dying' = dying \ {b} /\ given' = given
      /\ /\ allFrames' = allFrames /\ chosen' = chosen /\ ran' = ran
      /\ tracked' = tracked /\ filed' = filed /\ setup' = setup /\ selected' = selected /\ Listed' = Listed
      /\ inFlight' = inFlight \o Tells(Destroyed(b))
  BY <1>17 DEF DeathIsTold, Emit, Moves, client, Keeps, Listed
<1>18. b \in Worlds /\ b.by = 0 /\ b.frame = Kid /\ b \notin contexts
  BY <1>4 DEF BuriedStand, FrameTypes
<1>2. PICK new \in Seq(Tellings) : new = Tells(Destroyed(b)) /\ inFlight' = inFlight \o new
  BY <1>3, <1>18, TellingsAre, TellsIs
<1>1. /\ inFlight' \in Seq(Tellings)
      /\ \A e : Due(e)' <=> Due(e) \/ Within(e, new)
      /\ \A d, e : Follows(e, d)' <=> Follows(e, d) \/ Behind(d, e, new) \/ (Due(d) /\ Within(e, new))
      /\ \A d, e : Follows(e, d) => Due(d) /\ Due(e)
      /\ \A d, e : Follows(e, d)' => Due(d)' /\ Due(e)'
      /\ \A d, e : Behind(d, e, new) => Within(d, new) /\ Within(e, new)
  BY <1>2, <1>3, <1>4, Emitted, BothWithin DEF FrameTypes
<1>6. /\ \A e : Within(e, new) <=> e = Destroyed(b)
      /\ \A d, e : ~Behind(d, e, new)
  <2>1. Destroyed(b) \in Tellings /\ Heard(Destroyed(b))
    BY <1>4, <1>18, HeardIs, TellingsAre DEF FrameTypes
  <2>2. QED
    BY <1>2, <2>1, TellsIs
<1>21. /\ \A a, s : ~Within(On(a, s), new)
       /\ \A c : Within(Destroyed(c), new) <=> c = b
       /\ \A c : ~Within(Created(c), new)
  <2>1. \A a, s : ~Within(On(a, s), new)
    BY <1>6, TellingsDiffer
  <2>2. \A c : Within(Destroyed(c), new) <=> c = b
    BY <1>6, TellingsDiffer
  <2>3. \A c : ~Within(Created(c), new)
    BY <1>6, TellingsDiffer
  <2>4. QED
    BY <2>1, <2>2, <2>3
<1>5. \A r \in Processes : given'[r] = 0 => given[r] = 0
  BY <1>3
<1>8. WorldsStand'
  BY <1>3, <1>4 DEF WorldsStand
<1>9. BuriedStand'
  BY <1>1, <1>3, <1>4, <1>18, <1>21 DEF BuriedStand
<1>10. FrameTypes'
  BY <1>1, <1>3, <1>4 DEF FrameTypes
<1>11. IdsStand'
  <2>1. \A c : Mentioned(c)' => Mentioned(c)
    BY <1>1, <1>3, <1>21 DEF Mentioned
  <2>2. QED
    BY <1>3, <1>4, <2>1 DEF IdsStand, Seated
<1>12. SessionsStand'
  <2>1. ASSUME NEW r \in Sessions PROVE SessionStands(r)'
    <3>1. SessionStands(r) /\ r \in Processes
      BY <1>4 DEF SessionsStand, Sessions
    <3>2. ~Within(On("attached", r), new) /\ ~Within(On("failed", r), new) /\ ~Within(On("tree", r), new) /\ ~Within(On("detached", r), new)
      BY <1>21
    <3>3. (given'[r] = 0 => given[r] = 0) /\ (Busy(r)' <=> Busy(r))
      BY <1>3, <1>5, <3>1 DEF Busy
    <3>4. ~Behind(On("attached", r), On("attached", r), new) /\ ~Behind(On("attached", r), On("detached", r), new)
      BY <1>1, <3>2
    <3>5. QED
      BY <1>1, <1>3, <3>1, <3>2, <3>3, <3>4 DEF SessionStands
  <2>2. ASSUME NEW r \in Sessions, NEW s \in Sessions, r # s PROVE SessionsApart(r, s)'
    <3>1. SessionsApart(r, s)
      BY <1>4, <2>2 DEF SessionsStand
    <3>2. (Busy(r)' <=> Busy(r)) /\ (Busy(s)' <=> Busy(s)) /\ ~Within(On("attached", r), new) /\ ~Within(On("attached", s), new)
      BY <1>3, <1>21 DEF Busy
    <3>3. QED
      BY <1>1, <3>1, <3>2 DEF SessionsApart
  <2>3. QED
    BY <2>1, <2>2 DEF SessionsStand, Sessions
<1>13. NavigationsStand'
  BY <1>1, <1>3, <1>4, <1>21 DEF NavigationsStand, Navigated
<1>14. CreationsStand'
  <2>1. SUFFICES ASSUME NEW d \in Worlds, Due(Created(d))' PROVE CreationStands(d)'
    BY DEF CreationsStand
  <2>2. CreationStands(d) /\ Due(Created(d)) /\ ~Within(Created(d), new)
    BY <1>1, <1>4, <1>21, <2>1 DEF CreationsStand
  <2>3. d = b => Follows(Destroyed(d), Created(d))'
    BY <1>1, <1>21, <2>2
  <2>4. QED
    BY <1>1, <1>3, <1>21, <2>2, <2>3 DEF CreationStands
<1>15. HoldsStand'
  <2>1. ScriptRunsInItsFrame'
    BY <1>3, <1>4 DEF HoldsStand, ScriptRunsInItsFrame
  <2>2. ASSUME Kid \in Listed', tracked'[Kid].by = 0, tracked'[Kid].ctx # 0
        PROVE  /\ <<0, tracked'[Kid].ctx, Kid>> \in filed'
               /\ Held' \in contexts' \/ Held' \in dying' \/ Due(Destroyed(Held))' \/ Due(On("cleared", 0))'
    <3>2. Held' = Held /\ Held.frame = Kid /\ Held.by = 0
      BY <1>3 DEF Held, Context
    <3>5. /\ <<0, tracked[Kid].ctx, Kid>> \in filed
          /\ Held \in contexts \/ Held \in dying \/ Due(Destroyed(Held)) \/ Due(On("cleared", 0))
      BY <1>3, <1>4, <2>2 DEF HoldsStand
    <3>6. Held \in contexts' \/ Held \in dying' \/ Due(Destroyed(Held))' \/ Due(On("cleared", 0))'
      <4>1. Held = b => Due(Destroyed(Held))'
        BY <1>1, <1>21, <3>2
      <4>2. QED
        BY <1>1, <1>3, <3>2, <3>5, <4>1
    <3>7. QED
      BY <1>3, <3>2, <3>5, <3>6
  <2>4. QED
    BY <2>1, <2>2 DEF HoldsStand
<1>16. LatestStands'
  <2>1. SUFFICES ASSUME NEW k \in contexts, Reported(k)' PROVE Settles(k)'
    BY <1>3 DEF LatestStands
  <2>2. Settles(k)
    BY <1>3, <1>4, <2>1 DEF LatestStands, Reported
  <2>3. \A e : Upsets(k, e)' = Upsets(k, e)
    BY DEF Upsets, Worlds
  <2>4. \A e : Upsets(k, e) => ~Within(e, new)
    BY <1>6, TellingsDiffer DEF Upsets, Navigated
  <2>5. CASE Due(Created(k)) /\ \A e \in Tellings : Upsets(k, e) => ~Follows(e, Created(k))
    BY <1>1, <2>3, <2>4, <2>5 DEF Settles
  <2>6. CASE /\ \A e \in Tellings : Upsets(k, e) => ~Due(e)
             /\ k.frame \in Listed /\ tracked[k.frame].by = k.by => tracked[k.frame].ctx = k.id
    BY <1>1, <1>3, <2>3, <2>4, <2>6 DEF Settles
  <2>7. QED
    BY <2>2, <2>5, <2>6 DEF Settles
<1>20. QED
  BY <1>1, <1>8, <1>9, <1>10, <1>11, <1>12, <1>13, <1>14, <1>15, <1>16 DEF FrameInv

LEMMA MovesOutKeeps ==
  ASSUME FrameInv, NEW p \in Sessions, MovesOut(p)
  PROVE  FrameInv'
<1>4. /\ FrameTypes /\ WorldsStand /\ BuriedStand /\ IdsStand /\ SessionsStand /\ NavigationsStand
      /\ CreationsStand /\ HoldsStand /\ LatestStands
  BY DEF FrameInv
<1> DEFINE new0 == Context(Kid, p, NextId(p), TRUE)
           s0 == Tells(On("attached", p))
           s1 == Tells(On("swapped", Kid))
<1>17. PICK n \in Worlds : /\ n = new0 /\ n.frame = Kid /\ n.by = p /\ n.default /\ n.id = given[p] + 1
                          /\ ~Mentioned(n)
  BY FreshIs DEF Sessions
<1>3. /\ home' = p /\ contexts' = (contexts \ Of(Kid)) \union {n} /\ dying' = dying \union Of(Kid) /\ given' = [given EXCEPT ![n.by] = @ + 1]
      /\ /\ allFrames' = allFrames /\ chosen' = chosen /\ ran' = ran
      /\ tracked' = tracked /\ filed' = filed /\ setup' = setup /\ selected' = selected /\ Listed' = Listed
      /\ home = 0 /\ given[p] = 0
      /\ inFlight' = inFlight \o s0 \/ inFlight' = inFlight \o (s0 \o s1) \/ inFlight' = inFlight \o (s1 \o s0)
  BY <1>17 DEF MovesOut, Replaces, Emit, New, Moves, client, Keeps, Listed
<1>18. /\ s0 \in Seq(Tellings) /\ s1 \in Seq(Tellings)
       /\ \A e : Within(e, s0) <=> allFrames /\ e = On("attached", p)
       /\ \A e : Within(e, s1) <=> e = On("swapped", Kid)
       /\ \A d, e : ~Behind(d, e, s0) /\ ~Behind(d, e, s1)
  <2>1. On("attached", p) \in Tellings /\ On("swapped", Kid) \in Tellings
    BY TellingsAre
  <2>2. Heard(On("swapped", Kid)) /\ (Heard(On("attached", p)) <=> allFrames)
    BY HeardIs
  <2>3. QED
    BY <2>1, <2>2, TellsIs
<1> HIDE DEF s0, s1, new0
<1>19. /\ s0 \o s1 \in Seq(Tellings) /\ s1 \o s0 \in Seq(Tellings)
       /\ \A e : Within(e, s0 \o s1) <=> Within(e, s0) \/ Within(e, s1)
       /\ \A d, e : Behind(d, e, s0 \o s1) <=> Behind(d, e, s0) \/ Behind(d, e, s1) \/ (Within(d, s0) /\ Within(e, s1))
       /\ \A e : Within(e, s1 \o s0) <=> Within(e, s0) \/ Within(e, s1)
       /\ \A d, e : Behind(d, e, s1 \o s0) <=> Behind(d, e, s0) \/ Behind(d, e, s1) \/ (Within(d, s1) /\ Within(e, s0))
  BY <1>18, WithinConcat, ConcatProperties
<1>2. PICK new \in Seq(Tellings) : inFlight' = inFlight \o new /\ (new = s0 \/ new = s0 \o s1 \/ new = s1 \o s0)
  BY <1>3, <1>18, <1>19
<1>1. /\ inFlight' \in Seq(Tellings)
      /\ \A e : Due(e)' <=> Due(e) \/ Within(e, new)
      /\ \A d, e : Follows(e, d)' <=> Follows(e, d) \/ Behind(d, e, new) \/ (Due(d) /\ Within(e, new))
      /\ \A d, e : Follows(e, d) => Due(d) /\ Due(e)
      /\ \A d, e : Follows(e, d)' => Due(d)' /\ Due(e)'
      /\ \A d, e : Behind(d, e, new) => Within(d, new) /\ Within(e, new)
  BY <1>2, <1>3, <1>4, Emitted, BothWithin DEF FrameTypes
<1>6. /\ \A e : Within(e, new) => (allFrames /\ e = On("attached", p)) \/ e = On("swapped", Kid)
      /\ allFrames => Within(On("attached", p), new)
      /\ \A d, e : Behind(d, e, new) => d # e
  <2>1. On("attached", p) # On("swapped", Kid)
    BY TellingsDiffer
  <2>2. CASE new = s0
    BY <1>18, <2>2
  <2>3. CASE new = s0 \o s1
    BY <1>18, <1>19, <2>1, <2>3
  <2>4. CASE new = s1 \o s0
    BY <1>18, <1>19, <2>1, <2>4
  <2>5. QED
    BY <1>2, <2>2, <2>3, <2>4
<1>7. /\ n.id = given[n.by] + 1 /\ ~Mentioned(n) /\ ~Due(Created(n)) /\ ~Due(Destroyed(n))
      /\ n \notin contexts /\ n \notin dying
  BY <1>17 DEF Mentioned
<1>5. /\ home' \in Processes \union {Gone} /\ contexts' \subseteq Worlds /\ IsFiniteSet(contexts') /\ dying' \subseteq Worlds
      /\ given' \in [Processes -> Nat] /\ Gone \notin Processes /\ 0 \in Processes
      /\ \A r \in Processes : given'[r] = 0 => given[r] = 0
  <2>1. contexts' \subseteq Worlds /\ IsFiniteSet(contexts')
    <3>1. IsFiniteSet(contexts \ Of(Kid)) /\ contexts \ Of(Kid) \subseteq Worlds
      BY <1>4, FS_Subset DEF FrameTypes
    <3>2. IsFiniteSet((contexts \ Of(Kid)) \union {n})
      BY <3>1, FS_AddElement
    <3>3. QED
      BY <1>3, <3>1, <3>2
  <2>2. given' \in [Processes -> Nat] /\ \A r \in Processes : given'[r] = 0 => given[r] = 0
    BY <1>3, <1>4, <1>17 DEF FrameTypes, Worlds
  <2>3. Gone \notin Processes /\ 0 \in Processes
    BY RenderersAssumption DEF Gone, Processes
  <2>4. QED
    BY <1>3, <1>4, <2>1, <2>2, <2>3 DEF FrameTypes, Of, Sessions
<1>21. /\ \A a, s : Within(On(a, s), new) => (a = "attached" /\ s = p /\ allFrames) \/ a = "swapped"
       /\ \A c : ~Within(Destroyed(c), new)
       /\ \A c : ~Within(Created(c), new)
  <2>1. ASSUME NEW a, NEW s, Within(On(a, s), new) PROVE (a = "attached" /\ s = p /\ allFrames) \/ a = "swapped"
    <3>1. (allFrames /\ On(a, s) = On("attached", p)) \/ On(a, s) = On("swapped", Kid)
      BY <1>6, <2>1
    <3>2. QED
      BY <3>1, TellingsDiffer
  <2>2. \A c : ~Within(Destroyed(c), new)
    BY <1>6, TellingsDiffer
  <2>3. \A c : ~Within(Created(c), new)
    BY <1>6, TellingsDiffer
  <2>4. QED
    BY <2>1, <2>2, <2>3
<1>22. p # 0 /\ p \in Processes /\ Top # Kid /\ p # Gone
  BY <1>5 DEF Sessions, Top, Kid
<1>8. WorldsStand'
  BY <1>3, <1>4, <1>17, <1>22 DEF WorldsStand, Of, FrameTypes, Worlds
<1>9. BuriedStand'
  <2>1. SUFFICES ASSUME NEW c \in Worlds, c \in dying' \/ Due(Destroyed(c))'
                 PROVE  c.by = 0 /\ c.frame = Kid /\ c \notin contexts'
    BY DEF BuriedStand
  <2>2. CASE c \in dying \/ Due(Destroyed(c))
    BY <1>3, <1>4, <1>7, <2>2 DEF BuriedStand
  <2>3. CASE c \in Of(Kid)
    BY <1>3, <1>4, <1>7, <1>22, <2>3 DEF WorldsStand, Of
  <2>4. QED
    BY <1>1, <1>3, <1>21, <2>1, <2>2, <2>3
<1>10. FrameTypes'
  BY <1>1, <1>3, <1>4, <1>5 DEF FrameTypes
<1>11. IdsStand'
  <2>1. \A c : Mentioned(c)' => Mentioned(c) \/ c = n
    BY <1>1, <1>3, <1>21 DEF Mentioned, Of
  <2>2. \A f \in Listed : Seated(f)' => Seated(f)
    <3>1. ASSUME NEW f \in Listed, Seated(f)', f = Kid PROVE tracked[f].by # p
      BY <1>3, <1>4, <3>1 DEF SessionsStand, SessionStands
    <3>2. Listed \subseteq {Top, Kid} /\ tracked[Top].by = 0
      BY <1>4 DEF FrameTypes
    <3>3. QED
      BY <1>3, <3>1, <3>2 DEF Seated
  <2>3. QED
    BY <1>3, <1>7, <2>1, <2>2, GivenIds
<1>12. SessionsStand'
  <2>1. SessionStands(p)'
    <3>1. SessionStands(p) /\ given'[p] # 0 /\ setup[p] = "none"
      <4>1. SessionStands(p)
        BY <1>4 DEF SessionsStand
      <4>2. given'[p] = given[p] + 1
        BY <1>3, <1>4, <1>17, <1>22 DEF FrameTypes
      <4>3. QED
        BY <1>3, <4>1, <4>2 DEF SessionStands
    <3>2. ~Due(On("attached", p)) /\ ~Due(On("detached", p)) /\ ~Due(On("failed", p)) /\ ~Due(On("tree", p))
      BY <1>3, <3>1 DEF SessionStands
    <3>3. ~Within(On("failed", p), new) /\ ~Within(On("tree", p), new) /\ ~Within(On("detached", p), new)
      BY <1>21
    <3>4. ~Follows(On("attached", p), On("attached", p))' /\ ~Follows(On("attached", p), On("detached", p))'
      BY <1>1, <1>6, <3>2, <3>3
    <3>5. ~allFrames => ~Within(On("attached", p), new)
      BY <1>21
    <3>6. QED
      BY <1>1, <1>3, <3>1, <3>2, <3>3, <3>4, <3>5 DEF SessionStands
  <2>2. ASSUME NEW r \in Sessions, r # p PROVE SessionStands(r)'
    <3>1. SessionStands(r) /\ r \in Processes /\ r # 0
      BY <1>4 DEF SessionsStand, Sessions
    <3>2. ~Within(On("attached", r), new) /\ ~Within(On("failed", r), new) /\ ~Within(On("tree", r), new) /\ ~Within(On("detached", r), new)
      BY <1>21, <2>2
    <3>3. (given'[r] = 0 => given[r] = 0) /\ (Busy(r)' <=> Busy(r)) /\ home # r /\ home' # r
      BY <1>3, <1>5, <2>2, <3>1 DEF Busy
    <3>4. ~Behind(On("attached", r), On("attached", r), new) /\ ~Behind(On("attached", r), On("detached", r), new)
      BY <1>1, <3>2
    <3>5. QED
      BY <1>1, <1>3, <3>1, <3>2, <3>3, <3>4 DEF SessionStands
  <2>3. ASSUME NEW r \in Sessions, NEW s \in Sessions, r # s PROVE SessionsApart(r, s)'
    <3>1. SessionsApart(r, s) /\ SessionsApart(s, r) /\ SessionStands(r) /\ SessionStands(s) /\ r # 0 /\ s # 0
      BY <1>4, <2>3 DEF SessionsStand, Sessions
    <3>2. (Busy(r)' <=> Busy(r)) /\ (Busy(s)' <=> Busy(s))
      BY <1>3 DEF Busy
    <3>3. CASE r # p /\ s # p
      <4>1. ~Within(On("attached", r), new) /\ ~Within(On("attached", s), new)
        BY <1>21, <3>3
      <4>2. QED
        BY <1>1, <3>1, <3>2, <4>1 DEF SessionsApart
    <3>4. CASE r = p
      <4>1. ~Due(On("attached", r)) /\ ~Busy(r)
        BY <1>3, <3>1, <3>4 DEF SessionStands, Busy
      <4>2. home # s /\ (Busy(s) \/ Due(On("attached", s)) => Due(On("detached", s)))
        BY <1>3, <3>1 DEF SessionStands
      <4>3. ~Within(On("attached", s), new)
        BY <1>21, <2>3, <3>4
      <4>4. Due(On("attached", r))' => Within(On("attached", r), new)
        BY <1>1, <4>1
      <4>5. QED
        BY <1>1, <3>2, <4>1, <4>2, <4>3, <4>4 DEF SessionsApart
    <3>5. CASE s = p
      <4>1. ~Due(On("attached", s)) /\ ~Busy(s)
        BY <1>3, <3>1, <3>5 DEF SessionStands, Busy
      <4>2. home # r /\ (Busy(r) \/ Due(On("attached", r)) => Due(On("detached", r)))
        BY <1>3, <3>1 DEF SessionStands
      <4>3. ~Within(On("attached", r), new)
        BY <1>21, <2>3, <3>5
      <4>4. Due(On("attached", s))' => Within(On("attached", s), new)
        BY <1>1, <4>1
      <4>5. QED
        BY <1>1, <3>2, <4>1, <4>2, <4>3, <4>4 DEF SessionsApart
    <3>6. QED
      BY <3>3, <3>4, <3>5
  <2>4. QED
    BY <2>1, <2>2, <2>3 DEF SessionsStand, Sessions
<1>13. NavigationsStand'
  <2>1. SessionStands(p) /\ ~Due(On("attached", p)) /\ ~Due(On("tree", p)) /\ setup[p] = "none"
    <3>1. SessionStands(p)
      BY <1>4 DEF SessionsStand
    <3>2. QED
      BY <1>3, <3>1 DEF SessionStands
  <2>2. ~Within(On("cleared", 0), new) /\ ~Within(On("navigated", Top), new) /\ ~Within(Navigated, new) /\ ~Within(On("tree", p), new)
    BY <1>21 DEF Navigated
  <2>3. ~Due(On("cleared", 0))' /\ ~Due(On("navigated", Top))'
    BY <1>1, <1>3, <1>4, <1>5, <2>2 DEF NavigationsStand
  <2>4. ~Follows(Navigated, On("attached", p))' /\ ~Follows(Navigated, On("tree", p))'
    BY <1>1, <2>1, <2>2
  <2>5. QED
    BY <1>3, <2>1, <2>3, <2>4 DEF NavigationsStand, Navigated
<1>14. CreationsStand'
  <2>1. SUFFICES ASSUME NEW d \in Worlds, Due(Created(d))' PROVE CreationStands(d)'
    BY DEF CreationsStand
  <2>2. CreationStands(d) /\ Due(Created(d)) /\ ~Within(Created(d), new)
    BY <1>1, <1>4, <1>21, <2>1 DEF CreationsStand
  <2>3. d \in contexts /\ d.frame = Kid => d \in dying'
    BY <1>3 DEF Of
  <2>4. setup[p] = "none" /\ ~Due(On("attached", p))
    <3>1. SessionStands(p)
      BY <1>4 DEF SessionsStand
    <3>2. QED
      BY <1>3, <3>1 DEF SessionStands
  <2>5. ~Follows(Created(d), On("attached", p))'
    BY <1>1, <2>2, <2>4
  <2>6. QED
    BY <1>1, <1>3, <2>2, <2>3, <2>4, <2>5 DEF CreationStands
<1>15. HoldsStand'
  <2>1. ScriptRunsInItsFrame'
    BY <1>3, <1>4 DEF HoldsStand, ScriptRunsInItsFrame
  <2>2. ASSUME Kid \in Listed', tracked'[Kid].by = 0, tracked'[Kid].ctx # 0
        PROVE  /\ <<0, tracked'[Kid].ctx, Kid>> \in filed'
               /\ Held' \in contexts' \/ Held' \in dying' \/ Due(Destroyed(Held))' \/ Due(On("cleared", 0))'
    <3>2. Held' = Held /\ Held.frame = Kid /\ Held.by = 0
      BY <1>3 DEF Held, Context
    <3>5. /\ <<0, tracked[Kid].ctx, Kid>> \in filed
          /\ Held \in contexts \/ Held \in dying \/ Due(Destroyed(Held)) \/ Due(On("cleared", 0))
      BY <1>3, <1>4, <2>2 DEF HoldsStand
    <3>6. Held \in contexts' \/ Held \in dying' \/ Due(Destroyed(Held))' \/ Due(On("cleared", 0))'
      <4>1. Held \in contexts => Held \in dying'
        BY <1>3, <3>2 DEF Of
      <4>3. QED
        BY <1>1, <1>3, <3>2, <3>5, <4>1
    <3>7. QED
      BY <1>3, <3>2, <3>5, <3>6
  <2>4. QED
    BY <2>1, <2>2 DEF HoldsStand
<1>16. LatestStands'
  <2>1. SUFFICES ASSUME NEW k \in contexts', Reported(k)' PROVE Settles(k)'
    BY DEF LatestStands
  <2>2. k \in Worlds /\ k.default /\ setup[k.by] = "on"
    BY <1>3, <1>4, <1>10, <2>1 DEF Reported, FrameTypes
  <2>3. \A e : Upsets(k, e)' = Upsets(k, e)
    BY DEF Upsets, Worlds
  <2>4. CASE k = n
    <3>1. setup[p] = "none"
      <4>1. SessionStands(p)
        BY <1>4 DEF SessionsStand
      <4>2. QED
        BY <1>3, <4>1 DEF SessionStands
    <3>2. QED
      BY <1>17, <2>2, <2>4, <3>1
  <2>5. CASE k # n
    <3>1. k \in contexts /\ Settles(k)
      BY <1>3, <1>4, <2>1, <2>2, <2>5 DEF LatestStands, Reported
    <3>2. \A e : Upsets(k, e) => ~Within(e, new)
      <4>1. k.frame = Top
        BY <1>3, <2>1, <2>2, <2>5 DEF Of, Worlds
      <4>2. SUFFICES ASSUME NEW e, Upsets(k, e), Within(e, new) PROVE FALSE
        OBVIOUS
      <4>3. e = On("attached", p) \/ e = On("swapped", Kid)
        BY <1>6, <4>2
      <4>6. QED
        BY <4>2, <4>3, TellingsDiffer DEF Upsets, Navigated
    <3>3. CASE Due(Created(k)) /\ \A e \in Tellings : Upsets(k, e) => ~Follows(e, Created(k))
      BY <1>1, <2>3, <3>2, <3>3 DEF Settles
    <3>4. CASE /\ \A e \in Tellings : Upsets(k, e) => ~Due(e)
               /\ k.frame \in Listed /\ tracked[k.frame].by = k.by => tracked[k.frame].ctx = k.id
      BY <1>1, <1>3, <2>3, <3>2, <3>4 DEF Settles
    <3>5. QED
      BY <3>1, <3>3, <3>4 DEF Settles
  <2>6. QED
    BY <2>4, <2>5
<1>20. QED
  BY <1>1, <1>8, <1>9, <1>10, <1>11, <1>12, <1>13, <1>14, <1>15, <1>16 DEF FrameInv

LEMMA MovesBackKeeps ==
  ASSUME FrameInv, MovesBack
  PROVE  FrameInv'
<1>4. /\ FrameTypes /\ WorldsStand /\ BuriedStand /\ IdsStand /\ SessionsStand /\ NavigationsStand
      /\ CreationsStand /\ HoldsStand /\ LatestStands
  BY DEF FrameInv
<1> DEFINE new0 == Context(Kid, 0, NextId(0), TRUE)
           s0 == Tells(On("detached", home))
           s1 == Tells(On("navigated", Kid))
           s2 == Tells(Created(new0))
<1>17. PICK n \in Worlds : /\ n = new0 /\ n.frame = Kid /\ n.by = 0 /\ n.default /\ n.id = given[0] + 1
                          /\ ~Mentioned(n)
  <2>1. 0 \in Processes /\ Kid \in {Top, Kid}
    BY RenderersAssumption DEF Processes
  <2>2. QED
    BY <2>1, FreshIs
<1>3. /\ home' = 0 /\ contexts' = (contexts \ Of(Kid)) \union {n} /\ dying' = dying /\ given' = [given EXCEPT ![n.by] = @ + 1]
      /\ /\ allFrames' = allFrames /\ chosen' = chosen /\ ran' = ran
      /\ tracked' = tracked /\ filed' = filed /\ setup' = setup /\ selected' = selected /\ Listed' = Listed
      /\ home \in Sessions
      /\ \/ inFlight' = inFlight \o (s0 \o s1 \o s2)
         \/ inFlight' = inFlight \o (s1 \o s0 \o s2)
         \/ inFlight' = inFlight \o (s1 \o s2 \o s0)
  BY <1>17 DEF MovesBack, Replaces, Emit, New, Sessions, Moves, client, Keeps, Listed
<1>22. PICK p \in Sessions : p = home /\ p # 0 /\ p \in Processes
  BY <1>3 DEF Sessions
<1>18. /\ s0 \in Seq(Tellings) /\ s1 \in Seq(Tellings) /\ s2 \in Seq(Tellings)
       /\ \A e : Within(e, s0) <=> allFrames /\ e = On("detached", p)
       /\ \A e : Within(e, s1) <=> e = Navigated
       /\ \A e : Within(e, s2) <=> e = Created(n)
       /\ \A d, e : ~Behind(d, e, s0) /\ ~Behind(d, e, s1) /\ ~Behind(d, e, s2)
  <2>1. Navigated \in Tellings /\ Created(n) \in Tellings /\ On("detached", p) \in Tellings
    BY TellingsAre DEF Navigated
  <2>2. Heard(Navigated) /\ Heard(Created(n)) /\ (Heard(On("detached", p)) <=> allFrames)
    BY <1>4, <1>17, HeardIs DEF FrameTypes, Navigated
  <2>3. s0 \in Seq(Tellings) /\ (\A e : Within(e, s0) <=> allFrames /\ e = On("detached", p)) /\ (\A d, e : ~Behind(d, e, s0))
    BY <1>22, <2>1, <2>2, TellsIs
  <2>4. s1 \in Seq(Tellings) /\ (\A e : Within(e, s1) <=> e = Navigated) /\ (\A d, e : ~Behind(d, e, s1))
    BY <2>1, <2>2, TellsIs DEF Navigated
  <2>5. s2 \in Seq(Tellings) /\ (\A e : Within(e, s2) <=> e = Created(n)) /\ (\A d, e : ~Behind(d, e, s2))
    BY <1>17, <2>1, <2>2, TellsIs
  <2>7. QED
    BY <2>3, <2>4, <2>5
<1> HIDE DEF s0, s1, s2, new0
<1>19. ASSUME NEW x \in Seq(Tellings), NEW y \in Seq(Tellings), NEW z \in Seq(Tellings)
       PROVE  /\ x \o y \o z \in Seq(Tellings)
              /\ \A e : Within(e, x \o y \o z) <=> Within(e, x) \/ Within(e, y) \/ Within(e, z)
              /\ \A d, e : Behind(d, e, x \o y \o z) <=>
                   \/ Behind(d, e, x) \/ Behind(d, e, y) \/ Behind(d, e, z)
                   \/ Within(d, x) /\ (Within(e, y) \/ Within(e, z))
                   \/ Within(d, y) /\ Within(e, z)
  BY WithinTwo
<1>2. PICK new \in Seq(Tellings) : /\ inFlight' = inFlight \o new
                                   /\ new = s0 \o s1 \o s2 \/ new = s1 \o s0 \o s2 \/ new = s1 \o s2 \o s0
  BY <1>3, <1>18, <1>19
<1>1. /\ inFlight' \in Seq(Tellings)
      /\ \A e : Due(e)' <=> Due(e) \/ Within(e, new)
      /\ \A d, e : Follows(e, d)' <=> Follows(e, d) \/ Behind(d, e, new) \/ (Due(d) /\ Within(e, new))
      /\ \A d, e : Follows(e, d) => Due(d) /\ Due(e)
      /\ \A d, e : Follows(e, d)' => Due(d)' /\ Due(e)'
      /\ \A d, e : Behind(d, e, new) => Within(d, new) /\ Within(e, new)
  BY <1>2, <1>3, <1>4, Emitted, BothWithin DEF FrameTypes
<1>6. /\ \A e : Within(e, new) <=> (allFrames /\ e = On("detached", p)) \/ e = Navigated \/ e = Created(n)
      /\ \A e : Behind(Created(n), e, new) => e = On("detached", p)
  <2>1. Created(n) # Navigated /\ Created(n) # On("detached", p)
    BY TellingsDiffer DEF Navigated
  <2>2. CASE new = s0 \o s1 \o s2
    <3>1. /\ \A e : Within(e, new) <=> Within(e, s0) \/ Within(e, s1) \/ Within(e, s2)
          /\ \A d, e : Behind(d, e, new) <=>
                   \/ Behind(d, e, s0) \/ Behind(d, e, s1) \/ Behind(d, e, s2)
                   \/ Within(d, s0) /\ (Within(e, s1) \/ Within(e, s2))
                   \/ Within(d, s1) /\ Within(e, s2)
      BY <1>18, <1>19, <2>2
    <3>2. QED
      BY <1>18, <2>1, <3>1
  <2>3. CASE new = s1 \o s0 \o s2
    <3>1. /\ \A e : Within(e, new) <=> Within(e, s1) \/ Within(e, s0) \/ Within(e, s2)
          /\ \A d, e : Behind(d, e, new) <=>
                   \/ Behind(d, e, s1) \/ Behind(d, e, s0) \/ Behind(d, e, s2)
                   \/ Within(d, s1) /\ (Within(e, s0) \/ Within(e, s2))
                   \/ Within(d, s0) /\ Within(e, s2)
      BY <1>18, <1>19, <2>3
    <3>2. QED
      BY <1>18, <2>1, <3>1
  <2>4. CASE new = s1 \o s2 \o s0
    <3>1. /\ \A e : Within(e, new) <=> Within(e, s1) \/ Within(e, s2) \/ Within(e, s0)
          /\ \A d, e : Behind(d, e, new) <=>
                   \/ Behind(d, e, s1) \/ Behind(d, e, s2) \/ Behind(d, e, s0)
                   \/ Within(d, s1) /\ (Within(e, s2) \/ Within(e, s0))
                   \/ Within(d, s2) /\ Within(e, s0)
      BY <1>18, <1>19, <2>4
    <3>2. QED
      BY <1>18, <2>1, <3>1
  <2>5. QED
    BY <1>2, <2>2, <2>3, <2>4
<1>7. /\ n.id = given[n.by] + 1 /\ ~Mentioned(n) /\ ~Due(Created(n)) /\ ~Due(Destroyed(n))
      /\ n \notin contexts /\ n \notin dying
  BY <1>17 DEF Mentioned
<1>5. /\ home' \in Processes \union {Gone} /\ contexts' \subseteq Worlds /\ IsFiniteSet(contexts') /\ dying' \subseteq Worlds
      /\ given' \in [Processes -> Nat] /\ Gone \notin Processes /\ 0 \in Processes
      /\ \A r \in Processes : given'[r] = 0 => given[r] = 0
  <2>1. contexts' \subseteq Worlds /\ IsFiniteSet(contexts')
    <3>1. IsFiniteSet(contexts \ Of(Kid)) /\ contexts \ Of(Kid) \subseteq Worlds
      BY <1>4, FS_Subset DEF FrameTypes
    <3>2. IsFiniteSet((contexts \ Of(Kid)) \union {n})
      BY <3>1, FS_AddElement
    <3>3. QED
      BY <1>3, <3>1, <3>2
  <2>2. given' \in [Processes -> Nat] /\ \A r \in Processes : given'[r] = 0 => given[r] = 0
    BY <1>3, <1>4, <1>17 DEF FrameTypes, Worlds
  <2>3. Gone \notin Processes /\ 0 \in Processes
    BY RenderersAssumption DEF Gone, Processes
  <2>4. QED
    BY <1>3, <1>4, <2>1, <2>2, <2>3 DEF FrameTypes, Of
<1>21. /\ \A a, s : Within(On(a, s), new) => (a = "detached" /\ s = p /\ allFrames) \/ (a = "navigated" /\ s = Kid)
       /\ \A c : ~Within(Destroyed(c), new)
       /\ \A c : Within(Created(c), new) => c = n
  <2>1. ASSUME NEW a, NEW s, Within(On(a, s), new) PROVE (a = "detached" /\ s = p /\ allFrames) \/ (a = "navigated" /\ s = Kid)
    <3>1. On(a, s) # Created(n)
      BY TellingsDiffer
    <3>2. (allFrames /\ On(a, s) = On("detached", p)) \/ On(a, s) = On("navigated", Kid)
      BY <1>6, <2>1, <3>1 DEF Navigated
    <3>3. QED
      BY <3>2, TellingsDiffer
  <2>2. ASSUME NEW c PROVE ~Within(Destroyed(c), new)
    <3>1. Destroyed(c) # Created(n) /\ Destroyed(c) # Navigated /\ Destroyed(c) # On("detached", p)
      BY TellingsDiffer DEF Navigated
    <3>3. QED
      BY <1>6, <3>1
  <2>3. ASSUME NEW c, Within(Created(c), new) PROVE c = n
    <3>1. Created(c) # Navigated /\ Created(c) # On("detached", p)
      BY TellingsDiffer DEF Navigated
    <3>2. Created(c) = Created(n)
      BY <1>6, <2>3, <3>1
    <3>3. QED
      BY <3>2, TellingsDiffer
  <2>4. QED
    BY <2>1, <2>2, <2>3
<1>8. WorldsStand'
  BY <1>3, <1>4, <1>17, <1>22 DEF WorldsStand, Of, FrameTypes, Worlds, Top, Kid
<1>9. BuriedStand'
  BY <1>1, <1>3, <1>4, <1>7, <1>21 DEF BuriedStand
<1>10. FrameTypes'
  BY <1>1, <1>3, <1>4, <1>5 DEF FrameTypes
<1>11. IdsStand'
  <2>1. \A c : Mentioned(c)' => Mentioned(c) \/ c = n
    BY <1>1, <1>3, <1>21 DEF Mentioned, Of
  <2>2. \A f \in Listed : Seated(f)' => Seated(f)
    BY <1>3, <1>4, <1>5 DEF Seated, FrameTypes
  <2>3. QED
    BY <1>3, <1>7, <2>1, <2>2, GivenIds
<1>12. SessionsStand'
  <2>1. ASSUME NEW r \in Sessions PROVE SessionStands(r)'
    <3>1. SessionStands(r) /\ r # 0 /\ r \in Processes
      BY <1>4 DEF SessionsStand, Sessions
    <3>2. ~Within(On("attached", r), new) /\ ~Within(On("failed", r), new) /\ ~Within(On("tree", r), new)
      BY <1>21
    <3>3. Within(On("detached", r), new) <=> r = p /\ allFrames
      BY <1>6, <1>21
    <3>4. (given'[r] = 0 => given[r] = 0) /\ home' # r /\ (Busy(r)' <=> Busy(r))
      BY <1>3, <1>5, <3>1 DEF Busy
    <3>5. p = r => given[r] # 0 /\ (Busy(r) \/ Due(On("attached", r)) => Due(On("detached", r))')
      BY <1>1, <1>4, <1>22, <3>1, <3>3 DEF SessionStands, FrameTypes, Busy
    <3>6. ~Behind(On("attached", r), On("attached", r), new) /\ ~Behind(On("attached", r), On("detached", r), new)
      BY <1>1, <3>2
    <3>9. p # r => home # r
      BY <1>22
    <3>7. CASE p = r
      <4>1. ~Follows(On("attached", r), On("attached", r))' /\ ~Follows(On("attached", r), On("detached", r))'
        BY <1>1, <3>1, <3>2, <3>6 DEF SessionStands
      <4>2. QED
        BY <1>1, <1>3, <3>1, <3>2, <3>3, <3>4, <3>5, <3>7, <4>1 DEF SessionStands
    <3>11. CASE p # r
      BY <1>1, <1>3, <3>1, <3>2, <3>3, <3>4, <3>6, <3>9, <3>11 DEF SessionStands
    <3>12. QED
      BY <3>7, <3>11
  <2>2. ASSUME NEW r \in Sessions, NEW s \in Sessions, r # s PROVE SessionsApart(r, s)'
    <3>1. SessionsApart(r, s)
      BY <1>4, <2>2 DEF SessionsStand
    <3>2. (Busy(r)' <=> Busy(r)) /\ (Busy(s)' <=> Busy(s)) /\ ~Within(On("attached", r), new) /\ ~Within(On("attached", s), new)
      BY <1>3, <1>21 DEF Busy
    <3>3. QED
      BY <1>1, <3>1, <3>2 DEF SessionsApart
  <2>3. QED
    BY <2>1, <2>2 DEF SessionsStand, Sessions
<1>13. NavigationsStand'
  BY <1>1, <1>3, <1>4, <1>5, <1>21, <1>22 DEF NavigationsStand, Sessions, Top, Kid
<1>14. CreationsStand'
  <2>1. SUFFICES ASSUME NEW d \in Worlds, Due(Created(d))' PROVE CreationStands(d)'
    BY DEF CreationsStand
  <2>2. CASE d = n
    <3>1. ~Follows(Created(d), Created(d))'
      <4>1. Created(n) # On("detached", p)
        BY TellingsDiffer
      <4>2. QED
        BY <1>1, <1>6, <1>7, <2>2, <4>1
    <3>2. QED
      BY <1>3, <1>5, <1>17, <2>2, <3>1 DEF CreationStands, Sessions, Top, Kid
  <2>3. CASE d # n
    <3>1. CreationStands(d) /\ Due(Created(d)) /\ ~Within(Created(d), new)
      BY <1>1, <1>4, <1>21, <2>1, <2>3 DEF CreationsStand
    <3>2. d.frame = Kid /\ d.by = 0 => d \notin contexts
      BY <1>22, <1>4 DEF WorldsStand, Top, Kid
    <3>4. QED
      BY <1>1, <1>3, <1>5, <3>1, <3>2 DEF CreationStands, Sessions
  <2>4. QED
    BY <2>2, <2>3
<1>15. HoldsStand'
  <2>1. ScriptRunsInItsFrame'
    BY <1>3, <1>4 DEF HoldsStand, ScriptRunsInItsFrame
  <2>2. ASSUME Kid \in Listed', tracked'[Kid].by = 0, tracked'[Kid].ctx # 0
        PROVE  /\ <<0, tracked'[Kid].ctx, Kid>> \in filed'
               /\ Held' \in contexts' \/ Held' \in dying' \/ Due(Destroyed(Held))' \/ Due(On("cleared", 0))'
    <3>2. Held' = Held /\ Held.frame = Kid /\ Held.by = 0
      BY <1>3 DEF Held, Context
    <3>5. /\ <<0, tracked[Kid].ctx, Kid>> \in filed
          /\ Held \in contexts \/ Held \in dying \/ Due(Destroyed(Held)) \/ Due(On("cleared", 0))
      BY <1>3, <1>4, <2>2 DEF HoldsStand
    <3>6. Held \in contexts' \/ Held \in dying' \/ Due(Destroyed(Held))' \/ Due(On("cleared", 0))'
      <4>1. Held \notin contexts
        BY <1>22, <1>4, <3>2 DEF WorldsStand, Top, Kid
      <4>3. QED
        BY <1>1, <1>3, <3>2, <3>5, <4>1
    <3>7. QED
      BY <1>3, <3>2, <3>5, <3>6
  <2>4. QED
    BY <2>1, <2>2 DEF HoldsStand
<1>16. LatestStands'
  <2>1. SUFFICES ASSUME NEW k \in contexts', Reported(k)' PROVE Settles(k)'
    BY DEF LatestStands
  <2>2. k \in Worlds /\ k.default /\ setup[k.by] = "on"
    BY <1>3, <1>4, <1>10, <2>1 DEF Reported, FrameTypes
  <2>3. \A e : Upsets(k, e)' = Upsets(k, e)
    BY DEF Upsets, Worlds
  <2>4. CASE k = n
    <3>1. Due(Created(k))'
      BY <1>1, <1>6, <2>2, <2>4
    <3>2. \A e \in Tellings : Upsets(k, e) => ~Follows(e, Created(k))'
      <4>1. \A e : Upsets(k, e) => ~Behind(Created(n), e, new)
        BY <1>6, <2>4, TellingsDiffer DEF Upsets, Navigated
      <4>2. QED
        BY <1>1, <1>7, <2>4, <4>1
    <3>3. QED
      BY <2>3, <3>1, <3>2 DEF Settles
  <2>5. CASE k # n
    <3>1. k \in contexts /\ Settles(k)
      BY <1>3, <1>4, <2>1, <2>2, <2>5 DEF LatestStands, Reported
    <3>2. \A e : Upsets(k, e) => ~Within(e, new)
      <4>1. k.frame = Top
        BY <1>3, <2>1, <2>2, <2>5 DEF Of, Worlds
      <4>2. SUFFICES ASSUME NEW e, Upsets(k, e), Within(e, new) PROVE FALSE
        OBVIOUS
      <4>3. CASE e = Navigated
        BY <4>1, <4>2, <4>3, TellingsDiffer DEF Upsets, Navigated, Top, Kid
      <4>4. CASE e = Created(n)
        BY <1>17, <4>1, <4>2, <4>4, TellingsDiffer DEF Upsets, Navigated, Top, Kid
      <4>5. CASE e = On("detached", p)
        BY <4>2, <4>5, TellingsDiffer DEF Upsets, Navigated
      <4>6. QED
        BY <1>6, <4>2, <4>3, <4>4, <4>5
    <3>3. CASE Due(Created(k)) /\ \A e \in Tellings : Upsets(k, e) => ~Follows(e, Created(k))
      BY <1>1, <2>3, <3>2, <3>3 DEF Settles
    <3>4. CASE /\ \A e \in Tellings : Upsets(k, e) => ~Due(e)
               /\ k.frame \in Listed /\ tracked[k.frame].by = k.by => tracked[k.frame].ctx = k.id
      BY <1>1, <1>3, <2>3, <3>2, <3>4 DEF Settles
    <3>5. QED
      BY <3>1, <3>3, <3>4 DEF Settles
  <2>6. QED
    BY <2>4, <2>5
<1>20. QED
  BY <1>1, <1>8, <1>9, <1>10, <1>11, <1>12, <1>13, <1>14, <1>15, <1>16 DEF FrameInv

(* The verbs read what is tracked: a script of theirs runs where it says.  *)
LEMMA VerbsKeep ==
  ASSUME FrameInv, (\E f \in {Top, Kid} : select_frame(f)) \/ reset_frame \/ RunScript \/ UNCHANGED contextVars
  PROVE  FrameInv'
<1>1. /\ FrameTypes /\ WorldsStand /\ BuriedStand /\ IdsStand /\ SessionsStand /\ NavigationsStand
      /\ CreationsStand /\ HoldsStand /\ LatestStands
  BY DEF FrameInv
<1>2. /\ home' = home /\ contexts' = contexts /\ dying' = dying /\ given' = given /\ allFrames' = allFrames
      /\ inFlight' = inFlight /\ tracked' = tracked /\ filed' = filed /\ setup' = setup /\ Listed' = Listed
  BY DEF select_frame, reset_frame, RunScript, contextVars, chrome, client, Listed
<1>3. chosen' \in {None, Top, Kid} /\ selected' \in {None} \union Listed
  BY <1>1 DEF select_frame, reset_frame, RunScript, contextVars, client, FrameTypes
<1>4. ScriptRunsInItsFrame'
  <2>1. CASE RunScript /\ chosen = None
    BY <2>1 DEF RunScript, ScriptRunsInItsFrame, Of
  <2>2. CASE RunScript /\ chosen # None
    <3>1. PICK c \in contexts : <<c.by, c.id>> = get_selected_context /\ ran' = <<selected, c>>
      BY <2>2 DEF RunScript
    <3>2. /\ c \in Worlds /\ Mentioned(c) /\ selected \in Listed /\ tracked[selected].ctx # 0
          /\ c.by = tracked[selected].by /\ c.id = tracked[selected].ctx
      BY <1>1, <2>2, <3>1 DEF RunScript, FrameTypes, get_selected_context, Mentioned
    <3>3. Seated(selected)
      BY <1>1, <3>1, <3>2 DEF WorldsStand, Seated
    <3>4. c.frame = selected /\ c.default
      BY <1>1, <3>2, <3>3 DEF IdsStand
    <3>5. QED
      BY <3>1, <3>4 DEF ScriptRunsInItsFrame
  <2>3. CASE ran' = ran
    BY <1>1, <2>3 DEF HoldsStand, ScriptRunsInItsFrame
  <2>4. QED
    BY <2>1, <2>2, <2>3 DEF select_frame, reset_frame, contextVars
<1>5. /\ \A e : Due(e)' <=> Due(e)
      /\ \A d, e : Follows(e, d)' <=> Follows(e, d)
      /\ \A c : Mentioned(c)' <=> Mentioned(c)
      /\ \A r : Busy(r)' <=> Busy(r)
      /\ \A f : Seated(f)' <=> Seated(f)
      /\ Held' = Held
      /\ \A k, e : Upsets(k, e)' <=> Upsets(k, e)
  BY <1>2 DEF Due, Follows, Mentioned, Busy, Seated, Held, Upsets
<1>6. FrameTypes'
  BY <1>1, <1>2, <1>3 DEF FrameTypes
<1>7. WorldsStand' /\ BuriedStand' /\ IdsStand'
  BY <1>1, <1>2, <1>5 DEF WorldsStand, BuriedStand, IdsStand
<1>8. SessionsStand'
  BY <1>1, <1>2, <1>5 DEF SessionsStand, SessionStands, SessionsApart
<1>9. NavigationsStand' /\ CreationsStand'
  BY <1>1, <1>2, <1>5 DEF NavigationsStand, CreationsStand, CreationStands, Navigated
<1>10. HoldsStand'
  BY <1>1, <1>2, <1>4, <1>5 DEF HoldsStand
<1>11. LatestStands'
  BY <1>1, <1>2, <1>5 DEF LatestStands, Reported, Settles
<1>12. QED
  BY <1>6, <1>7, <1>8, <1>9, <1>10, <1>11 DEF FrameInv

LEMMA FrameBegins ==
  ASSUME ContextInit
  PROVE  FrameInv
<1> DEFINE top == Context(Top, 0, 1, TRUE)
           kid == Context(Kid, 0, 2, TRUE)
<1>1. /\ allFrames \in BOOLEAN /\ home = 0 /\ contexts = {top, kid} /\ dying = {}
      /\ given = [r \in Processes |-> IF r = 0 THEN 2 ELSE 0] /\ inFlight = <<>>
      /\ tracked = [f \in {Top, Kid} |-> [by |-> 0, ctx |-> IF f = Top THEN 1 ELSE 2]]
      /\ filed = {<<0, 1, Top>>, <<0, 2, Kid>>}
      /\ setup = [r \in Processes |-> IF r = 0 THEN "on" ELSE "none"]
      /\ chosen = None /\ selected = None /\ ran = <<>>
  BY DEF ContextInit
<1>2. 0 \in Processes /\ Gone \notin Processes /\ Top # Kid /\ 0 # Gone
  BY RenderersAssumption DEF Processes, Gone, Top, Kid
<1>3. /\ top \in Worlds /\ top.frame = Top /\ top.by = 0 /\ top.id = 1 /\ top.default
      /\ kid \in Worlds /\ kid.frame = Kid /\ kid.by = 0 /\ kid.id = 2 /\ kid.default
  BY <1>2 DEF Worlds, Context
<1>4. (\A e : ~Due(e)) /\ (\A d, e : ~Follows(e, d))
  BY <1>1, WithinOne DEF Due, Follows
<1>5. /\ Listed = {Top, Kid} /\ tracked[Top].by = 0 /\ tracked[Kid].by = 0 /\ tracked[Top].ctx = 1 /\ tracked[Kid].ctx = 2
      /\ tracked \in [Listed -> [by : Processes, ctx : Nat]] /\ given[0] = 2
  BY <1>1, <1>2 DEF Listed
<1>6. Held = kid
  BY <1>5 DEF Held
<1>7. \A c : Mentioned(c) <=> c = top \/ c = kid
  BY <1>1, <1>4 DEF Mentioned
<1> HIDE DEF top, kid
<1>8. FrameTypes
  <2>1. IsFiniteSet(contexts) /\ contexts \subseteq Worlds
    <3>1. IsFiniteSet({}) /\ IsFiniteSet({} \union {top}) /\ IsFiniteSet(({} \union {top}) \union {kid})
      BY FS_EmptySet, FS_AddElement
    <3>2. contexts = ({} \union {top}) \union {kid}
      BY <1>1
    <3>3. QED
      BY <1>1, <1>3, <3>1, <3>2
  <2>2. inFlight \in Seq(Tellings)
    BY <1>1
  <2>3. given \in [Processes -> Nat] /\ setup \in [Processes -> {"none", "reading", "read", "on", "over"}] /\ setup[0] = "on"
    BY <1>1, <1>2
  <2>4. QED
    BY <1>1, <1>2, <1>5, <2>1, <2>2, <2>3 DEF FrameTypes
<1>9. WorldsStand /\ BuriedStand
  BY <1>1, <1>2, <1>3, <1>4 DEF WorldsStand, BuriedStand
<1>10. IdsStand
  BY <1>1, <1>2, <1>3, <1>5, <1>7 DEF IdsStand
<1>11. SessionsStand
  BY <1>1, <1>2, <1>4, <1>5 DEF SessionsStand, SessionStands, SessionsApart, Busy, Sessions
<1>12. NavigationsStand /\ CreationsStand
  BY <1>1, <1>4 DEF NavigationsStand, CreationsStand, Sessions
<1>13. HoldsStand
  BY <1>1, <1>5, <1>6 DEF HoldsStand, ScriptRunsInItsFrame
<1>14. LatestStands
  <2>1. ASSUME NEW k \in contexts PROVE Settles(k)
    <3>1. k = top \/ k = kid
      BY <1>1
    <3>2. QED
      BY <1>3, <1>4, <1>5, <3>1 DEF Settles
  <2>2. QED
    BY <2>1 DEF LatestStands
<1>15. QED
  BY <1>8, <1>9, <1>10, <1>11, <1>12, <1>13, <1>14 DEF FrameInv

LEMMA FrameSteps ==
  ASSUME FrameInv, ContextNext \/ UNCHANGED contextVars
  PROVE  FrameInv'
<1>1. CASE TopReloads
  BY <1>1, TopReloadsKeeps
<1>2. CASE KidReloads
  <2>1. home = 0 \/ home \in Sessions
    BY <1>2 DEF KidReloads, FrameInv, FrameTypes, Sessions
  <2>2. QED
    BY <1>2, <2>1, KidReloadsInPage, KidReloadsInOwn
<1>3. CASE MovesBack
  BY <1>3, MovesBackKeeps
<1>4. CASE DeathIsTold
  BY <1>4, DeathKeeps
<1>5. ASSUME NEW r \in Processes \ {0}, MovesOut(r) \/ Spliced(r) PROVE FrameInv'
  BY <1>5, MovesOutKeeps, SplicedKeeps DEF Sessions
<1>6. ASSUME NEW f \in {Top, Kid}, WorldAdded(f) PROVE FrameInv'
  BY <1>6, WorldAddedKeeps
<1>7. CASE handle_execution_context_created \/ handle_execution_context_destroyed \/ handle_execution_contexts_cleared
  BY <1>7, CreatedKeeps, DestroyedKeeps, ClearedKeeps
<1>8. CASE handle_frame_navigated \/ handle_frame_detached
  BY <1>8, NavigatedKeeps, SwappedKeeps
<1>9. CASE Attached \/ TreeRead \/ SessionDropped
  BY <1>9, AttachedKeeps, TreeReadKeeps, DroppedKeeps
<1>10. CASE (\E f \in {Top, Kid} : select_frame(f)) \/ reset_frame \/ RunScript \/ UNCHANGED contextVars
  BY <1>10, VerbsKeep
<1>11. QED
  BY <1>1, <1>2, <1>3, <1>4, <1>5, <1>6, <1>7, <1>8, <1>9, <1>10 DEF ContextNext

LEMMA FrameIsWell ==
  ASSUME FrameInv
  PROVE  ScriptRunsInItsFrame /\ ContextIsHeld
<1>1. /\ FrameTypes /\ WorldsStand /\ BuriedStand /\ IdsStand /\ SessionsStand /\ NavigationsStand
      /\ CreationsStand /\ HoldsStand /\ LatestStands
  BY DEF FrameInv
<1>2. ASSUME AtRest, NEW f \in Listed
      PROVE  LET own == {c \in Of(f) : c.default /\ c.by = tracked[f].by}
             IN tracked[f].ctx = IF own = {} THEN 0 ELSE (CHOOSE c \in own : TRUE).id
  <2> DEFINE own == {c \in Of(f) : c.default /\ c.by = tracked[f].by}
  <2>1. (\A e : ~Due(e)) /\ dying = {} /\ f \in {Top, Kid} /\ tracked[Top].by = 0 /\ Top \in Listed /\ setup[0] = "on"
    BY <1>1, <1>2, WithinOne DEF AtRest, Due, FrameTypes
  <2>2. CASE own = {}
    <3>1. f = Kid
      BY <1>1, <2>1, <2>2 DEF WorldsStand, Of
    <3>2. CASE tracked[f].by = 0
      <4>1. tracked[f].ctx # 0 => Held \in own
        BY <1>1, <1>2, <2>1, <3>1, <3>2 DEF HoldsStand, Held, Context, Of
      <4>2. QED
        BY <2>2, <4>1
    <3>3. CASE tracked[f].by # 0
      <4>1. tracked[f].by \in Sessions
        BY <1>1, <1>2, <3>3 DEF FrameTypes, Sessions
      <4>2. SessionStands(tracked[f].by)
        BY <1>1, <4>1 DEF SessionsStand
      <4>3. home = tracked[f].by
        BY <1>2, <2>1, <3>1, <4>2 DEF SessionStands, Busy
      <4>4. home # Gone
        BY <4>1, <4>3, RenderersAssumption DEF Sessions, Processes, Gone
      <4>5. PICK c \in contexts : c.frame = Kid /\ c.default
        BY <1>1, <4>4 DEF WorldsStand
      <4>6. c \in own
        BY <1>1, <3>1, <4>3, <4>5 DEF WorldsStand, Of, Top, Kid
      <4>7. QED
        BY <2>2, <4>6
    <3>4. QED
      BY <3>2, <3>3
  <2>3. CASE own # {}
    <3>1. PICK k \in own : k = CHOOSE c \in own : TRUE
      BY <2>3
    <3>2. k \in contexts /\ k.frame = f /\ k.default /\ k.by = tracked[f].by
      BY <3>1 DEF Of
    <3>3. setup[k.by] = "on"
      <4>1. CASE k.by = 0
        BY <2>1, <4>1
      <4>2. CASE k.by # 0
        <5>1. f = Kid /\ k.by \in Sessions
          BY <1>1, <1>2, <2>1, <3>2, <4>2 DEF FrameTypes, Sessions
        <5>2. SessionStands(k.by)
          BY <1>1, <5>1 DEF SessionsStand
        <5>3. QED
          BY <1>2, <3>2, <5>1, <5>2 DEF SessionStands
      <4>3. QED
        BY <4>1, <4>2
    <3>4. Settles(k)
      BY <1>1, <3>2, <3>3 DEF LatestStands, Reported
    <3>5. tracked[f].ctx = k.id
      BY <1>2, <2>1, <3>2, <3>4 DEF Settles
    <3>6. QED
      BY <2>3, <3>1, <3>5
  <2>4. QED
    BY <2>2, <2>3
<1>3. ContextIsHeld
  BY <1>2 DEF ContextIsHeld
<1>4. QED
  BY <1>1, <1>3 DEF HoldsStand

(* A step of the page is one of the frames, or leaves them where they are. *)
LEMMA FramesMove == ASSUME [Next]_vars PROVE ContextNext \/ UNCHANGED contextVars
<1>1. ASSUME Next PROVE ContextNext \/ UNCHANGED contextVars
      BY <1>1, Zenon DEF Next, Window, Attach, Verb
<1>2. UNCHANGED vars => UNCHANGED contextVars
      BY DEF vars
<1>3. QED BY <1>1, <1>2

(* However often the page navigates and its frames change renderer, in    *)
(* whatever order their events arrive: a name of a snapshot is one        *)
(* node's, an input reaches the node that was shown under it, no node on  *)
(* the screen is refused, and a script runs in the frame that was         *)
(* selected, which holds the context it lives in                          *)
(* (NativeSnapshotReader.build, NativeInteractor._backend_for,            *)
(* FrameManager.get_selected_context).                                    *)
THEOREM NamesHoldTheorem == Spec => []NamesHold
<1>1. Init => UidInv /\ FrameInv
      BY UidBegins, FrameBegins DEF Init
<1>2. UidInv /\ FrameInv /\ [Next]_vars => (UidInv /\ FrameInv)'
      BY UidSteps, FramesMove, FrameSteps
<1>3. UidInv /\ FrameInv => NamesHold
      BY UidIsWell, FrameIsWell DEF NamesHold
<1>4. QED BY <1>1, <1>2, <1>3, PTL DEF Spec
=======================================================================
