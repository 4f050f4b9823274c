----------------------------- MODULE CdpProofs -----------------------------
(* Proofs about CdpClient and CdpRuntime: for any commands, verbs, contexts *)
(* and number of faults, a command comes to one end, and a verb starts on   *)
(* the whole map of frames and contexts.                                    *)
EXTENDS CdpRuntime, SequenceTheorems, FiniteSetTheorems, TLAPS

USE CmdsAssumption

(* What the composition has the client do in one step.                      *)
ClientStep ==
  \/ Connect \/ ReceiveAnswer \/ ReceiveEvent \/ CallbackRaises \/ LoopEnds
  \/ Close \/ SocketDrops
  \/ \E c \in Cmds : \/ Send(c) \/ Written(c) \/ WriteFails(c) \/ WriteCancelled(c)
                     \/ Resume(c) \/ Abandon(c, "timer") \/ Abandon(c, "cancel")
                     \/ \E kind \in {"result", "error"}, before \in Seq(Messages) :
                           ChromeSays(c, kind, before)
  \/ \E m \in Messages : ChromeEmits(m)

-----------------------------------------------------------------------------
(* The client.  Where the loop does not run nothing is registered and       *)
(* nothing more will be; and who waits for a future that is not done is     *)
(* registered, so that the end of the loop finds it.                        *)

LoopOwnsPending ==
  /\ recv # "running" => ~connected /\ pending = {}
  /\ socket = "none" <=> recv = "none"

WaiterIsRegistered ==
  \A c \in Cmds : call[c] \in {"sending", "waiting"} /\ fut[c] = "pending" => c \in pending

FutureIsMade ==
  \A c \in Cmds : /\ fut[c] = "none" => call[c] \in {"new", "refused"}
                  /\ fut[c] = "cancelled" => give[c] # "none"

ClientInv ==
  /\ ClientTypeOK /\ inbox \in Seq(Messages)
  /\ LoopOwnsPending /\ WaiterIsRegistered /\ FutureIsMade
  /\ LateAnswerIsHarmless /\ GivenUpIsRetired

LEMMA ClientStart == ClientInit => ClientInv
<1> SUFFICES ASSUME ClientInit PROVE ClientInv
  OBVIOUS
<1>1. ClientTypeOK
  <2>1. call \in [Cmds -> Calls] /\ fut \in [Cmds -> Futures]
        /\ give \in [Cmds -> {"none", "timer", "cancel"}]
    BY DEF ClientInit, Calls, Futures
  <2>2. raises \in 0..MaxRaises
    BY DEF ClientInit
  <2> QED BY <2>1, <2>2 DEF ClientInit, ClientTypeOK
<1>2. inbox \in Seq(Messages)
  BY EmptySeq DEF ClientInit
<1>3. LoopOwnsPending /\ WaiterIsRegistered /\ FutureIsMade /\ LateAnswerIsHarmless
      /\ GivenUpIsRetired
  BY DEF ClientInit, LoopOwnsPending, WaiterIsRegistered, FutureIsMade,
         LateAnswerIsHarmless, GivenUpIsRetired
<1> QED BY <1>1, <1>2, <1>3 DEF ClientInv

LEMMA MessageType ==
  ASSUME inbox \in Seq(Messages), inbox # <<>>
  PROVE  /\ Head(inbox) \in Messages /\ Tail(inbox) \in Seq(Messages)
         /\ IsAnswer(Head(inbox)) => Head(inbox).of \in Cmds
                                     /\ Head(inbox).kind \in {"result", "error"}
         /\ ~IsAnswer(Head(inbox)) => Head(inbox).of \in Contexts
                                     /\ Head(inbox).kind \in {"made", "gone"}
<1>1. Head(inbox) \in Messages /\ Tail(inbox) \in Seq(Messages)
  BY HeadTailProperties
<1>2. QED BY <1>1 DEF Messages, IsAnswer

LEMMA LoopOverKeeps ==
  ASSUME ClientInv, NEW r \in {"closed", "raised"}, LoopOver(r),
         UNCHANGED <<socket, call, give, wire>>, recv = "running",
         inbox' \in Seq(Messages), raises' \in 0..MaxRaises
  PROVE  ClientInv'
BY DEF ClientInv, ClientTypeOK, Calls, Futures, LoopOwnsPending, LoopOver,
       WaiterIsRegistered, FutureIsMade, LateAnswerIsHarmless, GivenUpIsRetired

LEMMA ClientKeeps == ASSUME ClientInv, ClientStep PROVE ClientInv'
<1> USE DEF ClientInv, ClientTypeOK, Calls, Futures, LoopOwnsPending, link,
            WaiterIsRegistered, FutureIsMade, LateAnswerIsHarmless, GivenUpIsRetired
<1>1. CASE Connect
  BY <1>1 DEF Connect
<1>2. CASE ReceiveAnswer
  <2>1. Head(inbox).of \in Cmds /\ Head(inbox).kind \in {"result", "error"}
        /\ inbox' \in Seq(Messages)
    BY <1>2, MessageType DEF ReceiveAnswer
  <2>2. CASE Head(inbox).of \in pending
    BY <1>2, <2>1, <2>2 DEF ReceiveAnswer, Deliver
  <2>3. CASE Head(inbox).of \notin pending
    BY <1>2, <2>1, <2>3 DEF ReceiveAnswer
  <2> QED BY <2>2, <2>3
<1>3. CASE ReceiveEvent
  BY <1>3, MessageType DEF ReceiveEvent
<1>4. CASE CallbackRaises
  BY <1>4, MessageType, LoopOverKeeps DEF CallbackRaises
<1>5. CASE LoopEnds
  BY <1>5, LoopOverKeeps DEF LoopEnds
<1>6. CASE Close \/ SocketDrops
  <2>1. CASE Close
    BY <2>1 DEF Close
  <2>2. CASE SocketDrops
    BY <2>2 DEF SocketDrops
  <2> QED BY <1>6, <2>1, <2>2
<1>7. ASSUME NEW c \in Cmds, Send(c)
      PROVE  ClientInv'
  BY <1>7 DEF Send
<1>8. ASSUME NEW c \in Cmds, Written(c) \/ WriteFails(c) \/ WriteCancelled(c)
      PROVE  ClientInv'
  <2>1. CASE Written(c)
    BY <2>1 DEF Written
  <2>2. CASE WriteFails(c)
    BY <2>2 DEF WriteFails
  <2>3. CASE WriteCancelled(c)
    BY <2>3 DEF WriteCancelled
  <2> QED BY <1>8, <2>1, <2>2, <2>3
<1>9. ASSUME NEW c \in Cmds, Resume(c)
      PROVE  ClientInv'
  <2>1. CASE give[c] = "none"
    <3>1. fut[c] \in {"result", "error", "lost"} /\ call' = [call EXCEPT ![c] = fut[c]]
      BY <1>9, <2>1 DEF Resume
    <3> QED BY <1>9, <2>1, <3>1 DEF Resume
  <2>2. CASE give[c] # "none"
    <3>1. \E x \in {"timeout", "cancelled"} : call' = [call EXCEPT ![c] = x]
      BY <1>9, <2>2 DEF Resume
    <3> QED BY <1>9, <2>2, <3>1 DEF Resume, Retired
  <2> QED BY <2>1, <2>2
<1>10. ASSUME NEW c \in Cmds, Abandon(c, "timer") \/ Abandon(c, "cancel")
       PROVE  ClientInv'
  BY <1>10 DEF Abandon
<1>11. ASSUME NEW c \in Cmds, NEW kind \in {"result", "error"}, NEW before \in Seq(Messages),
              ChromeSays(c, kind, before)
       PROVE  ClientInv'
  <2>1. inbox' \in Seq(Messages)
    <3>1. [kind |-> kind, of |-> c] \in Messages
      BY <1>11 DEF Messages
    <3>2. inbox \o before \in Seq(Messages) /\ <<[kind |-> kind, of |-> c]>> \in Seq(Messages)
      BY <3>1, ConcatProperties
    <3> QED BY <1>11, <3>2, ConcatProperties DEF ChromeSays
  <2> QED BY <1>11, <2>1 DEF ChromeSays
<1>12. ASSUME NEW m \in Messages, ChromeEmits(m)
       PROVE  ClientInv'
  BY <1>12, AppendProperties DEF ChromeEmits
<1> QED BY <1>1, <1>2, <1>3, <1>4, <1>5, <1>6, <1>7, <1>8, <1>9, <1>10, <1>11, <1>12
        DEF ClientStep

-----------------------------------------------------------------------------
(* What a view comes to when it reads a sequence of messages.  Only the     *)
(* last event about a context counts, so the head is read by the view and   *)
(* a new message by the last word on its own context.                       *)

(* The last word of s on x.                                                 *)
SaysMade(s, x, i) == /\ About(s[i], x) /\ s[i].kind = "made"
                     /\ \A j \in DOMAIN s : j > i => ~About(s[j], x)
Silent(s, x) == \A i \in DOMAIN s : ~About(s[i], x)

LEMMA LeftByIs ==
  ASSUME NEW k, NEW s, NEW x \in Contexts
  PROVE  x \in LeftBy(k, s) <=> \/ x \in k /\ Silent(s, x)
                               \/ \E i \in DOMAIN s : SaysMade(s, x, i)
BY DEF LeftBy, Silent, SaysMade

LEMMA TailShift ==
  ASSUME NEW s \in Seq(Messages), s # <<>>
  PROVE  /\ DOMAIN s = 1..Len(s) /\ Len(s) \in Nat \ {0} /\ s[1] = Head(s)
         /\ DOMAIN Tail(s) = 1..(Len(s) - 1)
         /\ \A i \in 1..(Len(s) - 1) : Tail(s)[i] = s[i + 1]
         /\ \A i \in 1..Len(s) : i # 1 => i - 1 \in 1..(Len(s) - 1) /\ Tail(s)[i - 1] = s[i]
BY HeadTailProperties, LenProperties

LEMMA SilentTail ==
  ASSUME NEW s \in Seq(Messages), s # <<>>, NEW x
  PROVE  Silent(s, x) <=> ~About(Head(s), x) /\ Silent(Tail(s), x)
<1>1. ASSUME Silent(s, x)
      PROVE  ~About(Head(s), x) /\ Silent(Tail(s), x)
  BY <1>1, TailShift DEF Silent
<1>2. ASSUME ~About(Head(s), x), Silent(Tail(s), x), NEW i \in DOMAIN s
      PROVE  ~About(s[i], x)
  BY <1>2, TailShift DEF Silent
<1> QED BY <1>1, <1>2 DEF Silent

LEMMA LastWordTail ==
  ASSUME NEW s \in Seq(Messages), s # <<>>, NEW x
  PROVE  (\E i \in DOMAIN s : SaysMade(s, x, i))
           <=> \/ \E i \in DOMAIN Tail(s) : SaysMade(Tail(s), x, i)
               \/ About(Head(s), x) /\ Head(s).kind = "made" /\ Silent(Tail(s), x)
<1>1. ASSUME NEW i \in DOMAIN s, SaysMade(s, x, i), i # 1
      PROVE  i - 1 \in DOMAIN Tail(s) /\ SaysMade(Tail(s), x, i - 1)
  BY <1>1, TailShift DEF SaysMade
<1>2. ASSUME SaysMade(s, x, 1)
      PROVE  About(Head(s), x) /\ Head(s).kind = "made" /\ Silent(Tail(s), x)
  BY <1>2, TailShift DEF SaysMade, Silent
<1>3. ASSUME NEW i \in DOMAIN Tail(s), SaysMade(Tail(s), x, i)
      PROVE  i + 1 \in DOMAIN s /\ SaysMade(s, x, i + 1)
  <2>1. i \in 1..(Len(s) - 1) /\ i + 1 \in DOMAIN s /\ s[i + 1] = Tail(s)[i]
    BY TailShift
  <2>2. ASSUME NEW j \in DOMAIN s, j > i + 1
        PROVE  ~About(s[j], x)
    <3>1. j - 1 \in DOMAIN Tail(s) /\ Tail(s)[j - 1] = s[j] /\ j - 1 > i
      BY <2>1, <2>2, TailShift
    <3> QED BY <1>3, <3>1 DEF SaysMade
  <2> QED BY <1>3, <2>1, <2>2 DEF SaysMade
<1>4. ASSUME About(Head(s), x), Head(s).kind = "made", Silent(Tail(s), x)
      PROVE  1 \in DOMAIN s /\ SaysMade(s, x, 1)
  <2>1. ASSUME NEW j \in DOMAIN s, j > 1
        PROVE  ~About(s[j], x)
    <3>1. j - 1 \in DOMAIN Tail(s) /\ Tail(s)[j - 1] = s[j]
      BY <2>1, TailShift
    <3> QED BY <1>4, <3>1 DEF Silent
  <2> QED BY <1>4, <2>1, TailShift DEF SaysMade
<1> QED BY <1>1, <1>2, <1>3, <1>4

(* The receive loop hands the head to the view.                             *)
Handled(k, m) == IF IsAnswer(m) THEN k
                 ELSE IF m.kind = "made" THEN k \union {m.of} ELSE k \ {m.of}

LEMMA HeadIsHandled ==
  ASSUME NEW k, NEW s \in Seq(Messages), s # <<>>
  PROVE  LeftBy(Handled(k, Head(s)), Tail(s)) = LeftBy(k, s)
<1>1. ASSUME NEW x \in Contexts
      PROVE  x \in LeftBy(Handled(k, Head(s)), Tail(s)) <=> x \in LeftBy(k, s)
  <2> DEFINE h == Handled(k, Head(s))
             spoken == \E i \in DOMAIN Tail(s) : SaysMade(Tail(s), x, i)
  <2>1. x \in LeftBy(h, Tail(s)) <=> (x \in h /\ Silent(Tail(s), x)) \/ spoken
    BY LeftByIs
  <2>2. x \in LeftBy(k, s) <=>
          \/ x \in k /\ ~About(Head(s), x) /\ Silent(Tail(s), x)
          \/ spoken
          \/ About(Head(s), x) /\ Head(s).kind = "made" /\ Silent(Tail(s), x)
    BY LeftByIs, SilentTail, LastWordTail
  <2>3. x \in h <=> IF About(Head(s), x) THEN Head(s).kind = "made" ELSE x \in k
    BY DEF Handled, About
  <2> HIDE DEF h, spoken
  <2>4. x \in LeftBy(h, Tail(s)) <=> x \in LeftBy(k, s)
    BY <2>1, <2>2, <2>3
  <2> QED BY <2>4 DEF h
<1> QED BY <1>1 DEF LeftBy

(* A message put at the end is heard last.                                  *)
LEMMA LastIsHandled ==
  ASSUME NEW k, NEW s \in Seq(Messages), NEW m \in Messages
  PROVE  /\ IsAnswer(m) => LeftBy(k, Append(s, m)) = LeftBy(k, s)
         /\ ~IsAnswer(m) /\ m.kind = "made"
               => LeftBy(k, Append(s, m)) = LeftBy(k, s) \union {m.of}
         /\ ~IsAnswer(m) /\ m.kind # "made"
               => LeftBy(k, Append(s, m)) = LeftBy(k, s) \ {m.of}
<1> DEFINE t == Append(s, m)
           n == Len(s)
<1>1. /\ n \in Nat /\ DOMAIN s = 1..n /\ DOMAIN t = 1..(n + 1)
      /\ t[n + 1] = m /\ \A i \in 1..n : t[i] = s[i]
  BY AppendProperties, LenProperties
<1> HIDE DEF t, n
<1>2. ASSUME NEW x \in Contexts
      PROVE  x \in LeftBy(k, t) <=> IF About(m, x) THEN m.kind = "made" ELSE x \in LeftBy(k, s)
  <2>1. CASE About(m, x)
    <3>1. ~Silent(t, x)
      BY <1>1, <2>1 DEF Silent
    <3>2. ASSUME NEW i \in DOMAIN t, SaysMade(t, x, i)
          PROVE  m.kind = "made"
      BY <1>1, <2>1, <3>2 DEF SaysMade
    <3>3. ASSUME m.kind = "made"
          PROVE  n + 1 \in DOMAIN t /\ SaysMade(t, x, n + 1)
      BY <1>1, <2>1, <3>3 DEF SaysMade
    <3> QED BY <2>1, <3>1, <3>2, <3>3, LeftByIs
  <2>2. CASE ~About(m, x)
    <3>1. Silent(t, x) <=> Silent(s, x)
      BY <1>1, <2>2 DEF Silent
    <3>2. ASSUME NEW i \in DOMAIN t, SaysMade(t, x, i)
          PROVE  i \in DOMAIN s /\ SaysMade(s, x, i)
      BY <1>1, <2>2, <3>2 DEF SaysMade
    <3>3. ASSUME NEW i \in DOMAIN s, SaysMade(s, x, i)
          PROVE  i \in DOMAIN t /\ SaysMade(t, x, i)
      BY <1>1, <2>2, <3>3 DEF SaysMade
    <3> QED BY <2>2, <3>1, <3>2, <3>3, LeftByIs
  <2> QED BY <2>1, <2>2
<1>3. LeftBy(k, t) \subseteq Contexts /\ LeftBy(k, s) \subseteq Contexts
  BY DEF LeftBy
<1>4. ~IsAnswer(m) => m.of \in Contexts
  BY DEF Messages, IsAnswer
<1>5. ASSUME NEW x \in Contexts
      PROVE  About(m, x) <=> ~IsAnswer(m) /\ m.of = x
  BY DEF About
<1> QED BY <1>2, <1>3, <1>4, <1>5 DEF t

(* What Chrome replays: each context that exists, once.                     *)
LEMMA ReplayIsAll ==
  ASSUME live \subseteq Contexts
  PROVE  /\ Replay \in Seq(Messages)
         /\ \A i \in DOMAIN Replay : Replay[i].kind = "made" /\ Replay[i].of \in live
         /\ \A x \in live : \E i \in DOMAIN Replay : Replay[i].of = x
         /\ \A i, j \in DOMAIN Replay : Replay[i].of = Replay[j].of => i = j
<1> DEFINE n == Cardinality(live)
           q == SetToSeq(live)
<1>1. IsFiniteSet(live) /\ n \in Nat /\ IsFiniteSet(1..n) /\ Cardinality(1..n) = n
  <2>1. IsFiniteSet(live)
    BY RuntimeAssumption, FS_Subset
  <2>2. n \in Nat
    BY <2>1, FS_CardinalityType
  <2>3. IsFiniteSet(1..n) /\ Cardinality(1..n) = IF 1 > n THEN 0 ELSE n - 1 + 1
    BY <2>2, FS_Interval
  <2> QED BY <2>1, <2>2, <2>3
<1>2. \E f \in [1..n -> live] : IsInjective(f)
  BY <1>1, FS_CardinalityType DEF ExistsBijection, Bijection, Injection, IsInjective
<1>3. q \in [1..n -> live] /\ IsInjective(q)
  BY <1>2 DEF SetToSeq
<1> HIDE DEF n, q
<1>4. q \in Injection(1..n, live)
  BY <1>3 DEF Injection, IsInjective
<1>5. q \in Surjection(1..n, live)
  BY <1>1, <1>4, FS_Injection DEF n
<1>6. Replay = [i \in 1..n |-> [kind |-> "made", of |-> q[i]]]
  BY <1>3 DEF Replay, q
<1>7. \A i \in 1..n : q[i] \in live /\ Replay[i] = [kind |-> "made", of |-> q[i]]
  BY <1>3, <1>6
<1>8. Replay \in Seq(Messages)
  <2>1. \A i \in 1..n : [kind |-> "made", of |-> q[i]] \in Messages
    BY <1>7 DEF Messages
  <2>2. Replay \in [1..n -> Messages]
    BY <1>6, <2>1
  <2> QED BY <1>1, <2>2, SeqDef
<1>9. \A x \in live : \E i \in 1..n : q[i] = x
  BY <1>5 DEF Surjection
<1>10. \A i, j \in 1..n : q[i] = q[j] => i = j
  BY <1>4 DEF Injection, IsInjective
<1> QED BY <1>6, <1>7, <1>8, <1>9, <1>10

LEMMA ReplayReachesAll ==
  ASSUME live \subseteq Contexts, NEW s \in Seq(Messages),
         \A i \in DOMAIN s : IsAnswer(s[i])
  PROVE  LeftBy({}, s \o Replay) = live
<1> DEFINE t == s \o Replay
           n == Len(s)
           r == Len(Replay)
<1>1. /\ n \in Nat /\ r \in Nat /\ DOMAIN t = 1..(n + r)
      /\ DOMAIN Replay = 1..r
      /\ \A i \in 1..(n + r) : t[i] = IF i <= n THEN s[i] ELSE Replay[i - n]
      /\ \A i \in 1..n : IsAnswer(s[i])
  BY ReplayIsAll, LenProperties, ConcatProperties
<1> HIDE DEF t, n, r
<1>2. ASSUME NEW x \in live
      PROVE  x \in LeftBy({}, t)
  <2>1. PICK i \in 1..r : Replay[i].of = x
    BY <1>1, ReplayIsAll
  <2>2. n + i \in DOMAIN t /\ t[n + i] = Replay[i]
    <3>1. n + i \in 1..(n + r) /\ ~(n + i <= n) /\ (n + i) - n = i
      BY <1>1, <2>1
    <3> QED BY <1>1, <3>1
  <2>3. About(t[n + i], x) /\ t[n + i].kind = "made"
    BY <1>1, <2>1, <2>2, ReplayIsAll DEF About, IsAnswer
  <2>4. ASSUME NEW j \in DOMAIN t, j > n + i, About(t[j], x)
        PROVE  FALSE
    <3>1. j - n \in 1..r /\ t[j] = Replay[j - n]
      BY <1>1, <2>4
    <3>2. Replay[j - n].of = x
      BY <2>4, <3>1 DEF About
    <3>3. j - n = i
      BY <1>1, <2>1, <3>1, <3>2, ReplayIsAll
    <3> QED BY <1>1, <2>4, <3>3
  <2>5. SaysMade(t, x, n + i)
    BY <2>2, <2>3, <2>4 DEF SaysMade
  <2> QED BY <2>2, <2>5, LeftByIs
<1>3. ASSUME NEW x \in Contexts, x \in LeftBy({}, t)
      PROVE  x \in live
  <2>1. PICK i \in DOMAIN t : SaysMade(t, x, i)
    BY <1>3, LeftByIs
  <2>2. ~(i <= n)
    BY <1>1, <2>1 DEF SaysMade, About
  <2>3. i - n \in 1..r /\ t[i] = Replay[i - n]
    BY <1>1, <2>1, <2>2
  <2>4. Replay[i - n].of = x
    BY <2>1, <2>3 DEF SaysMade, About
  <2> QED BY <1>1, <2>3, <2>4, ReplayIsAll
<1>4. LeftBy({}, t) \subseteq Contexts
  BY DEF LeftBy
<1>5. LeftBy({}, t) = live
  BY <1>2, <1>3, <1>4
<1> QED BY <1>5 DEF t

-----------------------------------------------------------------------------
(* The runtime.  How far the setup is follows from where the thread is:     *)
(* Runtime.enable is sent only after both subscriptions and the tree, and   *)
(* the session is ready only when it was answered.                          *)

SetupIsOrdered ==
  /\ thread \in {"new", "page", "tree"} => call["runtime"] = "new"
  /\ thread = "new" => client = "none"
  /\ thread = "runtime" => tree
  /\ call["runtime"] # "new" => tree /\ "runtime" \in subs
  /\ thread = "frames" => call["runtime"] = "result"
  /\ ready => thread \notin Setup \union {"new", "frames"}
  /\ ready /\ client = "up" => call["runtime"] = "result"

(* Nothing is told about a context before the replay, and the answer to     *)
(* Runtime.enable comes after it.                                           *)
ReplayComesFirst ==
  /\ call["runtime"] = "result" \/ fut["runtime"] = "result" => replayed
  /\ \A i \in DOMAIN inbox : inbox[i] = [kind |-> "result", of |-> "runtime"] => replayed
  /\ \A c \in wire : call[c] \notin {"new", "sending"}
  /\ replayed => call["runtime"] \notin {"new", "sending"} /\ "runtime" \notin wire
  /\ ~replayed => known = {} /\ \A i \in DOMAIN inbox : IsAnswer(inbox[i])

(* From the replay on, the view and the events on their way to it are the   *)
(* contexts of the page, as long as somebody reads them.                    *)
MapIsWhole == replayed /\ recv = "running" /\ socket = "open" => Reaches = live

CallerKnows ==
  /\ caller \in {"between", "waiting"} => call["runtime"] = "result"
  /\ caller = "waiting" => step <= Len(Verbs) /\ call[Verbs[step]] # "new"
  /\ AbandonedIsCancelled

TeardownCloses ==
  /\ thread \in {"closing", "finished"} => socket # "open"
  /\ thread = "finished" => recv # "running"

RuntimeInv ==
  /\ TypeOK /\ ClientInv /\ SetupIsOrdered /\ ReplayComesFirst /\ MapIsWhole
  /\ CallerKnows /\ TeardownCloses

LEMMA Constants ==
  /\ {"page", "tree", "runtime", "frames", "detach"} \subseteq Cmds
  /\ Verbs \in Seq(Cmds) /\ Len(Verbs) \in Nat /\ DOMAIN Verbs = 1..Len(Verbs)
  /\ \A i \in 1..Len(Verbs) : /\ Verbs[i] \in Cmds
                              /\ Verbs[i] \notin {"page", "tree", "runtime", "frames", "detach"}
  /\ \A i, j \in 1..Len(Verbs) : Verbs[i] = Verbs[j] => i = j
<1>1. Verbs \in Seq(Cmds) /\ Len(Verbs) \in Nat /\ DOMAIN Verbs = 1..Len(Verbs)
  BY RuntimeAssumption, LenProperties
<1>2. \A i \in 1..Len(Verbs) : Verbs[i] \in ToSet(Verbs)
  BY <1>1 DEF ToSet
<1> QED BY <1>1, <1>2, RuntimeAssumption, ElementOfSeq DEF Setup, IsInjective

LEMMA RuntimeStart == Init => RuntimeInv
<1> SUFFICES ASSUME Init PROVE RuntimeInv
  OBVIOUS
<1>1. ClientInv
  BY ClientStart DEF Init
<1>2. TypeOK
  <2>1. step \in 1..Len(Verbs) + 1 /\ changes \in 0..MaxChanges
    BY Constants, RuntimeAssumption DEF Init
  <2> QED BY <1>1, <2>1 DEF Init, TypeOK, ClientInv
<1>3. SetupIsOrdered /\ TeardownCloses
  BY Constants DEF Init, ClientInit, SetupIsOrdered, TeardownCloses
<1>4. ReplayComesFirst
  BY Constants DEF Init, ClientInit, ReplayComesFirst
<1>5. MapIsWhole
  BY DEF Init, MapIsWhole
<1>6. CallerKnows
  BY DEF Init, CallerKnows, AbandonedIsCancelled
<1> QED BY <1>1, <1>2, <1>3, <1>4, <1>5, <1>6 DEF RuntimeInv

(* No step of the client takes back the end of a command, its cancellation, *)
(* or its sending, and only send begins one.                                *)
LEMMA CallsGoOn ==
  ASSUME ClientInv, ClientStep \/ UNCHANGED clientVars, NEW c \in Cmds
  PROVE  /\ call[c] \in Over => call'[c] = call[c]
         /\ give[c] # "none" => give'[c] # "none"
         /\ call[c] # "new" => call'[c] # "new"
         /\ call[c] \notin {"new", "sending"} => call'[c] \notin {"new", "sending"}
<1> USE DEF ClientInv, ClientTypeOK, Calls, Over
<1>1. CASE UNCHANGED clientVars
  BY <1>1 DEF clientVars
<1>2. CASE Connect \/ ReceiveAnswer \/ ReceiveEvent \/ CallbackRaises \/ LoopEnds
           \/ Close \/ SocketDrops
  BY <1>2 DEF Connect, ReceiveAnswer, ReceiveEvent, CallbackRaises, LoopEnds, Close, SocketDrops
<1>3. ASSUME NEW d \in Cmds, Send(d) \/ Written(d) \/ WriteFails(d) \/ WriteCancelled(d)
      PROVE  /\ \/ call'[c] = call[c] \/ (c = d /\ call[c] = "new")
                \/ c = d /\ call[c] = "sending" /\ call'[c] # "new"
             /\ give' = give
  BY <1>3 DEF Send, Written, WriteFails, WriteCancelled
<1>4. ASSUME NEW d \in Cmds, Resume(d)
      PROVE  (call'[c] = call[c] \/ (c = d /\ call[c] = "waiting" /\ call'[c] \notin {"new", "sending"}))
             /\ give' = give
  BY <1>4 DEF Resume, FutureIsMade, Futures
<1>5. ASSUME NEW d \in Cmds, Abandon(d, "timer") \/ Abandon(d, "cancel")
      PROVE  call' = call /\ (give'[c] = give[c] \/ (c = d /\ give'[c] # "none"))
  BY <1>5 DEF Abandon
<1>6. ASSUME NEW d \in Cmds, NEW kind \in {"result", "error"}, NEW before \in Seq(Messages),
             ChromeSays(d, kind, before)
      PROVE  call' = call /\ give' = give
  BY <1>6 DEF ChromeSays
<1>7. ASSUME NEW m \in Messages, ChromeEmits(m)
      PROVE  call' = call /\ give' = give
  BY <1>7 DEF ChromeEmits
<1> QED BY <1>1, <1>2, <1>3, <1>4, <1>5, <1>6, <1>7 DEF ClientStep

LEMMA RuntimeIsClient ==
  ASSUME RuntimeInv, [Next]_vars
  PROVE  ClientStep \/ UNCHANGED clientVars
<1> USE Constants DEF ClientStep, Setup
<1>1. CASE UNCHANGED vars
  BY <1>1 DEF vars
<1>2. CASE ThreadStep
  BY <1>2 DEF ThreadStep, ConnectFails, OpenSession, SendSetup, SetupAnswered, SetupFails,
              SendFrames, FramesSettled, StartTeardown, SendDetach, Detached, CloseConnection,
              Finished
<1>3. CASE CallerStep
  <2>1. caller = "waiting" => Verbs[step] \in Cmds
    BY DEF RuntimeInv, CallerKnows, TypeOK
  <2>2. caller = "between" /\ step <= Len(Verbs) => Verbs[step] \in Cmds
    BY DEF RuntimeInv, TypeOK
  <2> QED BY <1>3, <2>1, <2>2 DEF CallerStep, SeesReady, GivesUpConnecting, SubmitVerb, VerbAnswered,
              SubmitTimesOut, LeavesSession, Unwind
<1>4. CASE HandleEvent \/ ClientRuns \/ ClientBreaks
  BY <1>4 DEF HandleEvent, ClientRuns, ClientBreaks
<1>5. ASSUME NEW c \in Cmds, ChromeAnswers(c)
      PROVE  ClientStep
  <2>1. Replay \in Seq(Messages) /\ <<>> \in Seq(Messages)
    BY ReplayIsAll, EmptySeq DEF RuntimeInv, TypeOK
  <2> QED BY <1>5, <2>1 DEF ChromeAnswers
<1>6. ASSUME NEW x \in Contexts, PageChanges(x)
      PROVE  ClientStep \/ UNCHANGED clientVars
  <2>1. [kind |-> IF x \in live THEN "gone" ELSE "made", of |-> x] \in Messages
    BY DEF Messages
  <2> QED BY <1>6, <2>1 DEF PageChanges
<1> QED BY <1>1, <1>2, <1>3, <1>4, <1>5, <1>6 DEF Next, ChromeStep

LEMMA RuntimeTypes == ASSUME RuntimeInv, ClientInv', [Next]_vars PROVE TypeOK'
<1> USE Constants, RuntimeAssumption DEF RuntimeInv, TypeOK, Setup, ClientInv
<1>1. CASE UNCHANGED vars
  BY <1>1 DEF vars, ClientInv, clientVars, link, view, page, body
<1>2. CASE ThreadStep
  <2>1. CASE ConnectFails \/ OpenSession
    BY <2>1 DEF ConnectFails, OpenSession, view, page, body
  <2>2. CASE SendSetup
    BY <2>2 DEF SendSetup, Subscribed, page, body
  <2>3. CASE SetupAnswered
    BY <2>3 DEF SetupAnswered, AfterSetup, page, body
  <2>4. CASE SetupFails \/ SendFrames \/ FramesSettled
    BY <2>4 DEF SetupFails, SendFrames, FramesSettled, view, page, body
  <2>5. CASE StartTeardown \/ SendDetach \/ Detached \/ CloseConnection \/ Finished
    BY <2>5 DEF StartTeardown, SendDetach, Detached, CloseConnection, Finished, view, page, body
  <2> QED BY <1>2, <2>1, <2>2, <2>3, <2>4, <2>5 DEF ThreadStep, ClientInv
<1>3. CASE CallerStep
  <2>1. CASE SeesReady \/ GivesUpConnecting \/ SubmitVerb \/ LeavesSession
    BY <2>1 DEF SeesReady, GivesUpConnecting, SubmitVerb, LeavesSession, StopRuntime, view, page
  <2>2. CASE VerbAnswered \/ SubmitTimesOut
    BY <2>2 DEF VerbAnswered, SubmitTimesOut, CallerKnows, view, page
  <2> QED BY <1>3, <2>1, <2>2 DEF CallerStep, ClientInv
<1>4. CASE HandleEvent
  <2>1. Head(inbox).of \in Contexts
    BY <1>4, MessageType DEF HandleEvent, ReceiveEvent, ClientInv
  <2> QED BY <1>4, <2>1 DEF HandleEvent, Filed, page, body, ClientInv
<1>5. CASE ClientRuns \/ ClientBreaks
  BY <1>5 DEF ClientRuns, ClientBreaks, view, page, body, ClientInv
<1>6. ASSUME NEW c \in Cmds, ChromeAnswers(c)
      PROVE  TypeOK'
  BY <1>6 DEF ChromeAnswers, view, body, ClientInv
<1>7. ASSUME NEW x \in Contexts, PageChanges(x)
      PROVE  TypeOK'
  BY <1>7 DEF PageChanges, view, body, ClientInv
<1> QED BY <1>1, <1>2, <1>3, <1>4, <1>5, <1>6, <1>7 DEF Next, ChromeStep

(* What a step does to one command: only its Send begins it, only its       *)
(* coroutine ends it, and it ends with a result only if its future has one. *)
LEMMA OneCommand ==
  ASSUME RuntimeInv, [Next]_vars, NEW c \in Cmds
  PROVE  /\ call[c] \in Over => call'[c] = call[c]
         /\ give[c] # "none" => give'[c] # "none"
         /\ call[c] # "new" => call'[c] # "new"
         /\ call[c] \notin {"new", "sending"} => call'[c] \notin {"new", "sending"}
BY RuntimeIsClient, CallsGoOn DEF RuntimeInv

LEMMA NotBegun ==
  ASSUME RuntimeInv, NEW c \in Cmds, call[c] = "new",
         HandleEvent \/ ClientRuns \/ ClientBreaks \/ ChromeStep
  PROVE  call'[c] = "new"
<1> USE DEF RuntimeInv, ClientInv, ClientTypeOK
<1>1. CASE HandleEvent \/ ClientBreaks \/ ChromeStep
  BY <1>1 DEF HandleEvent, ReceiveEvent, ClientBreaks, CallbackRaises, SocketDrops,
              ChromeStep, ChromeAnswers, ChromeSays, PageChanges, ChromeEmits, clientVars
<1>2. CASE ClientRuns
  BY <1>2 DEF ClientRuns, Written, WriteFails, WriteCancelled, Resume, Abandon, ReceiveAnswer, LoopEnds
<1> QED BY <1>1, <1>2

LEMMA ResultIsFuture ==
  ASSUME RuntimeInv, [Next]_vars, NEW c \in Cmds, call[c] # "result", call'[c] = "result"
  PROVE  fut[c] = "result"
<1> USE DEF RuntimeInv, ClientInv, ClientTypeOK, Calls
<1>1. ASSUME NEW d \in Cmds, Written(d) \/ WriteFails(d) \/ WriteCancelled(d) \/ Send(d)
                             \/ Abandon(d, "timer") \/ Abandon(d, "cancel")
      PROVE  FALSE
  BY <1>1 DEF Written, WriteFails, WriteCancelled, Send, Abandon
<1>2. ASSUME NEW d \in Cmds, Resume(d)
      PROVE  fut[c] = "result"
  BY <1>2 DEF Resume
<1>3. CASE Connect \/ ReceiveAnswer \/ ReceiveEvent \/ CallbackRaises \/ LoopEnds \/ Close
           \/ SocketDrops \/ UNCHANGED clientVars
  BY <1>3 DEF Connect, ReceiveAnswer, ReceiveEvent, CallbackRaises, LoopEnds, Close, SocketDrops,
              clientVars
<1>4. ASSUME NEW d \in Cmds, NEW kind \in {"result", "error"}, NEW before \in Seq(Messages),
             ChromeSays(d, kind, before)
      PROVE  FALSE
  BY <1>4 DEF ChromeSays
<1>5. ASSUME NEW m \in Messages, ChromeEmits(m)
      PROVE  FALSE
  BY <1>5 DEF ChromeEmits
<1> QED BY <1>1, <1>2, <1>3, <1>4, <1>5, RuntimeIsClient DEF ClientStep

LEMMA SetupKeeps == ASSUME RuntimeInv, [Next]_vars PROVE SetupIsOrdered'
<1> USE Constants, OneCommand DEF SetupIsOrdered, Setup, Over, Calls
<1>0. SetupIsOrdered /\ call \in [Cmds -> Calls]
  BY DEF RuntimeInv, ClientInv, ClientTypeOK
<1>1. CASE UNCHANGED vars
  BY <1>0, <1>1 DEF vars, clientVars, link, view, page, body
<1>2. CASE ThreadStep
  <2>1. CASE ConnectFails \/ OpenSession
    BY <1>0, <2>1 DEF ConnectFails, OpenSession, Connect, view, page, body, clientVars
  <2>2. CASE SendSetup
    BY <1>0, <2>2 DEF SendSetup, Send, Subscribed, page, body
  <2>3. CASE SetupAnswered
    BY <1>0, <2>3 DEF SetupAnswered, AfterSetup, page, body, clientVars
  <2>4. CASE SetupFails
    BY <1>0, <2>4 DEF SetupFails, view, page, body, clientVars
  <2>5. CASE SendFrames
    BY <1>0, <2>5 DEF SendFrames, Send, view, page, body
  <2>6. CASE FramesSettled
    BY <1>0, <2>6 DEF FramesSettled, view, page, body, clientVars
  <2>7. CASE StartTeardown \/ Detached \/ Finished
    BY <1>0, <2>7 DEF StartTeardown, Detached, Finished, view, page, body, clientVars
  <2>8. CASE SendDetach \/ CloseConnection
    BY <1>0, <2>8 DEF SendDetach, Send, CloseConnection, Close, view, page, body
  <2> QED BY <1>2, <2>1, <2>2, <2>3, <2>4, <2>5, <2>6, <2>7, <2>8 DEF ThreadStep
<1>3. CASE CallerStep
  <2>1. call["runtime"] = "new" => call'["runtime"] = "new"
    <3>1. caller \in {"between", "waiting"} /\ step <= Len(Verbs) => Verbs[step] # "runtime"
      BY DEF RuntimeInv, TypeOK
    <3>2. caller = "waiting" => step <= Len(Verbs)
      BY DEF RuntimeInv, CallerKnows
    <3> QED BY <1>0, <1>3, <3>1, <3>2 DEF CallerStep, SeesReady, GivesUpConnecting, SubmitVerb, Send,
                VerbAnswered, SubmitTimesOut, Unwind, Abandon, LeavesSession, clientVars
  <2>2. UNCHANGED <<thread, client, ready, tree, subs>>
    BY <1>3 DEF CallerStep, SeesReady, GivesUpConnecting, SubmitVerb, VerbAnswered,
                SubmitTimesOut, LeavesSession, view
  <2> QED BY <1>0, <2>1, <2>2
<1>4. CASE HandleEvent \/ ClientRuns \/ ClientBreaks \/ ChromeStep
  <2>1. call["runtime"] = "new" => call'["runtime"] = "new"
    BY <1>4, NotBegun
  <2>2. UNCHANGED <<thread, client, ready, tree, subs>>
    BY <1>4 DEF HandleEvent, ClientRuns, ClientBreaks, ChromeStep, ChromeAnswers, PageChanges, view
  <2> QED BY <1>0, <2>1, <2>2
<1> QED BY <1>1, <1>2, <1>3, <1>4 DEF Next

LEMMA TeardownKeeps == ASSUME RuntimeInv, [Next]_vars PROVE TeardownCloses'
<1> USE DEF RuntimeInv, TeardownCloses, ClientInv, LoopOwnsPending
<1>1. CASE UNCHANGED vars
  BY <1>1 DEF vars, clientVars, link
<1>2. CASE ThreadStep
  <2>1. CASE ConnectFails \/ OpenSession
    BY <2>1 DEF ConnectFails, OpenSession, clientVars, link
  <2>2. CASE SendSetup \/ SendFrames \/ SendDetach
    BY <2>2 DEF SendSetup, SendFrames, SendDetach, Send, link
  <2>3. CASE SetupAnswered \/ SetupFails \/ FramesSettled \/ StartTeardown \/ Detached \/ Finished
    BY <2>3 DEF SetupAnswered, AfterSetup, SetupFails, FramesSettled, StartTeardown, Detached,
                Finished, clientVars, link, Setup
  <2>4. CASE CloseConnection
    BY <2>4 DEF CloseConnection, Close
  <2> QED BY <1>2, <2>1, <2>2, <2>3, <2>4 DEF ThreadStep
<1>3. CASE CallerStep
  BY <1>3 DEF CallerStep, SeesReady, GivesUpConnecting, SubmitVerb, VerbAnswered, SubmitTimesOut,
              LeavesSession, Send, Unwind, Abandon, clientVars, link
<1>4. CASE HandleEvent \/ ClientBreaks \/ ChromeStep
  BY <1>4 DEF HandleEvent, ReceiveEvent, ClientBreaks, CallbackRaises, LoopOver, SocketDrops,
              ChromeStep, ChromeAnswers, ChromeSays, PageChanges, ChromeEmits, clientVars, link
<1>5. CASE ClientRuns
  BY <1>5 DEF ClientRuns, Written, WriteFails, WriteCancelled, Resume, Abandon, ReceiveAnswer, Deliver,
              LoopEnds, LoopOver, link
<1> QED BY <1>1, <1>2, <1>3, <1>4, <1>5 DEF Next

LEMMA CallerKeeps == ASSUME RuntimeInv, [Next]_vars PROVE CallerKnows'
<1> USE Constants, OneCommand
<1>0. CallerKnows /\ step \in 1..Len(Verbs) + 1 /\ call \in [Cmds -> Calls]
      /\ give \in [Cmds -> {"none", "timer", "cancel"}]
  BY DEF RuntimeInv, TypeOK, ClientTypeOK
<1>1. CASE UNCHANGED <<caller, step>>
  BY <1>0, <1>1 DEF CallerKnows, AbandonedIsCancelled, Over, Calls
<1>2. CASE SeesReady
  <2>1. call["runtime"] = "result"
    BY <1>2 DEF SeesReady, Available, Connected, RuntimeInv, SetupIsOrdered
  <2> QED BY <1>0, <1>2, <2>1
          DEF SeesReady, CallerKnows, AbandonedIsCancelled, clientVars
<1>3. CASE GivesUpConnecting \/ LeavesSession
  BY <1>0, <1>3 DEF GivesUpConnecting, LeavesSession, CallerKnows, AbandonedIsCancelled, clientVars
<1>4. CASE SubmitVerb
  <2>1. CASE Available
    <3>1. caller = "between" /\ step <= Len(Verbs) /\ step' = step /\ Send(Verbs[step])
          /\ caller' = "waiting"
      BY <1>4, <2>1 DEF SubmitVerb
    <3>2. call'[Verbs[step]] # "new"
      BY <1>0, <3>1 DEF Send
    <3>3. call'["runtime"] = "result"
      BY <1>0, <3>1 DEF CallerKnows, Over, Calls
    <3> QED BY <1>0, <3>1, <3>2, <3>3 DEF CallerKnows, AbandonedIsCancelled, Over, Calls
  <2>2. CASE ~Available
    BY <1>0, <1>4, <2>2 DEF SubmitVerb, CallerKnows, AbandonedIsCancelled, clientVars
  <2> QED BY <2>1, <2>2
<1>5. CASE VerbAnswered
  BY <1>0, <1>5 DEF VerbAnswered, CallerKnows, AbandonedIsCancelled, clientVars
<1>6. CASE SubmitTimesOut
  <2>1. give'[Verbs[step]] # "none"
    BY <1>0, <1>6 DEF SubmitTimesOut, Unwind, Abandon, CallerKnows
  <2>2. step' = step + 1 /\ caller' = "between" /\ caller = "waiting"
    BY <1>6 DEF SubmitTimesOut
  <2> QED BY <1>0, <2>1, <2>2 DEF CallerKnows, AbandonedIsCancelled, Over, Calls
<1>7. CASE ThreadStep \/ HandleEvent \/ ClientRuns \/ ClientBreaks \/ ChromeStep
  BY <1>1, <1>7 DEF ThreadStep, ConnectFails, OpenSession, SendSetup, SetupAnswered, SetupFails,
         SendFrames, FramesSettled, StartTeardown, SendDetach, Detached, CloseConnection, Finished,
         HandleEvent, ClientRuns, ClientBreaks, ChromeStep, ChromeAnswers, PageChanges, body
<1> QED BY <1>1, <1>2, <1>3, <1>4, <1>5, <1>6, <1>7 DEF Next, CallerStep, vars, body

(* The part of a step that the order of the replay depends on: what is put  *)
(* into the inbox, and what is taken out.                                   *)
LEMMA InboxTail ==
  ASSUME RuntimeInv, inbox # <<>>, inbox' = Tail(inbox)
  PROVE  /\ \A i \in DOMAIN inbox' : \E j \in DOMAIN inbox : inbox'[i] = inbox[j]
         /\ 1 \in DOMAIN inbox /\ inbox[1] = Head(inbox)
<1>1. inbox \in Seq(Messages)
  BY DEF RuntimeInv, ClientInv
<1> QED BY <1>1, TailShift

LEMMA InboxAppend ==
  ASSUME RuntimeInv, NEW m \in Messages, inbox' = Append(inbox, m)
  PROVE  \A i \in DOMAIN inbox' : inbox'[i] = m \/ \E j \in DOMAIN inbox : inbox'[i] = inbox[j]
<1>1. inbox \in Seq(Messages)
  BY DEF RuntimeInv, ClientInv
<1>2. /\ Len(inbox) \in Nat /\ DOMAIN inbox = 1..Len(inbox)
      /\ DOMAIN Append(inbox, m) = 1..(Len(inbox) + 1)
  BY <1>1, AppendProperties, LenProperties
<1> QED BY <1>1, <1>2, AppendProperties

LEMMA AnswerAppends ==
  ASSUME RuntimeInv, NEW c \in Cmds, NEW kind \in {"result", "error"},
         ChromeSays(c, kind, <<>>)
  PROVE  /\ inbox' = Append(inbox, [kind |-> kind, of |-> c])
         /\ [kind |-> kind, of |-> c] \in Messages /\ IsAnswer([kind |-> kind, of |-> c])
<1>1. inbox \in Seq(Messages)
  BY DEF RuntimeInv, ClientInv
<1>2. [kind |-> kind, of |-> c] \in Messages /\ IsAnswer([kind |-> kind, of |-> c])
  BY DEF Messages, IsAnswer
<1> QED BY <1>1, <1>2, ConcatEmptySeq, AppendIsConcat DEF ChromeSays

LEMMA WireKeeps ==
  ASSUME RuntimeInv, [Next]_vars
  PROVE  /\ \A c \in wire' : call'[c] \notin {"new", "sending"}
         /\ replayed /\ "runtime" \notin wire => "runtime" \notin wire'
<1> USE Constants, OneCommand DEF RuntimeInv, ReplayComesFirst, ClientInv, ClientTypeOK
<1>1. ASSUME wire' \subseteq wire
      PROVE  /\ \A c \in wire' : call'[c] \notin {"new", "sending"}
             /\ replayed /\ "runtime" \notin wire => "runtime" \notin wire'
  BY <1>1
<1>2. ASSUME NEW d \in Cmds, Written(d) \/ WriteCancelled(d)
      PROVE  /\ \A c \in wire' : call'[c] \notin {"new", "sending"}
             /\ replayed /\ "runtime" \notin wire => "runtime" \notin wire'
  BY <1>2 DEF Written, WriteCancelled
<1>3. ASSUME NEW d \in Cmds, WriteFails(d) \/ Send(d) \/ Resume(d)
                             \/ Abandon(d, "timer") \/ Abandon(d, "cancel")
      PROVE  wire' = wire
  BY <1>3 DEF WriteFails, Send, Resume, Abandon
<1>4. CASE Connect \/ ReceiveAnswer \/ ReceiveEvent \/ CallbackRaises \/ LoopEnds \/ Close
           \/ SocketDrops \/ UNCHANGED clientVars
  BY <1>1, <1>4 DEF Connect, ReceiveAnswer, ReceiveEvent, CallbackRaises, LoopEnds, Close, SocketDrops,
              clientVars
<1>5. ASSUME NEW d \in Cmds, NEW kind \in {"result", "error"}, NEW before \in Seq(Messages),
             ChromeSays(d, kind, before)
      PROVE  wire' \subseteq wire
  BY <1>5 DEF ChromeSays
<1>6. ASSUME NEW m \in Messages, ChromeEmits(m)
      PROVE  wire' = wire
  BY <1>6 DEF ChromeEmits
<1> QED BY <1>1, <1>2, <1>3, <1>4, <1>5, <1>6, RuntimeIsClient DEF ClientStep

(* A step that is not Chrome's tells the replay of nothing.                 *)
LEMMA QuietKeeps ==
  ASSUME RuntimeInv, [Next]_vars, UNCHANGED replayed,
         \A i \in DOMAIN inbox' : \E j \in DOMAIN inbox : inbox'[i] = inbox[j],
         fut["runtime"] # "result" => fut'["runtime"] # "result",
         known' = known \/ known' = {}
  PROVE  ReplayComesFirst'
<1> USE Constants, OneCommand
<1>1. call'["runtime"] = "result" => call["runtime"] = "result" \/ fut["runtime"] = "result"
  BY ResultIsFuture
<1>2. (\A i \in DOMAIN inbox : IsAnswer(inbox[i])) => \A i \in DOMAIN inbox' : IsAnswer(inbox'[i])
  BY DEF IsAnswer
<1> QED BY <1>1, <1>2, WireKeeps DEF RuntimeInv, ReplayComesFirst

LEMMA ReplayKeeps == ASSUME RuntimeInv, [Next]_vars PROVE ReplayComesFirst'
<1> USE Constants
<1>0. ReplayComesFirst /\ SetupIsOrdered /\ ClientTypeOK /\ inbox \in Seq(Messages)
      /\ replayed \in BOOLEAN
  BY DEF RuntimeInv, ClientInv, TypeOK
<1>1. CASE UNCHANGED vars
  BY <1>1, QuietKeeps DEF vars, clientVars, view, page
<1>2. CASE ThreadStep
  <2>1. UNCHANGED <<replayed, inbox>> /\ (known' = known \/ known' = {})
    BY <1>2 DEF ThreadStep, ConnectFails, OpenSession, SendSetup, SetupAnswered, SetupFails, SendFrames,
                FramesSettled, StartTeardown, SendDetach, Detached, CloseConnection, Finished, Connect,
                Send, Close, clientVars, view, page
  <2>2. fut["runtime"] # "result" => fut'["runtime"] # "result"
    BY <1>0, <1>2 DEF ThreadStep, ConnectFails, OpenSession, SendSetup, SetupAnswered, SetupFails, SendFrames,
                FramesSettled, StartTeardown, SendDetach, Detached, CloseConnection, Finished, Connect,
                Send, Close, clientVars, ClientTypeOK
  <2> QED BY <2>1, <2>2, QuietKeeps
<1>3. CASE CallerStep
  <2>1. UNCHANGED <<replayed, inbox, known>>
    BY <1>3 DEF CallerStep, SeesReady, GivesUpConnecting, SubmitVerb, VerbAnswered, SubmitTimesOut,
                LeavesSession, Send, Unwind, Abandon, clientVars, view, page
  <2>2. fut["runtime"] # "result" => fut'["runtime"] # "result"
    BY <1>0, <1>3 DEF CallerStep, SeesReady, GivesUpConnecting, SubmitVerb, VerbAnswered, SubmitTimesOut,
                LeavesSession, Send, Unwind, Abandon, clientVars, ClientTypeOK
  <2> QED BY <2>1, <2>2, QuietKeeps
<1>4. CASE HandleEvent
  <2>1. /\ recv = "running" /\ inbox # <<>> /\ inbox' = Tail(inbox) /\ ~IsAnswer(Head(inbox))
        /\ UNCHANGED <<call, fut, wire, replayed>>
    BY <1>4 DEF HandleEvent, ReceiveEvent, page
  <2>2. replayed
    BY <1>0, <2>1, InboxTail DEF ReplayComesFirst
  <2> QED BY <1>0, <2>1, <2>2 DEF ReplayComesFirst
<1>5. CASE ClientRuns
  <2>1. UNCHANGED <<replayed, known>>
    BY <1>5 DEF ClientRuns, view, page
  <2>2. CASE ReceiveAnswer
    <3>1. /\ inbox # <<>> /\ inbox' = Tail(inbox)
          /\ fut' = fut \/ fut' = [fut EXCEPT ![Head(inbox).of] =
                                      IF @ = "pending" THEN Head(inbox).kind ELSE @]
      BY <2>2 DEF ReceiveAnswer, Deliver
    <3>2. Head(inbox) = inbox[1] /\ 1 \in DOMAIN inbox /\ Head(inbox) \in Messages
      BY <1>0, <3>1, InboxTail, MessageType
    <3>3. fut["runtime"] # "result" /\ fut'["runtime"] = "result"
             => inbox[1] = [kind |-> "result", of |-> "runtime"]
      BY <1>0, <3>1, <3>2 DEF ClientTypeOK, Messages
    <3>4. fut'["runtime"] = "result" => replayed
      BY <1>0, <3>2, <3>3 DEF ReplayComesFirst
    <3>5. UNCHANGED <<call, wire>>
      BY <2>2 DEF ReceiveAnswer
    <3> QED BY <1>0, <2>1, <3>1, <3>4, <3>5, InboxTail DEF ReplayComesFirst, IsAnswer
  <2>3. CASE ~ReceiveAnswer
    <3>1. inbox' = inbox
      BY <1>5, <2>3 DEF ClientRuns, Written, WriteFails, WriteCancelled, Resume, Abandon, LoopEnds
    <3>2. fut["runtime"] # "result" => fut'["runtime"] # "result"
      BY <1>0, <1>5, <2>3 DEF ClientRuns, Written, WriteFails, WriteCancelled, Resume, Abandon,
                              LoopEnds, LoopOver, ClientTypeOK
    <3> QED BY <2>1, <3>1, <3>2, QuietKeeps
  <2> QED BY <2>2, <2>3
<1>6. CASE ClientBreaks
  <2>1. UNCHANGED <<replayed, known>>
    BY <1>6 DEF ClientBreaks, view, page
  <2>2. inbox' = inbox \/ (inbox # <<>> /\ inbox' = Tail(inbox))
    <3>1. CASE CallbackRaises
      BY <3>1 DEF CallbackRaises
    <3>2. ASSUME SocketDrops PROVE inbox' = inbox
      BY <3>2 DEF SocketDrops
    <3> QED BY <1>6, <3>1, <3>2 DEF ClientBreaks
  <2>3. fut["runtime"] # "result" => fut'["runtime"] # "result"
    BY <1>0, <1>6 DEF ClientBreaks, CallbackRaises, SocketDrops, LoopOver, ClientTypeOK
  <2> QED BY <2>1, <2>2, <2>3, InboxTail, QuietKeeps
<1>7. ASSUME NEW c \in Cmds, ChromeAnswers(c)
      PROVE  ReplayComesFirst'
  <2>1. c \in wire /\ UNCHANGED <<call, fut, known>> /\ wire' = wire \ {c}
    BY <1>7 DEF ChromeAnswers, ChromeSays, view
  <2>2. CASE replayed \/ replayed'
    <3>1. replayed'
      BY <1>0, <1>7, <2>2 DEF ChromeAnswers
    <3>2. c = "runtime" \/ replayed
      BY <1>0, <1>7, <2>2 DEF ChromeAnswers
    <3> QED BY <1>0, <2>1, <3>1, <3>2 DEF ReplayComesFirst
  <2>3. CASE ~replayed /\ ~replayed'
    <3>1. PICK kind \in {"result", "error"} : /\ ChromeSays(c, kind, <<>>)
                                              /\ kind = "result" => c # "runtime"
      BY <1>7, <2>3 DEF ChromeAnswers
    <3>2. \A i \in DOMAIN inbox' : \/ inbox'[i] = [kind |-> kind, of |-> c]
                                   \/ \E j \in DOMAIN inbox : inbox'[i] = inbox[j]
      BY <3>1, AnswerAppends, InboxAppend
    <3> QED BY <1>0, <2>1, <2>3, <3>1, <3>2 DEF ReplayComesFirst, IsAnswer
  <2> QED BY <2>2, <2>3
<1>8. ASSUME NEW x \in Contexts, PageChanges(x)
      PROVE  ReplayComesFirst'
  <2>1. UNCHANGED <<replayed, call, fut, known, wire>>
    BY <1>8 DEF PageChanges, ChromeEmits, clientVars, view
  <2>2. replayed \/ inbox' = inbox
    BY <1>8 DEF PageChanges, clientVars
  <2> QED BY <1>0, <2>1, <2>2 DEF ReplayComesFirst
<1> QED BY <1>1, <1>2, <1>3, <1>4, <1>5, <1>6, <1>7, <1>8 DEF Next, ChromeStep

LEMMA MapStays ==
  ASSUME RuntimeInv, UNCHANGED <<replayed, known, live, inbox>>,
         recv' = "running" => recv = "running", socket' = "open" => socket = "open"
  PROVE  MapIsWhole'
BY DEF RuntimeInv, MapIsWhole, Reaches

LEMMA MapKeeps == ASSUME RuntimeInv, [Next]_vars PROVE MapIsWhole'
<1> USE Constants
<1>0. /\ MapIsWhole /\ ReplayComesFirst /\ SetupIsOrdered /\ inbox \in Seq(Messages)
      /\ live \subseteq Contexts /\ replayed \in BOOLEAN
  BY DEF RuntimeInv, ClientInv, TypeOK
<1>1. CASE UNCHANGED vars
  BY <1>1, MapStays DEF vars, clientVars, link, view, page
<1>2. CASE ThreadStep
  <2>1. CASE ConnectFails \/ SetupFails \/ FramesSettled \/ StartTeardown \/ Detached \/ Finished
    BY <2>1, MapStays DEF ConnectFails, SetupFails, FramesSettled, StartTeardown, Detached, Finished,
                          clientVars, link, view, page
  <2>2. CASE OpenSession
    BY <1>0, <2>2 DEF OpenSession, SetupIsOrdered, ReplayComesFirst, MapIsWhole, page
  <2>3. CASE SendSetup \/ SendFrames \/ SendDetach
    BY <2>3, MapStays DEF SendSetup, SendFrames, SendDetach, Send, link, view, page
  <2>4. CASE SetupAnswered
    <3>1. CASE thread = "tree"
      BY <1>0, <2>4, <3>1 DEF SetupAnswered, SetupIsOrdered, ReplayComesFirst, MapIsWhole, page
    <3>2. CASE thread # "tree"
      BY <2>4, <3>2, MapStays DEF SetupAnswered, clientVars, link, page
    <3> QED BY <3>1, <3>2
  <2>5. CASE CloseConnection
    BY <2>5, MapStays DEF CloseConnection, Close, view, page
  <2> QED BY <1>2, <2>1, <2>2, <2>3, <2>4, <2>5 DEF ThreadStep
<1>3. CASE CallerStep
  BY <1>3, MapStays DEF CallerStep, SeesReady, GivesUpConnecting, SubmitVerb, VerbAnswered, SubmitTimesOut,
                        LeavesSession, Send, Unwind, Abandon, clientVars, link, view, page
<1>4. CASE HandleEvent
  <2>1. /\ recv = "running" /\ inbox # <<>> /\ inbox' = Tail(inbox) /\ ~IsAnswer(Head(inbox))
        /\ UNCHANGED <<socket, replayed, live>> /\ known' = Filed(Head(inbox))
    BY <1>4 DEF HandleEvent, ReceiveEvent, link, page
  <2>2. replayed => known' = Handled(known, Head(inbox))
    BY <1>0, <2>1 DEF Filed, Handled, ReplayComesFirst, SetupIsOrdered
  <2> QED BY <1>0, <2>1, <2>2, HeadIsHandled DEF MapIsWhole, Reaches
<1>5. CASE ClientRuns
  <2>1. CASE ReceiveAnswer
    <3>1. /\ recv = "running" /\ inbox # <<>> /\ inbox' = Tail(inbox) /\ IsAnswer(Head(inbox))
          /\ UNCHANGED <<socket, replayed, live, known>>
      BY <1>5, <2>1 DEF ClientRuns, ReceiveAnswer, Deliver, link, view, page
    <3> QED BY <1>0, <3>1, HeadIsHandled DEF MapIsWhole, Reaches, Handled
  <2>2. CASE LoopEnds
    BY <2>2 DEF LoopEnds, LoopOver, MapIsWhole
  <2>3. ASSUME NEW c \in Cmds, Written(c) \/ WriteFails(c) \/ WriteCancelled(c) \/ Resume(c)
                               \/ Abandon(c, "timer")
        PROVE  MapIsWhole'
    BY <1>5, <2>3, MapStays DEF ClientRuns, Written, WriteFails, WriteCancelled, Resume, Abandon, link,
                                view, page
  <2> QED BY <1>5, <2>1, <2>2, <2>3 DEF ClientRuns
<1>6. CASE ClientBreaks
  BY <1>6 DEF ClientBreaks, CallbackRaises, LoopOver, SocketDrops, MapIsWhole
<1>7. ASSUME NEW c \in Cmds, ChromeAnswers(c)
      PROVE  MapIsWhole'
  <2>1. c \in wire /\ UNCHANGED <<known, live, recv, socket>> /\ socket = "open"
    BY <1>7 DEF ChromeAnswers, ChromeSays, link, view
  <2>2. CASE \E kind \in {"result", "error"} : ChromeSays(c, kind, <<>>) /\ replayed' = replayed
    <3>1. PICK kind \in {"result", "error"} : ChromeSays(c, kind, <<>>) /\ replayed' = replayed
      BY <2>2
    <3> DEFINE m == [kind |-> kind, of |-> c]
    <3>2. LeftBy(known, inbox') = LeftBy(known, inbox)
      <4>1. inbox' = Append(inbox, m) /\ m \in Messages /\ IsAnswer(m)
        BY <3>1, AnswerAppends
      <4> HIDE DEF m
      <4> QED BY <1>0, <4>1, LastIsHandled
    <3> QED BY <1>0, <2>1, <3>1, <3>2 DEF MapIsWhole, Reaches
  <2>3. CASE c = "runtime" /\ ChromeSays(c, "result", Replay)
    <3> DEFINE m == [kind |-> "result", of |-> c]
    <3>1. ~replayed /\ known = {} /\ \A i \in DOMAIN inbox : IsAnswer(inbox[i])
      BY <1>0, <2>1, <2>3 DEF ReplayComesFirst
    <3>2. m \in Messages /\ IsAnswer(m)
      BY DEF Messages, IsAnswer
    <3>3. Replay \in Seq(Messages) /\ inbox \o Replay \in Seq(Messages)
      BY <1>0, ReplayIsAll, ConcatProperties
    <3>4. inbox' = Append(inbox \o Replay, m)
      BY <2>3, <3>2, <3>3, AppendIsConcat DEF ChromeSays
    <3>5. LeftBy(known, inbox') = live
      BY <1>0, <3>1, <3>2, <3>3, <3>4, LastIsHandled, ReplayReachesAll
    <3> QED BY <2>1, <3>5 DEF MapIsWhole, Reaches
  <2> QED BY <1>0, <1>7, <2>2, <2>3 DEF ChromeAnswers
<1>8. ASSUME NEW x \in Contexts, PageChanges(x)
      PROVE  MapIsWhole'
  <2>1. /\ live' = IF x \in live THEN live \ {x} ELSE live \union {x}
        /\ UNCHANGED <<known, replayed, recv, socket>>
        /\ replayed /\ socket = "open" =>
              inbox' = Append(inbox, [kind |-> IF x \in live THEN "gone" ELSE "made", of |-> x])
    BY <1>8 DEF PageChanges, ChromeEmits, clientVars, link, view
  <2>2. PICK m \in Messages : /\ ~IsAnswer(m) /\ m.of = x /\ (m.kind = "made" <=> x \notin live)
                              /\ replayed /\ socket = "open" => inbox' = Append(inbox, m)
    BY <2>1 DEF Messages, IsAnswer
  <2>3. LeftBy(known, Append(inbox, m)) = IF m.kind = "made" THEN LeftBy(known, inbox) \union {x}
                                          ELSE LeftBy(known, inbox) \ {x}
    BY <1>0, <2>2, LastIsHandled
  <2> QED BY <1>0, <2>1, <2>2, <2>3 DEF MapIsWhole, Reaches
<1> QED BY <1>1, <1>2, <1>3, <1>4, <1>5, <1>6, <1>7, <1>8 DEF Next, ChromeStep

-----------------------------------------------------------------------------
LEMMA RuntimeKeeps == ASSUME RuntimeInv, [Next]_vars PROVE RuntimeInv'
<1>1. ClientInv'
  <2>1. CASE ClientStep
    BY <2>1, ClientKeeps DEF RuntimeInv
  <2>2. CASE UNCHANGED clientVars
    BY <2>2 DEF RuntimeInv, ClientInv, ClientTypeOK, LoopOwnsPending, WaiterIsRegistered, FutureIsMade,
                LateAnswerIsHarmless, GivenUpIsRetired, clientVars, link
  <2> QED BY <2>1, <2>2, RuntimeIsClient
<1> QED BY <1>1, RuntimeTypes, SetupKeeps, ReplayKeeps, MapKeeps, CallerKeeps, TeardownKeeps
        DEF RuntimeInv

LEMMA RuntimeHolds == Spec => []RuntimeInv
<1>1. RuntimeInv /\ [Next]_vars => RuntimeInv'
  BY RuntimeKeeps
<1> QED BY RuntimeStart, <1>1, PTL DEF Spec

(* A command comes to one end only, whatever becomes of the connection: it  *)
(* never waits on a loop that is gone, and an answer that comes after it    *)
(* was given up finds its entry retired (CDPClient.send, _receive_loop).    *)
THEOREM CallsSettleTheorem == Spec => []CallsSettle
<1>1. RuntimeInv => CallsSettle
  BY DEF RuntimeInv, ClientInv, CallsSettle, NoWaiterOnDeadLoop, LoopOwnsPending, WaiterIsRegistered
<1> QED BY <1>1, RuntimeHolds, PTL

(* A verb starts only on the whole map of frames and contexts, a verb that  *)
(* its caller gave up is cancelled, and an ended runtime leaves no loop, no *)
(* socket and no entry behind (CDPRuntime.start, submit, stop).             *)
THEOREM VerbsSeeTheMapTheorem == Spec => []VerbsSeeTheMap
<1>1. ASSUME RuntimeInv PROVE VerbsSeeTheMap
  <2>1. VerbSeesWholeMap
    BY <1>1 DEF RuntimeInv, CallerKnows, ReplayComesFirst, MapIsWhole, VerbSeesWholeMap
  <2>2. FinishedLeavesNothing
    BY <1>1 DEF RuntimeInv, TeardownCloses, ClientInv, ClientTypeOK, LoopOwnsPending, FinishedLeavesNothing
  <2> QED BY <1>1, <2>1, <2>2 DEF RuntimeInv, CallerKnows, VerbsSeeTheMap
<1> QED BY <1>1, RuntimeHolds, PTL
=============================================================================
