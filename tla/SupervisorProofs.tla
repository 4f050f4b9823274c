-------------------------- MODULE SupervisorProofs --------------------------
(* Proofs about Supervisor: for any tabs, and any number of toggles and of  *)
(* other browsers, a border that is off is off, and only an instance whose  *)
(* browser is gone is retired.                                              *)
EXTENDS Supervisor, SequenceTheorems, TLAPS

USE SupervisorAssumption

-----------------------------------------------------------------------------
(* The connection.  It lasts while the loop watches, and ends with the      *)
(* browser; a browser that left the port does not come back to it.          *)

LinkInv ==
  /\ conn # "none" => sup = "watch" /\ port = conn
  /\ sup = "retire" => port # "ours"
  /\ RetiresOnlyGone

(* The types, without the bound of a queue. *)
Typed ==
  /\ port \in Browsers \cup {"none"}
  /\ arrivals \in 0..MaxArrivals
  /\ registered \in BOOLEAN
  /\ sup \in Phases
  /\ why \in {"running", "retired", "stranger", "failed", "killed"}
  /\ conn \in Browsers \cup {"none"}
  /\ setting \in BOOLEAN /\ toggles \in 0..MaxToggles /\ on \in BOOLEAN
  /\ tab \in [Tabs -> [life : {"unborn", "open", "closed"},
                       drawn : BOOLEAN, scripts : 0..1]]
  /\ handled \in SUBSET Tabs
  /\ mark \in [Tabs -> {"none", "bare", "scripted"}]
  /\ setup \in [Tabs -> {"none", "attaching", "attached", "titling"}]
  /\ queue \in [Tabs -> Seq(BOOLEAN)]
  /\ half \in [Tabs -> BOOLEAN]

(* A change of the setting that the supervisor has not read yet. *)
Unread == IF on = setting THEN 0 ELSE 1

(* Every read of the setting takes a change of the user, and the border of a *)
(* new tab adds one call to those of the reads.                              *)
QueueIsShort(t) ==
  /\ Len(queue[t]) <= toggles + 1 - Unread
  /\ (tab[t].life = "open" /\ setup[t] # "none") => Len(queue[t]) <= toggles - Unread

(* A connection to another browser does nothing here, and what a session     *)
(* registered is gone with it.                                               *)
WorkIsOfTheConnection(t) ==
  conn # "ours" => /\ handled = {} /\ mark[t] = "none" /\ setup[t] = "none"
                   /\ queue[t] = <<>> /\ ~half[t] /\ tab[t].scripts = 0

(* How far a tab has come. *)
TabIsOrdered(t) ==
  /\ tab[t].life # "open" => tab[t].scripts = 0
  /\ tab[t].life = "unborn" => /\ t \notin handled /\ setup[t] = "none"
                               /\ mark[t] = "none" /\ queue[t] = <<>>
  /\ Live(t) =>
       /\ t \notin handled => setup[t] = "none" /\ mark[t] = "none"
       /\ setup[t] \in {"attaching", "attached"} => mark[t] = "none"
       /\ t \in handled /\ setup[t] \in {"none", "titling"} => mark[t] # "none"
       /\ mark[t] = "none" => queue[t] = <<>>

(* What the mark of a live tab says: whether a script is registered, and how *)
(* far the call that is under way has come.                                  *)
MarkIsTrue(t) ==
  /\ half[t] => queue[t] # <<>>
  /\ Live(t) =>
       /\ tab[t].scripts = 1 <=> mark[t] = "scripted"
       /\ half[t] /\ Head(queue[t]) => mark[t] = "scripted"
       /\ half[t] /\ ~Head(queue[t]) => mark[t] = "bare"

(* The last call of a tab is for the setting as it was last read; and while  *)
(* off is the last word, no script is left, and after the setup no border.   *)
LastCallCounts(t) ==
  Live(t) =>
    /\ queue[t] # <<>> => queue[t][Len(queue[t])] = on
    /\ (queue[t] = <<>> /\ ~on) =>
          /\ mark[t] # "scripted"
          /\ (t \in handled /\ setup[t] = "none") => ~tab[t].drawn

TabInv(t) == /\ QueueIsShort(t) /\ WorkIsOfTheConnection(t) /\ TabIsOrdered(t)
             /\ MarkIsTrue(t) /\ LastCallCounts(t)

SupervisorInv == /\ Typed /\ LinkInv
                 /\ toggles = 0 => on = setting
                 /\ \A t \in Tabs : TabInv(t)

-----------------------------------------------------------------------------
(* Initially. *)

LEMMA TabType ==
  ASSUME Typed, NEW t \in Tabs
  PROVE  /\ tab[t] \in [life : {"unborn", "open", "closed"}, drawn : BOOLEAN, scripts : 0..1]
         /\ tab[t].life \in {"unborn", "open", "closed"}
         /\ tab[t].drawn \in BOOLEAN /\ tab[t].scripts \in {0, 1}
         /\ mark[t] \in {"none", "bare", "scripted"}
         /\ setup[t] \in {"none", "attaching", "attached", "titling"}
         /\ queue[t] \in Seq(BOOLEAN) /\ half[t] \in BOOLEAN
<1>1. tab[t] \in [life : {"unborn", "open", "closed"}, drawn : BOOLEAN, scripts : 0..1]
  BY DEF Typed
<1>2. tab[t].life \in {"unborn", "open", "closed"} /\ tab[t].drawn \in BOOLEAN
      /\ tab[t].scripts \in 0..1
  BY <1>1
<1> QED BY <1>1, <1>2 DEF Typed

LEMMA Start == Init => SupervisorInv
<1> SUFFICES ASSUME Init PROVE SupervisorInv
  OBVIOUS
<1>1. <<>> \in Seq(BOOLEAN) /\ Len(<<>>) = 0
  OBVIOUS
<1>2. Fresh \in [life : {"unborn", "open", "closed"}, drawn : BOOLEAN, scripts : 0..1]
  BY DEF Fresh
<1>3. Typed
  <2>1. /\ tab \in [Tabs -> [life : {"unborn", "open", "closed"},
                             drawn : BOOLEAN, scripts : 0..1]]
        /\ mark \in [Tabs -> {"none", "bare", "scripted"}]
        /\ setup \in [Tabs -> {"none", "attaching", "attached", "titling"}]
        /\ queue \in [Tabs -> Seq(BOOLEAN)]
        /\ half \in [Tabs -> BOOLEAN]
    BY <1>1, <1>2 DEF Init, Each
  <2>2. arrivals \in 0..MaxArrivals /\ toggles \in 0..MaxToggles
    BY DEF Init
  <2>3. handled \in SUBSET Tabs /\ setting \in BOOLEAN /\ on \in BOOLEAN
    BY DEF Init
  <2> QED BY <2>1, <2>2, <2>3 DEF Init, Typed, Browsers, Phases
<1>4. LinkInv /\ (toggles = 0 => on = setting)
  BY DEF Init, LinkInv, RetiresOnlyGone
<1>5. ASSUME NEW t \in Tabs PROVE TabInv(t)
  <2>1. /\ tab[t] = Fresh /\ t \notin handled /\ mark[t] = "none" /\ setup[t] = "none"
        /\ queue[t] = <<>> /\ ~half[t] /\ conn = "none" /\ toggles = 0 /\ on = setting
    BY DEF Init, Each
  <2>2. tab[t].life = "unborn" /\ tab[t].scripts = 0
    BY <2>1 DEF Fresh
  <2>3. QueueIsShort(t)
    BY <2>1, <1>1 DEF QueueIsShort, Unread
  <2>4. WorkIsOfTheConnection(t)
    BY <2>1, <2>2 DEF WorkIsOfTheConnection, Init
  <2>5. TabIsOrdered(t) /\ MarkIsTrue(t) /\ LastCallCounts(t)
    BY <2>1, <2>2 DEF TabIsOrdered, MarkIsTrue, LastCallCounts, Live
  <2> QED BY <2>3, <2>4, <2>5 DEF TabInv
<1> QED BY <1>3, <1>4, <1>5 DEF SupervisorInv

-----------------------------------------------------------------------------
(* The types. *)

LEMMA TypedStep == Typed /\ Next => Typed'
<1> SUFFICES ASSUME Typed, Next PROVE Typed'
  OBVIOUS
<1> DEFINE TabSet == [life : {"unborn", "open", "closed"}, drawn : BOOLEAN, scripts : 0..1]
<1>0. \A t \in Tabs : tab[t] \in TabSet /\ queue[t] \in Seq(BOOLEAN)
  BY DEF Typed
<1>f. [Fresh EXCEPT !.life = "closed"] \in TabSet
  <2>1. Fresh \in TabSet
    BY DEF Fresh
  <2> QED BY <2>1
<1>e. EndSessions(tab) \in [Tabs -> TabSet]
  <2>1. ASSUME NEW t \in Tabs PROVE [tab[t] EXCEPT !.scripts = 0] \in TabSet
    BY <1>0
  <2> QED BY <2>1 DEF EndSessions
<1>w. ForgetWork => /\ handled' \in SUBSET Tabs
                    /\ mark' \in [Tabs -> {"none", "bare", "scripted"}]
                    /\ setup' \in [Tabs -> {"none", "attaching", "attached", "titling"}]
                    /\ queue' \in [Tabs -> Seq(BOOLEAN)]
                    /\ half' \in [Tabs -> BOOLEAN]
  <2>1. <<>> \in Seq(BOOLEAN)
    OBVIOUS
  <2> QED BY <2>1 DEF ForgetWork, Each
<1>1. CASE BrowserCloses
  <2>1. tab' \in [Tabs -> TabSet]
    BY <1>1, <1>f DEF BrowserCloses, Typed
  <2>2. CASE conn = port
    BY <1>1, <2>1, <2>2, <1>w DEF BrowserCloses, Typed, Browsers, ForgetWork
  <2>3. CASE conn # port
    BY <1>1, <2>1, <2>3 DEF BrowserCloses, Typed, Browsers, work
  <2> QED BY <2>2, <2>3
<1>2. CASE AnotherArrives \/ Toggle \/ Connect \/ ConnectFails \/ LeaveLoop \/ BrowserGone
           \/ GiveUp \/ TryAgain \/ Retire \/ RetireFails
  <2> USE DEF Typed, work, link, Goto, Exit, Phases, Browsers
  <2>1. CASE AnotherArrives
    BY <2>1 DEF AnotherArrives
  <2>2. CASE Toggle
    BY <2>2 DEF Toggle
  <2>3. CASE Connect \/ ConnectFails \/ LeaveLoop \/ TryAgain
    BY <2>3 DEF Connect, ConnectFails, LeaveLoop, TryAgain
  <2>4. CASE BrowserGone
    BY <2>4 DEF BrowserGone
  <2>5. CASE GiveUp \/ Retire \/ RetireFails
    BY <2>5 DEF GiveUp, Retire, RetireFails
  <2> QED BY <1>2, <2>1, <2>2, <2>3, <2>4, <2>5
<1>3. CASE ConnectionDrops
  BY <1>3, <1>e, <1>w DEF ConnectionDrops, Typed
<1>4. CASE Dies
  BY <1>4, <1>e, <1>w DEF Dies, Exit, Typed, Phases
<1>5. CASE Tick
  <2>1. queue' \in [Tabs -> Seq(BOOLEAN)]
    <3>1. ASSUME NEW t \in Tabs PROVE Append(queue[t], setting) \in Seq(BOOLEAN)
      BY <1>0 DEF Typed
    <3> QED BY <3>1, <1>0, <1>5 DEF Tick
  <2> QED BY <1>5, <2>1 DEF Tick, Typed, link
<1>6. ASSUME NEW t \in Tabs, TabOpens(t) \/ TabCloses(t) \/ TabNavigates(t) \/ TabWork(t)
      PROVE  Typed'
  <2> USE DEF work, link
  <2>0. tab[t] \in TabSet /\ queue[t] \in Seq(BOOLEAN)
    BY <1>0
  <2>n. Navigated(t) => tab' \in [Tabs -> TabSet]
    <3>1. \A b \in BOOLEAN : [tab[t] EXCEPT !.drawn = b] \in TabSet
      BY <2>0
    <3>2. (tab[t].scripts > 0) \in BOOLEAN
      OBVIOUS
    <3> QED BY <3>1, <3>2 DEF Navigated, Typed
  <2>s. /\ [tab[t] EXCEPT !.scripts = 0] \in TabSet /\ [tab[t] EXCEPT !.scripts = 1] \in TabSet
        /\ [tab[t] EXCEPT !.drawn = FALSE] \in TabSet /\ [tab[t] EXCEPT !.drawn = TRUE] \in TabSet
        /\ [tab[t] EXCEPT !.life = "open"] \in TabSet
    <3>1. [tab[t] EXCEPT !.scripts = 0] \in TabSet /\ [tab[t] EXCEPT !.scripts = 1] \in TabSet
      <4>1. 0 \in 0..1 /\ 1 \in 0..1
        OBVIOUS
      <4>2. ASSUME NEW n \in 0..1 PROVE [tab[t] EXCEPT !.scripts = n] \in TabSet
        <5>1. [tab[t] EXCEPT !.scripts = n]
                = [life |-> tab[t].life, drawn |-> tab[t].drawn, scripts |-> n]
          BY <2>0
        <5>2. tab[t].life \in {"unborn", "open", "closed"} /\ tab[t].drawn \in BOOLEAN
          BY <2>0
        <5> QED BY <5>1, <5>2
      <4> QED BY <4>1, <4>2
    <3>2. [tab[t] EXCEPT !.drawn = FALSE] \in TabSet /\ [tab[t] EXCEPT !.drawn = TRUE] \in TabSet
      BY <2>0
    <3>3. [tab[t] EXCEPT !.life = "open"] \in TabSet
      <4>1. [tab[t] EXCEPT !.life = "open"]
              = [life |-> "open", drawn |-> tab[t].drawn, scripts |-> tab[t].scripts]
        BY <2>0
      <4>2. tab[t].drawn \in BOOLEAN /\ tab[t].scripts \in 0..1
        BY <2>0
      <4> QED BY <4>1, <4>2
    <3> QED BY <3>1, <3>2, <3>3
  <2>d. queue[t] # <<>> => Tail(queue[t]) \in Seq(BOOLEAN)
    <3>1. queue[t] \in Seq(BOOLEAN)
      BY <2>0
    <3> QED BY <3>1, HeadTailProperties
  <2>1. CASE TabOpens(t)
    BY <2>1, <2>s DEF TabOpens, Typed
  <2>2. CASE TabCloses(t)
    BY <2>2, <1>f DEF TabCloses, Typed
  <2>3. CASE TabNavigates(t)
    BY <2>3, <2>n DEF TabNavigates, Typed
  <2>4. CASE Discover(t) \/ Destroyed(t) \/ Attached(t) \/ MarkTab(t)
    BY <2>4 DEF Discover, Destroyed, Attached, MarkTab, SetupTo, Typed
  <2>5. CASE Titled(t)
    <3>1. Append(queue[t], on) \in Seq(BOOLEAN)
      BY <2>0 DEF Typed
    <3> QED BY <2>5, <3>1 DEF Titled, SetupTo, Add, Typed
  <2>6. CASE TitleFails(t)
    BY <2>6, <2>n DEF TitleFails, SetupTo, Typed
  <2>7. CASE RegisterBorder(t) \/ UnregisterBorder(t)
    <3>1. tab' \in [Tabs -> TabSet]
      BY <2>7, <2>s DEF RegisterBorder, UnregisterBorder, Typed
    <3>2. CASE RegisterBorder(t)
      BY <3>1, <3>2 DEF RegisterBorder, Halfway, Typed
    <3>3. CASE UnregisterBorder(t)
      BY <3>1, <3>3 DEF UnregisterBorder, Halfway, Typed
    <3> QED BY <2>7, <3>2, <3>3
  <2>8. CASE DrawBorder(t) \/ EraseBorder(t)
    <3>1. tab' \in [Tabs -> TabSet]
      BY <2>8, <2>s DEF DrawBorder, EraseBorder, Typed
    <3>2. CASE DrawBorder(t)
      BY <3>1, <3>2, <2>d DEF DrawBorder, Done, Want, Typed
    <3>3. CASE EraseBorder(t)
      BY <3>1, <3>3, <2>d DEF EraseBorder, Done, Want, Typed
    <3> QED BY <2>8, <3>2, <3>3
  <2>9. CASE KeepBorder(t) \/ BorderFails(t)
    BY <2>9, <2>d DEF KeepBorder, BorderFails, Done, Want, Typed
  <2> QED BY <1>6, <2>1, <2>2, <2>3, <2>4, <2>5, <2>6, <2>7, <2>8, <2>9 DEF TabWork
<1> QED BY <1>1, <1>2, <1>3, <1>4, <1>5, <1>6 DEF Next

-----------------------------------------------------------------------------
(* The connection, and who is retired. *)

LEMMA LinkStep == Typed /\ LinkInv /\ Next => LinkInv'
<1> SUFFICES ASSUME Typed, LinkInv, Next PROVE LinkInv'
  OBVIOUS
<1> USE DEF LinkInv, RetiresOnlyGone
<1>1. CASE BrowserCloses
  BY <1>1 DEF BrowserCloses, Typed
<1>2. CASE AnotherArrives
  BY <1>2 DEF AnotherArrives
<1>3. CASE Connect \/ ConnectFails \/ LeaveLoop
  BY <1>3 DEF Connect, ConnectFails, LeaveLoop, Goto
<1>4. CASE BrowserGone \/ TryAgain
  BY <1>4 DEF BrowserGone, TryAgain, Goto
<1>5. CASE GiveUp \/ Retire \/ RetireFails \/ Dies
  BY <1>5 DEF GiveUp, Retire, RetireFails, Dies, Exit
<1>6. CASE ConnectionDrops
  BY <1>6 DEF ConnectionDrops
<1>7. CASE Toggle \/ Tick
  BY <1>7 DEF Toggle, Tick, link
<1>8. ASSUME NEW t \in Tabs, TabOpens(t) \/ TabCloses(t) \/ TabNavigates(t) \/ TabWork(t)
      PROVE  LinkInv'
  <2>1. UNCHANGED link
    BY <1>8 DEF TabOpens, TabCloses, TabNavigates, TabWork, Discover, Destroyed, Attached,
         MarkTab, Titled, TitleFails, RegisterBorder, DrawBorder, KeepBorder,
         UnregisterBorder, EraseBorder, BorderFails
  <2> QED BY <2>1 DEF link
<1> QED BY <1>1, <1>2, <1>3, <1>4, <1>5, <1>6, <1>7, <1>8 DEF Next

-----------------------------------------------------------------------------
(* The tabs.  What happens to the connection happens to all of them ... *)

(* A step that ends the connection leaves nothing of its work. *)
LEMMA Disconnected ==
  ASSUME Typed, NEW t \in Tabs, TabInv(t), UNCHANGED <<setting, toggles, on>>,
         toggles = 0 => on = setting,
         conn' # "ours", ForgetWork, tab'[t].scripts = 0
  PROVE  TabInv(t)'
<1>1. /\ handled' = {} /\ mark'[t] = "none" /\ setup'[t] = "none"
      /\ queue'[t] = <<>> /\ half'[t] = FALSE
  BY DEF ForgetWork, Each
<1>2. QueueIsShort(t)'
  BY <1>1 DEF QueueIsShort, Unread, Typed
<1>3. WorkIsOfTheConnection(t)'
  BY <1>1 DEF WorkIsOfTheConnection
<1>4. TabIsOrdered(t)' /\ MarkIsTrue(t)' /\ LastCallCounts(t)'
  BY <1>1 DEF TabIsOrdered, MarkIsTrue, LastCallCounts, Live
<1> QED BY <1>2, <1>3, <1>4 DEF TabInv

(* A tab that a step leaves alone keeps what holds of it. *)
LEMMA TabKept ==
  ASSUME NEW t \in Tabs, TabInv(t), UNCHANGED <<setting, toggles, on, conn>>,
         tab'[t] = tab[t], mark'[t] = mark[t], setup'[t] = setup[t],
         queue'[t] = queue[t], half'[t] = half[t], t \in handled' <=> t \in handled,
         conn # "ours" => handled' = handled
  PROVE  TabInv(t)'
<1> USE DEF TabInv
<1>1. QueueIsShort(t)'
  BY DEF QueueIsShort, Unread
<1>2. WorkIsOfTheConnection(t)'
  BY DEF WorkIsOfTheConnection
<1>3. TabIsOrdered(t)'
  BY DEF TabIsOrdered, Live
<1>4. MarkIsTrue(t)'
  BY DEF MarkIsTrue, Live
<1>5. LastCallCounts(t)'
  BY DEF LastCallCounts, Live
<1> QED BY <1>1, <1>2, <1>3, <1>4, <1>5

LEMMA Longer ==
  ASSUME NEW q \in Seq(BOOLEAN), NEW v \in BOOLEAN
  PROVE  /\ Append(q, v) \in Seq(BOOLEAN) /\ Len(Append(q, v)) = Len(q) + 1
         /\ Append(q, v) # <<>> /\ Append(q, v)[Len(Append(q, v))] = v
         /\ q # <<>> => Head(Append(q, v)) = Head(q)
<1> DEFINE longer == Append(q, v)
<1>1. \A i \in 1..Len(q) : longer[i] = q[i]
  BY AppendProperties
<1>2. longer \in Seq(BOOLEAN) /\ Len(longer) = Len(q) + 1 /\ longer[Len(longer)] = v
  BY AppendProperties
<1>3. Len(q) \in Nat
  BY LenProperties
<1>4. longer # <<>>
  BY <1>2, <1>3, EmptySeq
<1>5. q # <<>> => 1 \in 1..Len(q)
  BY <1>3, EmptySeq
<1>6. Head(longer) = longer[1] /\ Head(q) = q[1]
  BY <1>2
<1> QED BY <1>1, <1>2, <1>4, <1>5, <1>6

LEMMA ConnectionStep ==
  ASSUME Typed, LinkInv, toggles = 0 => on = setting,
         NEW t \in Tabs, TabInv(t),
         \/ BrowserCloses \/ AnotherArrives \/ Toggle \/ ConnectionDrops \/ Connect
         \/ ConnectFails \/ LeaveLoop \/ BrowserGone \/ GiveUp \/ TryAgain
         \/ Retire \/ RetireFails \/ Dies \/ Tick
  PROVE  TabInv(t)'
<1> USE TabType
<1>e. (tab' = EndSessions(tab)) => tab'[t].scripts = 0
  BY DEF EndSessions
<1>1. CASE BrowserCloses
  <2>1. CASE conn = port
    <3>1. port = "ours" => tab'[t].scripts = 0
      BY <1>1 DEF BrowserCloses, Fresh
    <3>2. port # "ours" => tab'[t].scripts = 0
      BY <1>1, <2>1 DEF BrowserCloses, TabInv, WorkIsOfTheConnection
    <3> QED BY <1>1, <2>1, <3>1, <3>2, Disconnected DEF BrowserCloses
  <2>2. CASE conn # port
    <3>1. conn = "none"
      BY <2>2 DEF LinkInv
    <3>2. CASE port # "ours"
      BY <1>1, <2>2, <3>2, TabKept DEF BrowserCloses, work
    <3>3. CASE port = "ours"
      <4>1. /\ tab'[t] = [Fresh EXCEPT !.life = "closed"]
            /\ UNCHANGED <<handled, mark, setup, queue, half, conn, setting, toggles, on>>
        BY <1>1, <2>2, <3>3 DEF BrowserCloses, work
      <4>2. tab'[t].life = "closed" /\ tab'[t].scripts = 0
        BY <4>1 DEF Fresh
      <4>3. QueueIsShort(t)'
        BY <4>1, <4>2 DEF TabInv, QueueIsShort, Unread
      <4>4. WorkIsOfTheConnection(t)'
        BY <4>1, <4>2 DEF TabInv, WorkIsOfTheConnection
      <4>5. TabIsOrdered(t)' /\ MarkIsTrue(t)' /\ LastCallCounts(t)'
        BY <4>1, <4>2, <3>1 DEF TabInv, TabIsOrdered, MarkIsTrue, LastCallCounts, Live
      <4> QED BY <4>3, <4>4, <4>5 DEF TabInv
    <3> QED BY <3>2, <3>3
  <2> QED BY <2>1, <2>2
<1>2. CASE ConnectionDrops
  BY <1>2, <1>e, Disconnected DEF ConnectionDrops
<1>3. CASE Dies
  BY <1>3, <1>e, Disconnected DEF Dies
<1>4. CASE Connect
  <2>1. conn # "ours"
    BY <1>4 DEF Connect, LinkInv
  <2>2. /\ UNCHANGED <<handled, mark, setup, queue, half, tab, setting, toggles, on>>
        /\ handled = {} /\ mark[t] = "none" /\ setup[t] = "none" /\ queue[t] = <<>>
        /\ ~half[t] /\ tab[t].scripts = 0
    BY <1>4, <2>1 DEF Connect, work, TabInv, WorkIsOfTheConnection
  <2>3. QueueIsShort(t)'
    BY <2>2 DEF QueueIsShort, Unread, TabInv
  <2>4. WorkIsOfTheConnection(t)'
    BY <2>2 DEF WorkIsOfTheConnection
  <2>5. TabIsOrdered(t)'
    BY <2>2 DEF TabIsOrdered, Live
  <2>6. MarkIsTrue(t)'
    <3>1. half'[t] = half[t] /\ ~half'[t]
      BY <2>2
    <3>2. tab'[t].scripts # 1 /\ mark'[t] # "scripted"
      BY <2>2
    <3> QED BY <3>1, <3>2 DEF MarkIsTrue
  <2>7. LastCallCounts(t)'
    BY <2>2 DEF LastCallCounts, Live
  <2> QED BY <2>3, <2>4, <2>5, <2>6, <2>7 DEF TabInv
<1>5. CASE Toggle
  <2>1. /\ setting' = ~setting /\ toggles' = toggles + 1 /\ toggles \in Nat
        /\ setting \in BOOLEAN /\ on \in BOOLEAN
        /\ UNCHANGED <<conn, on, tab, handled, mark, setup, queue, half>>
    BY <1>5 DEF Toggle, link, work, Typed
  <2>2. QueueIsShort(t)'
    <3>1. Len(queue[t]) \in Nat
      BY LenProperties
    <3>2. Unread \in 0..1 /\ Unread' = 1 - Unread
      BY <2>1 DEF Unread
    <3> QED BY <2>1, <3>1, <3>2 DEF QueueIsShort, TabInv
  <2>3. WorkIsOfTheConnection(t)'
    BY <2>1 DEF TabInv, WorkIsOfTheConnection
  <2>4. TabIsOrdered(t)'
    BY <2>1 DEF TabInv, TabIsOrdered, Live
  <2>5. MarkIsTrue(t)' /\ LastCallCounts(t)'
    BY <2>1 DEF TabInv, MarkIsTrue, LastCallCounts, Live
  <2> QED BY <2>2, <2>3, <2>4, <2>5 DEF TabInv
<1>6. CASE Tick
  <2>1. /\ on' = setting /\ on # setting /\ setting \in BOOLEAN /\ on \in BOOLEAN
        /\ queue'[t] = IF mark[t] = "none" THEN queue[t] ELSE Append(queue[t], setting)
        /\ UNCHANGED <<conn, setting, toggles, tab, handled, mark, setup, half>>
    BY <1>6 DEF Tick, link, Typed
  <2>q. queue[t] \in Seq(BOOLEAN)
    OBVIOUS
  <2> DEFINE longer == Append(queue[t], setting)
  <2>a. /\ longer \in Seq(BOOLEAN) /\ Len(longer) = Len(queue[t]) + 1 /\ longer # <<>>
        /\ longer[Len(longer)] = setting
        /\ queue[t] # <<>> => Head(longer) = Head(queue[t])
    BY <2>1, <2>q, Longer
  <2> HIDE DEF longer
  <2>2. QueueIsShort(t)'
    <3>1. Len(queue[t]) \in Nat /\ toggles \in Nat
      BY <2>q, LenProperties DEF Typed
    <3>2. Unread = 1 /\ Unread' = 0
      BY <2>1 DEF Unread
    <3>3. Len(queue'[t]) <= Len(queue[t]) + 1
      BY <2>1, <2>a, <3>1 DEF longer
    <3>4. Len(queue'[t]) \in Nat
      BY <2>1, <2>a, <3>1 DEF longer
    <3> QED BY <2>1, <3>1, <3>2, <3>3, <3>4 DEF QueueIsShort, TabInv
  <2>3. WorkIsOfTheConnection(t)'
    BY <2>1 DEF TabInv, WorkIsOfTheConnection
  <2>4. TabIsOrdered(t)'
    BY <2>1 DEF TabInv, TabIsOrdered, Live
  <2>5. MarkIsTrue(t)'
    <3>1. CASE mark[t] = "none"
      BY <3>1, <2>1 DEF TabInv, MarkIsTrue, Live
    <3>2. CASE mark[t] # "none"
      BY <3>2, <2>1, <2>a DEF TabInv, MarkIsTrue, Live, longer
    <3> QED BY <3>1, <3>2
  <2>6. LastCallCounts(t)'
    <3>1. CASE mark[t] = "none"
      BY <3>1, <2>1 DEF TabInv, TabIsOrdered, LastCallCounts, Live
    <3>2. CASE mark[t] # "none"
      BY <3>2, <2>1, <2>a DEF LastCallCounts, Live, longer
    <3> QED BY <3>1, <3>2
  <2> QED BY <2>2, <2>3, <2>4, <2>5, <2>6 DEF TabInv
<1>7. CASE \/ AnotherArrives \/ ConnectFails \/ LeaveLoop \/ BrowserGone \/ GiveUp \/ TryAgain
           \/ Retire \/ RetireFails
  <2>1. /\ UNCHANGED <<tab, work, setting, toggles, on>>
        /\ conn' = conn
    BY <1>7 DEF AnotherArrives, ConnectFails, LeaveLoop, BrowserGone, GiveUp, TryAgain,
                Retire, RetireFails, Goto, Exit, LinkInv
  <2> QED BY <2>1, TabKept DEF work
<1> QED BY <1>1, <1>2, <1>3, <1>4, <1>5, <1>6, <1>7

(* ... and the other steps are of one tab. *)

LEMMA Taken ==
  ASSUME NEW q \in Seq(BOOLEAN), q # <<>>
  PROVE  /\ Tail(q) \in Seq(BOOLEAN) /\ Len(Tail(q)) = Len(q) - 1 /\ Len(q) \in Nat
         /\ Head(q) \in BOOLEAN
         /\ Tail(q) # <<>> => Tail(q)[Len(Tail(q))] = q[Len(q)]
         /\ Tail(q) = <<>> => q[Len(q)] = Head(q)
<1>1. /\ Tail(q) \in Seq(BOOLEAN) /\ Len(Tail(q)) = Len(q) - 1 /\ Head(q) \in BOOLEAN
      /\ Head(q) = q[1] /\ \A i \in 1..Len(Tail(q)) : Tail(q)[i] = q[i + 1]
  BY HeadTailProperties
<1>2. Len(q) \in Nat /\ Len(q) > 0
  BY LenProperties, EmptySeq
<1>3. Tail(q) # <<>> => Len(Tail(q)) \in 1..Len(Tail(q))
  BY <1>1, <1>2, EmptySeq
<1>4. Tail(q) = <<>> => Len(q) = 1
  <2>1. Tail(q) = <<>> => Len(Tail(q)) = 0
    BY <1>1, EmptySeq, Zenon
  <2> QED BY <2>1, <1>1, <1>2
<1> QED BY <1>1, <1>2, <1>3, <1>4

LEMMA OtherTab ==
  ASSUME Typed, NEW t \in Tabs, NEW u \in Tabs, u # t, TabInv(u), TabInv(t),
         TabOpens(t) \/ TabCloses(t) \/ TabNavigates(t) \/ TabWork(t)
  PROVE  TabInv(u)'
<1>1. UNCHANGED <<setting, toggles, on, conn>>
  BY DEF TabOpens, TabCloses, TabNavigates, TabWork, Discover, Destroyed, Attached, MarkTab,
         Titled, TitleFails, RegisterBorder, DrawBorder, KeepBorder, UnregisterBorder,
         EraseBorder, BorderFails, link
<1>2. tab'[u] = tab[u]
  BY DEF TabOpens, TabCloses, TabNavigates, TabWork, Discover, Destroyed, Attached, MarkTab,
         Titled, TitleFails, RegisterBorder, DrawBorder, KeepBorder, UnregisterBorder,
         EraseBorder, BorderFails, Navigated, Typed
<1>3. mark'[u] = mark[u] /\ setup'[u] = setup[u]
  BY DEF TabOpens, TabCloses, TabNavigates, TabWork, Discover, Destroyed, Attached, MarkTab,
         Titled, TitleFails, RegisterBorder, DrawBorder, KeepBorder, UnregisterBorder,
         EraseBorder, BorderFails, SetupTo, work, Typed
<1>4. queue'[u] = queue[u] /\ half'[u] = half[u]
  BY DEF TabOpens, TabCloses, TabNavigates, TabWork, Discover, Destroyed, Attached, MarkTab,
         Titled, TitleFails, RegisterBorder, DrawBorder, KeepBorder, UnregisterBorder,
         EraseBorder, BorderFails, Add, Done, Halfway, work, Typed
<1>5. /\ u \in handled' <=> u \in handled
      /\ conn # "ours" => handled' = handled
  <2>1. CASE Discover(t)
    BY <2>1 DEF Discover, Live
  <2>2. CASE Destroyed(t)
    BY <2>2 DEF Destroyed
  <2>3. CASE ~Discover(t) /\ ~Destroyed(t)
    <3>1. handled' = handled
      BY <2>3 DEF TabOpens, TabCloses, TabNavigates, TabWork, Attached, MarkTab, Titled,
                  TitleFails, RegisterBorder, DrawBorder, KeepBorder, UnregisterBorder,
                  EraseBorder, BorderFails, work
    <3> QED BY <3>1
  <2> QED BY <2>1, <2>2, <2>3
<1> QED BY <1>1, <1>2, <1>3, <1>4, <1>5, TabKept

(* The browser's part: a tab opens, closes and navigates. *)
LEMMA TabLivesStep ==
  ASSUME Typed, NEW t \in Tabs, TabInv(t), TabOpens(t) \/ TabCloses(t) \/ TabNavigates(t)
  PROVE  TabInv(t)'
<1> USE TabType DEF TabInv
<1>0. UNCHANGED <<setting, toggles, on, conn, handled, mark, setup, queue, half>>
  BY DEF TabOpens, TabCloses, TabNavigates, link, work
<1>1. CASE TabOpens(t)
  <2>1. /\ tab[t].life = "unborn" /\ tab'[t].life = "open" /\ tab'[t].scripts = tab[t].scripts
        /\ tab'[t].drawn = tab[t].drawn
    BY <1>1 DEF TabOpens, Typed
  <2>2. /\ tab'[t].scripts = 0 /\ t \notin handled /\ setup[t] = "none" /\ mark[t] = "none"
        /\ queue[t] = <<>>
    BY <2>1 DEF TabIsOrdered
  <2>3. QueueIsShort(t)'
    BY <1>0, <2>1, <2>2 DEF QueueIsShort, Unread
  <2>4. WorkIsOfTheConnection(t)'
    BY <1>0, <2>2 DEF WorkIsOfTheConnection
  <2>5. TabIsOrdered(t)'
    BY <1>0, <2>1, <2>2 DEF TabIsOrdered, Live
  <2>6. MarkIsTrue(t)'
    <3>1. ~half[t]
      BY <2>2 DEF MarkIsTrue
    <3>2. half'[t] = half[t] /\ ~half'[t] /\ mark'[t] = "none"
      BY <1>0, <2>2, <3>1
    <3>3. tab'[t].scripts # 1
      BY <2>2
    <3> QED BY <3>2, <3>3 DEF MarkIsTrue
  <2>7. LastCallCounts(t)'
    BY <1>0, <2>1, <2>2 DEF LastCallCounts, Live
  <2> QED BY <2>3, <2>4, <2>5, <2>6, <2>7
<1>2. CASE TabCloses(t)
  <2>1. tab'[t] = [Fresh EXCEPT !.life = "closed"]
    BY <1>2 DEF TabCloses, Typed
  <2>2. tab'[t].life = "closed" /\ tab'[t].scripts = 0
    BY <2>1 DEF Fresh
  <2>3. QueueIsShort(t)'
    BY <1>0, <2>2 DEF QueueIsShort, Unread
  <2>4. WorkIsOfTheConnection(t)'
    BY <1>0, <2>2 DEF WorkIsOfTheConnection
  <2>5. TabIsOrdered(t)' /\ MarkIsTrue(t)' /\ LastCallCounts(t)'
    BY <1>0, <2>2 DEF TabIsOrdered, MarkIsTrue, LastCallCounts, Live
  <2> QED BY <2>3, <2>4, <2>5
<1>3. CASE TabNavigates(t)
  <2>1. /\ tab'[t].life = tab[t].life /\ tab'[t].scripts = tab[t].scripts
        /\ tab'[t].drawn = (tab[t].scripts > 0)
    BY <1>3 DEF TabNavigates, Navigated, Typed
  <2>2. tab[t].scripts = 0 => tab'[t].drawn = FALSE
    <3>1. tab[t].scripts = 0 => (tab[t].scripts > 0) = FALSE
      OBVIOUS
    <3> QED BY <2>1, <3>1
  <2>3. QueueIsShort(t)'
    BY <1>0, <2>1 DEF QueueIsShort, Unread
  <2>4. WorkIsOfTheConnection(t)'
    BY <1>0, <2>1 DEF WorkIsOfTheConnection
  <2>5. TabIsOrdered(t)' /\ MarkIsTrue(t)'
    BY <1>0, <2>1 DEF TabIsOrdered, MarkIsTrue, Live
  <2>6. LastCallCounts(t)'
    <3>1. Live(t) /\ mark[t] # "scripted" => ~tab'[t].drawn
      BY <2>2 DEF MarkIsTrue, Live
    <3> QED BY <1>0, <2>1, <3>1 DEF LastCallCounts, Live
  <2> QED BY <2>3, <2>4, <2>5, <2>6
<1> QED BY <1>1, <1>2, <1>3

(* A tab is found, attached to, marked and titled. *)
LEMMA SetupStep ==
  ASSUME Typed, toggles = 0 => on = setting, NEW t \in Tabs, TabInv(t),
         \/ Discover(t) \/ Destroyed(t) \/ Attached(t) \/ MarkTab(t)
         \/ Titled(t) \/ TitleFails(t)
  PROVE  TabInv(t)'
<1> USE TabType DEF TabInv
<1>0. /\ UNCHANGED <<setting, toggles, on, conn>>
      /\ half'[t] = half[t] /\ half[t] \in BOOLEAN
  BY DEF Discover, Destroyed, Attached, MarkTab, Titled, TitleFails, link
<1>c. conn = "ours"
  BY DEF WorkIsOfTheConnection, Discover, Destroyed, Attached, MarkTab, Titled, TitleFails, Live
<1>n. Len(queue[t]) \in Nat /\ toggles \in Nat /\ (Unread = 0 \/ Unread = 1) /\ Unread' = Unread
      /\ on \in BOOLEAN /\ setting \in BOOLEAN
  BY <1>0, LenProperties DEF Unread, Typed
<1>w. WorkIsOfTheConnection(t)'
  BY <1>c, <1>0 DEF WorkIsOfTheConnection
<1>1. CASE Discover(t)
  <2>1. /\ t \in handled' /\ setup'[t] = "attaching"
        /\ tab'[t] = tab[t] /\ mark'[t] = mark[t] /\ queue'[t] = queue[t]
        /\ Live(t) /\ t \notin handled /\ setup[t] = "none"
    BY <1>1 DEF Discover, SetupTo, Typed
  <2>2. mark[t] = "none" /\ queue[t] = <<>> /\ tab[t].life = "open"
    BY <2>1 DEF TabIsOrdered, Live
  <2>3. QueueIsShort(t)'
    <3>1. Len(queue[t]) = 0
      BY <2>2, EmptySeq
    <3>2. toggles - Unread >= 0
      BY <1>n DEF Unread
    <3> QED BY <2>1, <3>1, <3>2, <1>n, <1>0 DEF QueueIsShort
  <2>4. TabIsOrdered(t)' /\ MarkIsTrue(t)'
    BY <1>0, <1>c, <2>1, <2>2 DEF TabIsOrdered, MarkIsTrue, Live
  <2>5. LastCallCounts(t)'
    BY <1>0, <2>1, <2>2 DEF LastCallCounts, Live
  <2> QED BY <1>w, <2>3, <2>4, <2>5
<1>2. CASE Destroyed(t)
  <2>1. /\ t \notin handled' /\ setup'[t] = setup[t] /\ tab'[t] = tab[t]
        /\ mark'[t] = "none" /\ queue'[t] = queue[t] /\ tab[t].life = "closed"
    BY <1>2 DEF Destroyed, Typed
  <2>2. QueueIsShort(t)'
    BY <2>1, <1>n, <1>0 DEF QueueIsShort
  <2>3. TabIsOrdered(t)' /\ MarkIsTrue(t)' /\ LastCallCounts(t)'
    BY <1>0, <2>1 DEF TabIsOrdered, MarkIsTrue, LastCallCounts, Live
  <2> QED BY <1>w, <2>2, <2>3
<1>3. CASE Attached(t)
  <2>1. /\ handled' = handled /\ setup[t] = "attaching"
        /\ setup'[t] = IF tab[t].life = "open" THEN "attached" ELSE "none"
        /\ tab'[t] = tab[t] /\ mark'[t] = mark[t] /\ queue'[t] = queue[t]
    BY <1>3 DEF Attached, SetupTo, Typed
  <2>2. QueueIsShort(t)'
    BY <2>1, <1>n, <1>0 DEF QueueIsShort
  <2>3. TabIsOrdered(t)'
    BY <1>0, <2>1 DEF TabIsOrdered, Live
  <2>4. MarkIsTrue(t)' /\ LastCallCounts(t)'
    BY <1>0, <2>1 DEF MarkIsTrue, LastCallCounts, Live
  <2> QED BY <1>w, <2>2, <2>3, <2>4
<1>4. CASE MarkTab(t)
  <2>1. /\ handled' = handled /\ setup[t] = "attached" /\ setup'[t] = "titling"
        /\ tab'[t] = tab[t] /\ mark'[t] = "bare" /\ queue'[t] = queue[t]
    BY <1>4 DEF MarkTab, SetupTo, Typed
  <2>2. Live(t) => mark[t] = "none" /\ queue[t] = <<>> /\ ~half[t] /\ tab[t].scripts # 1
                   /\ t \in handled
    BY <2>1 DEF TabIsOrdered, MarkIsTrue
  <2>3. QueueIsShort(t)'
    BY <2>1, <1>n, <1>0 DEF QueueIsShort
  <2>4. TabIsOrdered(t)'
    BY <1>0, <2>1, <2>2 DEF TabIsOrdered, Live
  <2>5. MarkIsTrue(t)'
    BY <1>0, <2>1, <2>2 DEF MarkIsTrue, Live
  <2>6. LastCallCounts(t)'
    BY <1>0, <2>1, <2>2 DEF LastCallCounts, Live
  <2> QED BY <1>w, <2>3, <2>4, <2>5, <2>6
<1>5. CASE Titled(t)
  <2>1. /\ handled' = handled /\ setup[t] = "titling" /\ setup'[t] = "none"
        /\ tab'[t] = tab[t] /\ mark'[t] = mark[t] /\ queue'[t] = Append(queue[t], on)
        /\ tab[t].life = "open" /\ Live(t)
    BY <1>5, <1>c DEF Titled, SetupTo, Add, Typed, Live
  <2>2. /\ Len(queue'[t]) = Len(queue[t]) + 1 /\ queue'[t] # <<>>
        /\ queue'[t][Len(queue'[t])] = on
        /\ queue[t] # <<>> => Head(queue'[t]) = Head(queue[t])
    BY <2>1, <1>n, Longer
  <2>3. QueueIsShort(t)'
    BY <2>1, <2>2, <1>n, <1>0 DEF QueueIsShort
  <2>4. TabIsOrdered(t)'
    <3>1. mark[t] # "none"
      BY <2>1 DEF TabIsOrdered
    <3> QED BY <1>0, <2>1, <3>1 DEF TabIsOrdered, Live
  <2>5. MarkIsTrue(t)'
    BY <1>0, <2>1, <2>2 DEF MarkIsTrue, Live
  <2>6. LastCallCounts(t)'
    BY <1>0, <2>1, <2>2 DEF LastCallCounts, Live
  <2> QED BY <1>w, <2>3, <2>4, <2>5, <2>6
<1>6. CASE TitleFails(t)
  <2>1. /\ handled' = handled /\ setup[t] = "titling" /\ setup'[t] = "none"
        /\ mark'[t] = mark[t] /\ queue'[t] = queue[t]
    BY <1>6 DEF TitleFails, SetupTo, Typed
  <2>2. /\ tab'[t].life = tab[t].life /\ tab'[t].scripts = tab[t].scripts
        /\ (tab[t].life = "open" /\ tab[t].scripts = 0) => tab'[t].drawn = FALSE
    <3>1. (tab[t].scripts = 0) => (tab[t].scripts > 0) = FALSE
      OBVIOUS
    <3>2. CASE tab[t].life = "open"
      <4>1. /\ tab'[t].life = tab[t].life /\ tab'[t].scripts = tab[t].scripts
            /\ tab'[t].drawn = (tab[t].scripts > 0)
        BY <1>6, <3>2 DEF TitleFails, Navigated, Typed
      <4> QED BY <4>1, <3>1
    <3>3. CASE tab[t].life # "open"
      BY <1>6, <3>3 DEF TitleFails
    <3> QED BY <3>2, <3>3
  <2>3. QueueIsShort(t)'
    BY <2>1, <1>n, <1>0 DEF QueueIsShort
  <2>4. TabIsOrdered(t)' /\ MarkIsTrue(t)'
    BY <1>0, <2>1, <2>2 DEF TabIsOrdered, MarkIsTrue, Live
  <2>5. LastCallCounts(t)'
    <3>1. Live(t) /\ mark[t] # "scripted" => ~tab'[t].drawn
      BY <2>2 DEF MarkIsTrue, Live
    <3> QED BY <1>0, <2>1, <2>2, <3>1 DEF LastCallCounts, Live
  <2> QED BY <1>w, <2>3, <2>4, <2>5
<1> QED BY <1>1, <1>2, <1>3, <1>4, <1>5, <1>6

(* _set_tab_border: the first call of the tab's lock goes on. *)
LEMMA BorderStep ==
  ASSUME Typed, NEW t \in Tabs, TabInv(t),
         \/ RegisterBorder(t) \/ DrawBorder(t) \/ KeepBorder(t)
         \/ UnregisterBorder(t) \/ EraseBorder(t) \/ BorderFails(t)
  PROVE  TabInv(t)'
<1> USE TabType DEF TabInv
<1>0. /\ UNCHANGED <<setting, toggles, on, conn, handled>> /\ setup'[t] = setup[t]
      /\ queue[t] # <<>>
  BY DEF RegisterBorder, DrawBorder, KeepBorder, UnregisterBorder, EraseBorder, BorderFails,
         Want, link
<1>c. conn = "ours"
  BY <1>0 DEF WorkIsOfTheConnection
<1>w. WorkIsOfTheConnection(t)'
  BY <1>c, <1>0 DEF WorkIsOfTheConnection
<1>q. /\ Tail(queue[t]) \in Seq(BOOLEAN) /\ Len(Tail(queue[t])) = Len(queue[t]) - 1
      /\ Len(queue[t]) \in Nat /\ Head(queue[t]) \in BOOLEAN
      /\ Tail(queue[t]) # <<>> => Tail(queue[t])[Len(Tail(queue[t]))] = queue[t][Len(queue[t])]
      /\ Tail(queue[t]) = <<>> => queue[t][Len(queue[t])] = Head(queue[t])
  BY <1>0, Taken
<1>n. toggles \in Nat /\ (Unread = 0 \/ Unread = 1) /\ Unread' = Unread
      /\ on \in BOOLEAN /\ setting \in BOOLEAN
  BY <1>0 DEF Unread, Typed
<1>l. tab'[t].life = tab[t].life
  <2>1. CASE RegisterBorder(t)
    BY <2>1 DEF RegisterBorder, Typed
  <2>2. CASE DrawBorder(t)
    BY <2>2 DEF DrawBorder, Typed
  <2>3. CASE UnregisterBorder(t)
    BY <2>3 DEF UnregisterBorder, Typed
  <2>4. CASE EraseBorder(t)
    BY <2>4 DEF EraseBorder, Typed
  <2>5. CASE KeepBorder(t) \/ BorderFails(t)
    BY <2>5 DEF KeepBorder, BorderFails
  <2> QED BY <2>1, <2>2, <2>3, <2>4, <2>5
<1>s. (queue'[t] = queue[t] \/ queue'[t] = Tail(queue[t])) => QueueIsShort(t)'
  <2>1. (queue'[t] = queue[t] \/ queue'[t] = Tail(queue[t]))
          => Len(queue'[t]) <= Len(queue[t]) /\ Len(queue'[t]) \in Nat
    <3>1. CASE queue'[t] = queue[t]
      BY <3>1, <1>q
    <3>2. CASE queue'[t] = Tail(queue[t])
      <4>1. Len(Tail(queue[t])) \in Nat
        BY <1>q, LenProperties
      <4> QED BY <3>2, <4>1, <1>q
    <3> QED BY <3>1, <3>2
  <2> QED BY <2>1, <1>0, <1>q, <1>n, <1>l DEF QueueIsShort
<1>1. CASE RegisterBorder(t)
  <2>1. /\ queue'[t] = queue[t] /\ half'[t] = TRUE /\ mark'[t] = "scripted"
        /\ tab'[t].scripts = 1 /\ Head(queue[t]) = TRUE /\ Live(t)
        /\ mark[t] = "bare" /\ tab[t].life = "open"
    BY <1>1 DEF RegisterBorder, Halfway, Want, Live, Typed
  <2>2. TabIsOrdered(t)'
    BY <1>0, <1>l, <2>1 DEF TabIsOrdered, Live
  <2>3. MarkIsTrue(t)'
    BY <1>0, <2>1 DEF MarkIsTrue, Live
  <2>4. LastCallCounts(t)'
    BY <1>0, <1>l, <2>1 DEF LastCallCounts, Live
  <2> QED BY <1>w, <1>s, <2>1, <2>2, <2>3, <2>4
<1>2. CASE UnregisterBorder(t)
  <2>1. /\ queue'[t] = queue[t] /\ half'[t] = TRUE /\ mark'[t] = "bare"
        /\ tab'[t].scripts = 0 /\ Head(queue[t]) = FALSE /\ Live(t)
        /\ mark[t] = "scripted" /\ tab[t].life = "open"
    BY <1>2 DEF UnregisterBorder, Halfway, Want, Live, Typed
  <2>2. TabIsOrdered(t)'
    BY <1>0, <1>l, <2>1 DEF TabIsOrdered, Live
  <2>3. MarkIsTrue(t)'
    <3>1. queue'[t] # <<>> /\ ~Head(queue'[t])
      BY <1>0, <2>1, Zenon
    <3>2. tab'[t].scripts = 0 /\ half'[t] = TRUE /\ mark'[t] = "bare"
      BY <2>1, Zenon
    <3>3. tab'[t].scripts # 1
      BY ONLY <3>2
    <3> QED BY <3>1, <3>2, <3>3 DEF MarkIsTrue
  <2>4. LastCallCounts(t)'
    BY <1>0, <1>l, <2>1 DEF LastCallCounts, Live
  <2> QED BY <1>w, <1>s, <2>1, <2>2, <2>3, <2>4
<1>d. ASSUME Done(t), mark' = mark, tab'[t].scripts = tab[t].scripts
      PROVE  /\ queue'[t] = Tail(queue[t]) /\ ~half'[t] /\ mark'[t] = mark[t]
             /\ TabIsOrdered(t)' /\ MarkIsTrue(t)'
  <2>1. queue'[t] = Tail(queue[t]) /\ half'[t] = FALSE /\ mark'[t] = mark[t]
    BY <1>d DEF Done, Typed
  <2>2. TabIsOrdered(t)'
    BY <1>0, <1>l, <1>d, <2>1 DEF TabIsOrdered, Live
  <2>3. MarkIsTrue(t)'
    BY <1>0, <1>l, <1>d, <2>1 DEF MarkIsTrue, Live
  <2> QED BY <2>1, <2>2, <2>3
<1>3. CASE DrawBorder(t) \/ KeepBorder(t)
  <2>1. /\ Done(t) /\ mark' = mark /\ Head(queue[t]) = TRUE /\ tab'[t].scripts = tab[t].scripts
    <3>1. CASE DrawBorder(t)
      BY <3>1 DEF DrawBorder, Want, Typed
    <3>2. CASE KeepBorder(t)
      BY <3>2 DEF KeepBorder, Want, Typed
    <3> QED BY <1>3, <3>1, <3>2
  <2>2. LastCallCounts(t)'
    BY <1>0, <1>l, <1>d, <1>q, <2>1 DEF LastCallCounts, Live
  <2> QED BY <1>w, <1>s, <1>d, <2>1, <2>2
<1>4. CASE EraseBorder(t)
  <2>1. /\ Done(t) /\ mark' = mark /\ Head(queue[t]) = FALSE /\ tab'[t].scripts = tab[t].scripts
        /\ tab'[t].drawn = FALSE /\ Live(t) /\ mark[t] = "bare"
    BY <1>4 DEF EraseBorder, Want, MarkIsTrue, Typed
  <2>2. LastCallCounts(t)'
    BY <1>0, <1>l, <1>d, <1>q, <2>1 DEF LastCallCounts, Live
  <2> QED BY <1>w, <1>s, <1>d, <2>1, <2>2
<1>5. CASE BorderFails(t)
  <2>1. /\ Done(t) /\ mark' = mark /\ tab'[t] = tab[t] /\ tab[t].life = "closed"
    BY <1>5 DEF BorderFails
  <2>2. LastCallCounts(t)'
    BY <2>1 DEF LastCallCounts, Live
  <2> QED BY <1>w, <1>s, <1>d, <2>1, <2>2
<1> QED BY <1>1, <1>2, <1>3, <1>4, <1>5

-----------------------------------------------------------------------------
(* The theorems. *)

LEMMA Inductive == SupervisorInv /\ [Next]_vars => SupervisorInv'
<1> SUFFICES ASSUME SupervisorInv, [Next]_vars PROVE SupervisorInv'
  OBVIOUS
<1> USE DEF SupervisorInv
<1>1. CASE Next
  <2>1. Typed' /\ LinkInv'
    BY <1>1, TypedStep, LinkStep
  <2>2. (toggles = 0 => on = setting)'
    <3>1. CASE Toggle
      BY <3>1 DEF Toggle, Typed
    <3>2. CASE Tick
      BY <3>2 DEF Tick
    <3>3. CASE ~Toggle /\ ~Tick
      <4>1. UNCHANGED <<toggles, on, setting>>
        BY <1>1, <3>3 DEF Next, BrowserCloses, AnotherArrives, ConnectionDrops, Connect,
             ConnectFails, LeaveLoop, BrowserGone, GiveUp, TryAgain, Retire, RetireFails, Dies,
             TabOpens, TabCloses, TabNavigates, TabWork, Discover, Destroyed, Attached, MarkTab,
             Titled, TitleFails, RegisterBorder, DrawBorder, KeepBorder, UnregisterBorder,
             EraseBorder, BorderFails
      <4> QED BY <4>1
    <3> QED BY <3>1, <3>2, <3>3
  <2>3. ASSUME NEW u \in Tabs PROVE TabInv(u)'
    <3>1. ASSUME NEW t \in Tabs, TabOpens(t) \/ TabCloses(t) \/ TabNavigates(t) \/ TabWork(t)
          PROVE  TabInv(u)'
      <4>1. CASE u # t
        BY <3>1, <4>1, OtherTab
      <4>2. CASE u = t
        BY <3>1, <4>2, TabLivesStep, SetupStep, BorderStep DEF TabWork
      <4> QED BY <4>1, <4>2
    <3> QED BY <1>1, <3>1, ConnectionStep DEF Next
  <2> QED BY <2>1, <2>2, <2>3
<1>2. CASE UNCHANGED vars
  <2>1. UNCHANGED <<port, arrivals, registered, sup, why, conn, setting, toggles, on, tab,
                    handled, mark, setup, queue, half>>
    BY <1>2 DEF vars, link, work
  <2>2. Typed' /\ LinkInv' /\ (toggles = 0 => on = setting)'
    BY <2>1 DEF Typed, LinkInv, RetiresOnlyGone
  <2>3. ASSUME NEW t \in Tabs PROVE TabInv(t)'
    BY <2>1, TabKept
  <2> QED BY <2>2, <2>3
<1> QED BY <1>1, <1>2

LEMMA Implied == SupervisorInv => BordersFollow /\ RetiresOnlyGone
<1> SUFFICES ASSUME SupervisorInv PROVE BordersFollow /\ RetiresOnlyGone
  OBVIOUS
<1> USE DEF SupervisorInv
<1>1. ASSUME NEW t \in Tabs PROVE Len(queue[t]) <= MaxToggles + 1
  <2>1. Len(queue[t]) \in Nat /\ toggles \in 0..MaxToggles /\ (Unread = 0 \/ Unread = 1)
    BY LenProperties, TabType DEF Typed, Unread
  <2> QED BY <2>1 DEF TabInv, QueueIsShort
<1>2. TypeOK
  BY <1>1 DEF Typed, TypeOK
<1>3. ScriptIsHeld
  BY DEF ScriptIsHeld, TabInv, MarkIsTrue
<1>4. OffIsClean
  <2> SUFFICES ASSUME NEW t \in Tabs, Settled(t), ~on
               PROVE  ~tab[t].drawn /\ tab[t].scripts = 0
    BY DEF OffIsClean
  <2>1. Live(t) /\ t \in handled /\ setup[t] = "none" /\ queue[t] = <<>>
    BY DEF Settled, Idle
  <2>2. mark[t] # "scripted" /\ ~tab[t].drawn
    BY <2>1 DEF TabInv, LastCallCounts
  <2>3. tab[t].scripts # 1
    BY <2>1, <2>2 DEF TabInv, MarkIsTrue
  <2> QED BY <2>2, <2>3, TabType
<1> QED BY <1>2, <1>3, <1>4 DEF BordersFollow, LinkInv

(* Borders follow the setting: whatever the order of toggles, set-ups,      *)
(* navigations, drops and reconnects, a quiet tab's mark holds a script just *)
(* when one is registered, and a quiet tab is clean while borders are off.   *)
THEOREM BordersFollowTheorem == Spec => []BordersFollow
<1>1. Init => SupervisorInv
  BY Start
<1>2. SupervisorInv /\ [Next]_vars => SupervisorInv'
  BY Inductive
<1>3. SupervisorInv => BordersFollow
  BY Implied
<1> QED BY <1>1, <1>2, <1>3, PTL DEF Spec

(* The entry of an instance is retired, and its port left to a stranger,    *)
(* only when its own browser no longer listens: a dropped connection, a      *)
(* failed connect and a failed scan are not enough.                          *)
THEOREM RetiresOnlyGoneTheorem == Spec => []RetiresOnlyGone
<1>1. Init => SupervisorInv
  BY Start
<1>2. SupervisorInv /\ [Next]_vars => SupervisorInv'
  BY Inductive
<1>3. SupervisorInv => RetiresOnlyGone
  BY Implied
<1> QED BY <1>1, <1>2, <1>3, PTL DEF Spec
=============================================================================
