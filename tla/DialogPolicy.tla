--------------------------- MODULE DialogPolicy ---------------------------
(* The dialog policy of an invocation: one task answers each dialog the    *)
(* page opens, document collects the records within a budget, and close    *)
(* lets answers in flight land. A dialog stops the page's script, so no    *)
(* command that runs script is answered while one shows.                   *)
EXTENDS Naturals, Sequences

CONSTANT MaxDialogs      \* bound: dialogs the page opens

ASSUME DialogAssumption == MaxDialogs \in Nat

VARIABLES
  dialogs,     \* each dialog's task, in the order they opened
  due,         \* the last answer released script that opens another
  listening,   \* subscribed to the openings
  closed,      \* the adapter refuses sends
  drain,       \* document: "none", "look", "gather", "settle", "done"
  records,     \* the answers it has collected
  upto,        \* the tasks its gather waits for
  settled,     \* its settle has passed since the last answer
  truncated,   \* its budget was spent
  closing      \* close: "none", "wait", "done", "cut" short

dialogVars == <<dialogs, due, listening, closed, drain, records, upto, settled, truncated, closing>>

(* opened: the task has not sent; sent: it waits; then how it ended. A    *)
(* dialog the listener never heard of is unseen; one whose answer was     *)
(* refused, or cancelled (stuck), may be left showing.                    *)
TaskOver == {"answered", "error", "refused", "stuck", "cancelled"}
Showing == \E i \in 1..Len(dialogs) : dialogs[i] \in {"opened", "sent", "refused", "stuck", "unseen"}

DialogTypeOK ==
  /\ \A i \in 1..Len(dialogs) :
        dialogs[i] \in TaskOver \union {"opened", "sent", "unseen", "gone", "gone_sent"}
  /\ {due, listening, closed, settled, truncated} \subseteq BOOLEAN
  /\ drain \in {"none", "look", "gather", "settle", "done"}
  /\ records \in 0..MaxDialogs /\ upto \in 0..MaxDialogs
  /\ closing \in {"none", "wait", "done", "cut"}

DialogInit ==
  /\ dialogs = <<>> /\ due = FALSE /\ listening = TRUE /\ closed = FALSE
  /\ drain = "none" /\ records = 0 /\ upto = 0 /\ settled = FALSE
  /\ truncated = FALSE /\ closing = "none"

------------------------------------------------------------------------
(* The page opens a dialog; _opened makes its task.                       *)
Opens ==
  /\ Len(dialogs) < MaxDialogs /\ ~Showing
  /\ dialogs' = Append(dialogs, IF listening THEN "opened" ELSE "unseen")
  /\ due' = FALSE
  /\ UNCHANGED <<listening, closed, drain, records, upto, settled, truncated, closing>>

(* The dialog goes away by itself: its page has navigated.                *)
Vanishes(i) ==
  /\ dialogs[i] \in {"opened", "sent"}
  /\ dialogs' = [dialogs EXCEPT ![i] = IF @ = "sent" THEN "gone_sent" ELSE "gone"]
  /\ UNCHANGED <<due, listening, closed, drain, records, upto, settled, truncated, closing>>

(* _answer up to its await: an adapter that is closed refuses, and the    *)
(* dialog is left showing.                                                *)
AnswerSends(i) ==
  /\ dialogs[i] \in {"opened", "gone"}
  /\ dialogs' = [dialogs EXCEPT ![i] = IF closed THEN (IF @ = "gone" THEN "error" ELSE "refused")
                                        ELSE IF @ = "gone" THEN "gone_sent" ELSE "sent"]
  /\ UNCHANGED <<due, listening, closed, drain, records, upto, settled, truncated, closing>>

(* Chrome handles the answer; or there is no dialog any more, which is a  *)
(* record with its error.                                                 *)
AnswerLands(i) ==
  /\ dialogs[i] \in {"sent", "gone_sent"}
  /\ dialogs' = [dialogs EXCEPT ![i] = IF @ = "sent" THEN "answered" ELSE "error"]
  /\ due' \in (IF dialogs[i] = "sent" /\ Len(dialogs) < MaxDialogs THEN BOOLEAN ELSE {due})
  /\ UNCHANGED <<listening, closed, drain, records, upto, settled, truncated, closing>>

------------------------------------------------------------------------
(* document                                                               *)
Collect ==
  /\ drain = "none" /\ drain' = "look"
  /\ UNCHANGED <<dialogs, due, listening, closed, records, upto, settled, truncated, closing>>

(* The loop's head: gather what is new, end, or settle once.              *)
Gathers == drain' = "gather" /\ upto' = Len(dialogs) /\ UNCHANGED truncated
BudgetSpent == drain' = "done" /\ truncated' = TRUE /\ UNCHANGED upto
LoopHead ==
  /\ drain = "look"
  /\ \/ records < Len(dialogs) /\ (Gathers \/ BudgetSpent)
     \/ /\ records = Len(dialogs)
        /\ drain' = IF settled \/ dialogs = <<>> THEN "done" ELSE "settle"
        /\ UNCHANGED <<upto, truncated>>
  /\ UNCHANGED <<dialogs, due, listening, closed, records, settled, closing>>

(* Fault: an answer that is collected needs no settle.                    *)
SettledAtOnce == TRUE
SettledAnew == FALSE

(* gather: every task it names is over.                                   *)
Gathered ==
  /\ drain = "gather" /\ \A i \in 1..upto : dialogs[i] \in TaskOver
  /\ records' = upto /\ settled' = SettledAnew /\ drain' = "look"
  /\ UNCHANGED <<dialogs, due, listening, closed, upto, truncated, closing>>

(* The settle outlasts what the answer released.                          *)
SettleEnds ==
  /\ drain = "settle" /\ ~due
  /\ settled' = TRUE /\ drain' = "look"
  /\ UNCHANGED <<dialogs, due, listening, closed, records, upto, truncated, closing>>

------------------------------------------------------------------------
(* Teardown: the runtime's adapter refuses first, then close waits for    *)
(* the answers in flight, and cancels what is left after its budget.      *)
Disconnect ==
  /\ closing = "none" /\ closing' = "wait"
  /\ closed' = TRUE /\ listening' = FALSE
  /\ UNCHANGED <<dialogs, due, drain, records, upto, settled, truncated>>

InFlight(s) == s \in {"opened", "gone", "sent", "gone_sent"}

MayCancel(spent) == spent \/ \A i \in 1..Len(dialogs) : ~InFlight(dialogs[i])

CloseEnds(spent) ==
  /\ closing = "wait" /\ MayCancel(spent)
  /\ closing' = IF spent THEN "cut" ELSE "done"
  /\ dialogs' = [i \in 1..Len(dialogs) |->
                   CASE dialogs[i] \in {"opened", "sent"} -> "stuck"
                     [] dialogs[i] \in {"gone", "gone_sent"} -> "cancelled"
                     [] OTHER -> dialogs[i]]
  /\ UNCHANGED <<due, listening, closed, drain, records, upto, settled, truncated>>

------------------------------------------------------------------------
(* The document leaves out no dialog unless it says so: when it ends,     *)
(* every task has been collected, and nothing the last answer released    *)
(* is still to open (DialogPolicy.document).                              *)
DocumentIsWhole ==
  [][drain # "done" /\ drain' = "done" /\ ~truncated' => ~due /\ records = Len(dialogs)]_dialogVars

(* Teardown cancels an answer in flight only when its budget is spent: a  *)
(* dialog is not left open by the policy that answers it                  *)
(* (DialogPolicy.close).                                                  *)
InFlightLands ==
  closing = "done" => \A i \in 1..Len(dialogs) : dialogs[i] # "stuck"
=======================================================================
