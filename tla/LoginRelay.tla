--------------------------- MODULE LoginRelay ---------------------------
(* The login transaction with its credential relay: _read_credentials runs *)
(* one read_reference per field on a thread. A cancellation, or the wall   *)
(* of the body, sets the relay's cancel event and waits a bounded time for *)
(* the thread; the login goes on, the thread settles by itself.            *)
EXTENDS Login, CredentialRelay

VARIABLE fields      \* the fields whose read has been started

allvars == <<vars, relay, fields>>

LRInit == Init /\ RelayInit /\ fields = 0

Idle == rpc \in {"idle", "end"}

(* read(): the remaining budget is looked at before each field.           *)
StartField ==
  /\ pc = "relay" /\ reply = "none" /\ Idle /\ fields < 2
  /\ fields = 1 => answer = "value"
  /\ ~expired /\ ~cancel
  /\ ReadReference
  /\ fields' = fields + 1
  /\ UNCHANGED vars

(* Both values, a refused read, or a budget spent before a read.          *)
CredentialsRead ==
  /\ Idle /\ ~cancel /\ reply = "none" /\ ReadCredentials
  /\ \/ fields = 2 /\ answer = "value" /\ pc' = "loader"
     \/ answer = "refused" /\ result'.msg = "relay_failed"
     \/ expired /\ answer # "refused" /\ stop'.kind = "expired"
  /\ UNCHANGED <<relay, fields>>

(* The awaiting task is cancelled, or the wall fires: the thread is told. *)
SignalRelay ==
  /\ pc = "relay" /\ ~cancel
  /\ reply = Cancelled \/ (expired /\ ~Idle)
  /\ cancel' = TRUE
  /\ UNCHANGED <<vars, rpc, child, got, reader, halt, answer, fields>>

(* Fault: a cancelled read reports what its thread raised.                *)
LeaveRelayRefused ==
  /\ cancel /\ pc = "relay" /\ Idle
  /\ Conclude(Report("relay_failed"))
  /\ UNCHANGED <<phase, stop, world, relay, fields>>

(* The thread has settled, or the settle bound has passed.                *)
LeaveRelay ==
  /\ cancel /\ ReadCredentials
  /\ stop'.kind \in {"cancelled", "expired"}
  /\ UNCHANGED <<relay, fields>>

OtherStep ==
  /\ \/ LoadPolicy \/ VerifyRecordedOwner \/ EnsureRelayReady \/ Connect
     \/ VerifyConnectedBrowser \/ RecheckIdentity \/ ReadFrame \/ Validate
     \/ CheckLoader \/ FillAnswered \/ SubmitAnswered
     \/ ConfirmClear \/ AwaitSuccess \/ FinalClear \/ CloseDialogs \/ TearDown
  /\ UNCHANGED <<relay, fields>>

LoginStep == OtherStep \/ StartField \/ CredentialsRead \/ SignalRelay \/ LeaveRelay
RelayRuns == RelayStep /\ UNCHANGED <<vars, fields>>
TimerFires == TimesOut /\ UNCHANGED <<relay, fields>>
ClockRunsOut == DeadlinePasses /\ UNCHANGED <<relay, fields>>

World ==
  \/ (ChildRuns \/ DescendantExits) /\ UNCHANGED <<vars, fields>>
  \/ (PageRuns \/ PageActs \/ SessionFails \/ Cancel \/ BrowserExits \/ StrangerStarts)
       /\ UNCHANGED <<relay, fields>>

LRNext == LoginStep \/ RelayRuns \/ TimerFires \/ ClockRunsOut \/ World

(* The command and its threads run and timers fire; the page, the browser  *)
(* and the relay's child owe nothing.                                      *)
LRSpec ==
  /\ LRInit /\ [][LRNext]_allvars
  /\ WF_allvars(LoginStep) /\ WF_allvars(RelayRuns)
  /\ WF_allvars(TimerFires) /\ WF_allvars(ClockRunsOut)

---------------------------------------------------------------------------
(* The transaction with the threads, pipes and processes of the relay is   *)
(* the transaction in which the credentials are one step, fairness and all.*)
RefinesLogin == Spec

(* A relay thread settles although the login may have left it behind, and  *)
(* although a process that escaped the group holds the pipe for ever.      *)
RelaySettles == <>[](Idle /\ reader # "reading")

(* What is inserted is two whole values, both read before the insertion.  *)
InsertsBothValues == page.inserted => fields = 2 /\ answer = "value"
=======================================================================
