--------------------------- MODULE MCLogin ---------------------------
(* A small instance of the login with its relay for TLC.                *)
EXTENDS LoginRelay

(* What a login reports is what happened: success only where it was       *)
(* observed after one submit, and a warning wherever a credential may     *)
(* still stand on the page (login._run, login_contract).                  *)
LoginIsTruthful == TypeOK /\ WarnedIfLeft /\ SuccessIsObserved /\ SaysWhatHappened

(* Both values, whole, go once into the fields that were validated, and   *)
(* the helper that gave them leaves no process and no unread pipe         *)
(* (login._insert, credential_relay).                                     *)
InsertsSafely ==
  /\ InsertsWhereValidated /\ InsertsBothValues /\ NeverResubmits
  /\ WholeOrNothing /\ NoProcessLeft /\ ClosedUnread

(* A login ends within its deadline whatever the page and the helper do,  *)
(* and its relay with it.                                                 *)
LoginSettles == Ends /\ RelaySettles

=======================================================================
