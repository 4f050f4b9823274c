------------------------- MODULE CredentialRelay -------------------------
(* read_reference of credential_relay.py: one field read through a private *)
(* pipe from an opchain child. The reading thread of the parent, the       *)
(* _PipeReader thread, the child, a process the child forked into its      *)
(* group and one that left the group run at once. Each of the last three   *)
(* holds the write end while it lives.                                     *)
EXTENDS Naturals

CONSTANTS MaxValue,     \* MAX_VALUE_BYTES, in chunks of one os.read
          PipeSize      \* what the pipe buffers, in chunks

ASSUME SizesAssumption == MaxValue \in Nat /\ PipeSize \in Nat \ {0}

VARIABLES
  rpc,       \* where read_reference is; "idle" before the first call
  alive,     \* the processes holding the write end
  status,    \* the child's exit status: "none", "zero", "bad"
  reaped,    \* the child has been waited for
  size,      \* the length of the value the child writes
  wrote,     \* what the child has written of it
  got,       \* what the reader has taken from the pipe
  reader,    \* _PipeReader's thread: "none", "reading", "eof", "overflow", "stopped"
  halt,      \* the reader's stop event
  cancel,    \* the cancellation event of _read_credentials
  answer     \* "none", "value" or "refused"

relay == <<rpc, alive, status, reaped, size, wrote, got, reader, halt, cancel, answer>>
child == <<alive, status, reaped, size, wrote>>

RelayInit ==
  /\ rpc = "idle" /\ alive = {} /\ status = "none" /\ reaped = FALSE
  /\ size = 0 /\ wrote = 0 /\ got = 0
  /\ reader = "none" /\ halt = FALSE /\ cancel = FALSE /\ answer = "none"

(* A call: the cancellation is looked at before anything is spawned.      *)
ReadReference ==
  /\ rpc \in {"idle", "end"}
  /\ rpc' = "spawn" /\ answer' = "none"
  /\ alive' = {} /\ status' = "none" /\ reaped' = FALSE /\ wrote' = 0 /\ got' = 0
  /\ reader' = "none" /\ halt' = FALSE
  /\ size' \in 1..(MaxValue + 1)
  /\ UNCHANGED cancel

(* The group is killed; one that left it is out of reach.                 *)
KillGroup ==
  /\ alive' = alive \cap {"escaped"}
  /\ status' = IF "child" \in alive THEN "bad" ELSE status

(* Any failure once the child runs: the group dies and is reaped.         *)
Refuse ==
  /\ rpc' = "stop" /\ answer' = "refused" /\ halt' = TRUE
  /\ KillGroup /\ reaped' = TRUE
  /\ UNCHANGED <<size, wrote, got, reader, cancel>>

SpawnRelay ==
  /\ rpc = "spawn"
  /\ \/ /\ ~cancel
        /\ alive' = {"child"} /\ reader' = "reading" /\ rpc' = "wait"
        /\ UNCHANGED answer
     \/ \* cancelled, or the binary does not start
        /\ rpc' = "end" /\ answer' = "refused" /\ UNCHANGED <<alive, reader>>
  /\ UNCHANGED <<status, reaped, size, wrote, got, halt, cancel>>

(* The polling loop: cancellation, overflow, exit, deadline.              *)
WaitChild ==
  /\ rpc = "wait"
  /\ \/ Refuse
     \/ /\ ~cancel /\ reader # "overflow" /\ status # "none"
        /\ reaped' = TRUE /\ rpc' = "group"
        /\ UNCHANGED <<alive, status, size, wrote, got, reader, halt, cancel, answer>>

(* The child has completed: its group is killed again before the end of    *)
(* the pipe is trusted.                                                    *)
KillAfterExit ==
  /\ rpc = "group"
  /\ \/ /\ ~cancel /\ rpc' = "finish" /\ KillGroup
        /\ UNCHANGED <<reaped, size, wrote, got, reader, halt, cancel, answer>>
     \/ cancel /\ Refuse

(* finish(): a reader that does not end in time, overflows or fails is     *)
(* refused; its bytes are the value only if the child exited with zero.    *)
Finish ==
  /\ rpc = "finish"
  /\ \/ /\ reader = "eof" /\ status = "zero"
        /\ rpc' = "stop" /\ halt' = TRUE /\ answer' = "value"
        /\ UNCHANGED <<child, got, reader, cancel>>
     \/ (reader # "eof" \/ status # "zero") /\ Refuse

(* The reader is stopped and joined before its descriptor is closed.      *)
Close ==
  /\ rpc = "stop" /\ reader # "reading"
  /\ rpc' = "end"
  /\ UNCHANGED <<child, got, reader, halt, cancel, answer>>

(* _PipeReader._run: one turn of the loop.                                *)
ReaderTurns ==
  /\ reader = "reading"
  /\ \/ halt /\ reader' = "stopped" /\ UNCHANGED got
     \/ /\ ~halt /\ got < wrote
        /\ got' = got + 1
        /\ reader' = IF got' > MaxValue THEN "overflow" ELSE reader
     \/ ~halt /\ got = wrote /\ alive = {} /\ reader' = "eof" /\ UNCHANGED got
  /\ UNCHANGED <<rpc, child, halt, cancel, answer>>

(* The child writes, forks, and exits: with zero only when all is written. *)
(* What it forked may leave its group, and may stay for ever.              *)
ChildRuns ==
  /\ "child" \in alive
  /\ \/ wrote < size /\ wrote - got < PipeSize /\ wrote' = wrote + 1 /\ UNCHANGED <<alive, status>>
     \/ /\ alive = {"child"}
        /\ \E p \in {"member", "escaped"} : alive' = alive \cup {p}
        /\ UNCHANGED <<wrote, status>>
     \/ /\ alive' = alive \ {"child"}
        /\ status' \in {"bad"} \cup (IF wrote = size THEN {"zero"} ELSE {})
        /\ UNCHANGED wrote
  /\ UNCHANGED <<rpc, reaped, size, got, reader, halt, cancel, answer>>

DescendantExits ==
  /\ \E p \in alive \ {"child"} : alive' = alive \ {p}
  /\ UNCHANGED <<rpc, status, reaped, size, wrote, got, reader, halt, cancel, answer>>

RelayStep == SpawnRelay \/ WaitChild \/ KillAfterExit \/ Finish \/ Close \/ ReaderTurns
RelayNext == RelayStep \/ ChildRuns \/ DescendantExits

---------------------------------------------------------------------------
(* A value is the whole value: what the child that exited with zero wrote, *)
(* to the end, within the bound, and never a part of it.                   *)
WholeOrNothing ==
  answer = "value" => status = "zero" /\ got = size /\ size <= MaxValue

(* When a read has ended, nothing of the child's group runs, and the child *)
(* has been waited for: no path leaves a process or a zombie.              *)
NoProcessLeft ==
  rpc = "end" /\ reader # "none" => alive \subseteq {"escaped"} /\ reaped

(* The descriptor is closed only when no thread reads it.                 *)
ClosedUnread == rpc = "end" => reader # "reading"
=======================================================================
