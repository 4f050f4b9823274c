--------------------------- MODULE AtomicRegistry ---------------------------
(***************************************************************************)
(* What registry.json promises its writers: a table of named entries that  *)
(* changes by whole operations.  An operation adds one entry under a free  *)
(* name, completes an entry its own launch added, drops the one entry it   *)
(* was asked to drop, or sweeps away entries whose browser is dead.  No    *)
(* operation ever undoes another one, so a slow writer cannot lose a fast  *)
(* writer's entry.                                                         *)
(***************************************************************************)
CONSTANTS Procs,      \* the processes that operate on the table
          Names,      \* instance names
          NoEntry     \* the value of a name that is not registered

VARIABLES reg,        \* [Names -> Entries \cup {NoEntry}]
          dead        \* registered names whose browser has exited

vars == <<reg, dead>>

\* An entry remembers its launch, and what later saves of that launch added.
Entries == [by : Procs, supervised : BOOLEAN, annotated : BOOLEAN]

NewEntry(p) == [by |-> p, supervised |-> FALSE, annotated |-> FALSE]

Unset(S) == [n \in Names |-> IF n \in S THEN NoEntry ELSE reg[n]]

Init == reg = [n \in Names |-> NoEntry] /\ dead = {}

\* A browser exits.
Die(n) == /\ reg[n] # NoEntry
          /\ dead' = dead \cup {n}
          /\ UNCHANGED reg

\* A launch registers its browser under a name nobody holds.
Register(n, p) == /\ reg[n] = NoEntry
                  /\ reg' = [reg EXCEPT ![n] = NewEntry(p)]
                  /\ UNCHANGED dead

\* A launch completes the entry it registered, and only that one.
Amend(n, p) == /\ reg[n] # NoEntry
               /\ reg[n].by = p
               /\ \/ reg' = [reg EXCEPT ![n].supervised = TRUE]
                  \/ reg' = [reg EXCEPT ![n].annotated = TRUE]
               /\ UNCHANGED dead

\* A stop, or a supervisor, drops the one instance it names.
Drop(n) == reg' = Unset({n}) /\ dead' = dead \ {n}

\* A sweep drops dead instances, and nothing else.
Sweep(S) == S \subseteq dead /\ reg' = Unset(S) /\ dead' = dead \ S

Next == \/ \E n \in Names : Die(n) \/ Drop(n)
        \/ \E n \in Names, p \in Procs : Register(n, p) \/ Amend(n, p)
        \/ \E S \in SUBSET Names : Sweep(S)

Spec == Init /\ [][Next]_vars
=============================================================================
