---------------------------- MODULE FrontProofs -----------------------------
(* Proofs about the front of the tool, its components one by one and then   *)
(* the invocation that composes them: the command line and an external      *)
(* browser, the ends of processes, the move of a profile, what is put on    *)
(* disk for others, and the camoufox engine.                                *)
EXTENDS MCFront, FiniteSetTheorems, TLAPS

USE CommandLineAssumption, ExternalAssumption

-----------------------------------------------------------------------------
(* The command line.  What an invocation names comes in three ways, by flag, *)
(* by the first token and within the line; what main holds at each of its    *)
(* stages is what these say, as far as it has read them.                     *)

Flagged == IF Seen(inv.endpoint) THEN "typed" ELSE IF Seen(inv.chrome) THEN "found" ELSE "none"
Given == IF inv.lead # "none" THEN inv.lead ELSE inv.inline
Wanted == IF Flagged # "none" THEN Flagged ELSE IF Given # "none" THEN Given ELSE alone
Clear == /\ ~(Seen(inv.endpoint) /\ Seen(inv.chrome))
         /\ inv.lead # "none" => inv.inline = "none"

Lines == {"argv", "split", "head", "raw", "slots"}

(* Who reads the rest of the line: the raw verb, or the parser. *)
ReaderIsKnown ==
  /\ stage \in {"parse", "select", "operands", "check", "work", "help"} => inv.verb # "raw"
  /\ stage \in {"split", "head", "raw", "slots"} => inv.verb = "raw" \/ inv.lead # "none"
  /\ stage \in {"send", "guard"} => inv.verb = "raw"

(* The instance, as far as the line has been read. *)
InstanceIsRead ==
  /\ stage \in Lines => instance = "none"
  /\ stage \in {"parse", "select", "operands"} => instance = inv.lead
  /\ stage = "discover" => instance = inv.lead \/ instance = "none"
  /\ (stage = "discover" /\ inv.verb = "raw") => instance = "none"
  /\ stage \in {"send", "check", "resolve"} => instance = Given
  /\ stage = "lookup" => /\ instance # "none"
                         /\ IF Given # "none" THEN instance = Given ELSE instance = alone

(* The address, and that nothing is named twice. *)
AddressIsRead ==
  /\ stage \in {"argv", "split", "head", "raw", "parse", "select", "discover"} => address = "none"
  /\ stage \in Lines \cup {"parse", "select", "discover", "operands", "check", "send", "resolve"}
       => alone = "none"
  /\ stage = "discover" => /\ Seen(inv.chrome)
                           /\ inv.verb = "raw" \/ ~OnRawLine => ~Seen(inv.endpoint) /\ Clear
  /\ (stage = "slots" /\ inv.verb = "raw") \/ stage \in {"operands", "check", "send", "resolve"}
       => address = Flagged /\ Clear
  /\ stage = "select" => (inv.lead # "none" => inv.inline = "none")
  /\ stage = "lookup" => address = "none" /\ Flagged = "none" /\ Clear
  /\ stage \in {"guard", "dial"} => address = Wanted /\ address # "none" /\ Clear

(* What is left for the dial has been checked. *)
LineIsChecked ==
  /\ stage \in {"send", "resolve", "lookup", "guard", "dial"} => inv.whole /\ ~inv.twice
  /\ (stage \in {"resolve", "guard", "dial"} /\ inv.method = "lifetime")
       => address \notin {"typed", "found"}
  /\ stage = "dial" => inv.method # "focus"

(* And nothing is dialled before that. *)
DialIsLast ==
  /\ stage \notin {"driving", "done"} => dialed = "none"
  /\ stage # "done" => exit = 3

CliInv == /\ CliTypeOK /\ Sensible(inv)
          /\ ReaderIsKnown /\ InstanceIsRead /\ AddressIsRead /\ LineIsChecked /\ DialIsLast
          /\ RefusedDrivesNothing /\ DrivesTheOneNamed /\ SparesThePerson

LEMMA InvType ==
  ASSUME CliTypeOK, Sensible(inv)
  PROVE  /\ inv.lead \in {"none", "a", "c"} /\ inv.inline \in {"none", "a", "b"}
         /\ inv.endpoint \in Spellings /\ inv.chrome \in Spellings
         /\ inv.whole \in BOOLEAN /\ inv.twice \in BOOLEAN
         /\ inv.verb = "raw" => inv.inline = "none" /\ inv.whole
         /\ inv.verb # "raw" => inv.method = "plain"
BY DEF CliTypeOK, Invocations, Sensible

LEMMA CliStart == CliInit => CliInv
<1> SUFFICES ASSUME CliInit PROVE CliInv
  OBVIOUS
<1>1. CliTypeOK /\ Sensible(inv)
  BY DEF CliInit, CliTypeOK
<1>2. stage = "argv" /\ instance = "none" /\ address = "none" /\ alone = "none"
      /\ dialed = "none" /\ exit = 3
  BY DEF CliInit
<1> QED BY <1>1, <1>2 DEF CliInv, ReaderIsKnown, InstanceIsRead, AddressIsRead, LineIsChecked,
           DialIsLast, Lines, RefusedDrivesNothing, DrivesTheOneNamed, SparesThePerson

LEMMA CliKept == CliInv /\ UNCHANGED cliVars => CliInv'
BY DEF CliInv, CliTypeOK, Sensible, ReaderIsKnown, InstanceIsRead, AddressIsRead, LineIsChecked,
       DialIsLast, RefusedDrivesNothing, DrivesTheOneNamed, SparesThePerson, Flagged, Given,
       Wanted, Clear, OnRawLine, Seen, cliVars, registryVars

(* A step that ends the invocation, before anything was driven. *)
LEMMA ExitsWell ==
  ASSUME CliInv, NEW code \in 0..2, Exits(code), stage \notin {"driving", "done"}
  PROVE  CliInv'
<1>1. /\ stage' = "done" /\ exit' = code
      /\ UNCHANGED <<known, changes, inv, instance, address, alone, dialed>>
  BY DEF Exits, Goto, registryVars
<1>2. dialed' = "none"
  BY <1>1 DEF CliInv, DialIsLast
<1>3. CliTypeOK' /\ Sensible(inv)'
  BY <1>1 DEF CliInv, CliTypeOK, Sensible
<1>4. ReaderIsKnown' /\ InstanceIsRead' /\ AddressIsRead' /\ LineIsChecked' /\ DialIsLast'
  BY <1>1 DEF ReaderIsKnown, InstanceIsRead, AddressIsRead, LineIsChecked, DialIsLast, Lines
<1>5. RefusedDrivesNothing' /\ DrivesTheOneNamed' /\ SparesThePerson'
  BY <1>2 DEF RefusedDrivesNothing, DrivesTheOneNamed, SparesThePerson
<1> QED BY <1>3, <1>4, <1>5 DEF CliInv

LEMMA CliPreserved ==
  CliInv /\ (CliStep \/ Change \/ \E b \in BOOLEAN : Discovered(b) \/ Driven(b)) => CliInv'
<1> SUFFICES ASSUME CliInv,
                    CliStep \/ Change \/ \E b \in BOOLEAN : Discovered(b) \/ Driven(b)
             PROVE  CliInv'
  OBVIOUS
<1> USE InvType DEF CliInv
<1>i. inv' = inv
  BY DEF CliStep, Change, Discovered, Driven, ReadArgv, SplitLeading, PassthroughHead, ExtractFlags,
         ResolveArgs, Send, GuardFocus, Parse, SelectProfile, Operands, CheckPreconditions,
         ResolvePort, Lookup, Work, RunHelp, Dial, Exits, Refuse, Keep
<1>u. Flagged' = Flagged /\ Given' = Given /\ Clear' = Clear
  BY <1>i DEF Flagged, Given, Clear, Seen
<1>a. ASSUME \E code \in 0..2 : Exits(code), stage \notin {"driving", "done"} PROVE CliInv'
  BY <1>a, ExitsWell
(* A step before the dial disturbs nothing of what was driven. *)
<1>d. ASSUME dialed = "none", UNCHANGED <<inv, dialed, exit>>
      PROVE  RefusedDrivesNothing' /\ DrivesTheOneNamed' /\ SparesThePerson'
  BY <1>d DEF RefusedDrivesNothing, DrivesTheOneNamed, SparesThePerson
<1>1. CASE ReadArgv
  <2>1. CASE Misused
    <3>1. stage \notin {"driving", "done"} /\ \E code \in 0..2 : Exits(code)
      BY <1>1, <2>1 DEF ReadArgv, Misused, RegistryVerbs, Refuse
    <3> QED BY <3>1, <1>a
  <2>2. CASE ~Misused
    <3>1. /\ stage = "argv"
          /\ stage' = IF inv.lead = "none" /\ inv.verb # "raw" THEN "parse" ELSE "split"
          /\ UNCHANGED <<known, changes, inv, instance, address, alone, dialed, exit>>
      BY <1>1, <2>2 DEF ReadArgv, Misused, RegistryVerbs, Keep, Goto, registryVars
    <3>2. CliTypeOK' /\ Sensible(inv)'
      BY <3>1, <1>i, <2>2 DEF CliTypeOK, Sensible, Names
    <3>3. ReaderIsKnown' /\ InstanceIsRead'
      BY <3>1, <1>i, <1>u, <2>2 DEF ReaderIsKnown, InstanceIsRead, AddressIsRead, Lines, OnRawLine, Given, Clear,
                                   CliTypeOK, Names
    <3>4. AddressIsRead'
      BY <3>1, <1>i, <1>u, <2>2 DEF AddressIsRead, InstanceIsRead, ReaderIsKnown, Lines, OnRawLine, Seen,
                                   Flagged, Given, Wanted, Clear, Spellings
    <3>5. LineIsChecked'
      BY <3>1, <1>i, <1>u, <2>2 DEF LineIsChecked, ReaderIsKnown, CliTypeOK, Names
    <3>6. DialIsLast' /\ RefusedDrivesNothing' /\ DrivesTheOneNamed' /\ SparesThePerson'
      BY <3>1, <1>i, <1>d DEF DialIsLast
    <3> QED BY <3>2, <3>3, <3>4, <3>5, <3>6
  <2> QED BY <2>1, <2>2
<1>2. CASE SplitLeading
  <2>1. CASE inv.verb # "raw" /\ inv.lead \in known
    <3>1. /\ stage = "split" /\ stage' = "parse" /\ instance' = inv.lead
          /\ UNCHANGED <<known, changes, inv, address, alone, dialed, exit>>
      BY <1>2, <2>1 DEF SplitLeading, Keep, Goto, registryVars
    <3>2. CliTypeOK' /\ Sensible(inv)'
      BY <3>1, <1>i, <2>1 DEF CliTypeOK, Sensible, Names
    <3>3. ReaderIsKnown' /\ InstanceIsRead'
      BY <3>1, <1>i, <1>u, <2>1 DEF ReaderIsKnown, InstanceIsRead, AddressIsRead, Lines, OnRawLine, Given, Clear,
                                   CliTypeOK, Names
    <3>4. AddressIsRead'
      BY <3>1, <1>i, <1>u, <2>1 DEF AddressIsRead, InstanceIsRead, ReaderIsKnown, Lines, OnRawLine, Seen,
                                   Flagged, Given, Wanted, Clear, Spellings
    <3>5. LineIsChecked'
      BY <3>1, <1>i, <1>u, <2>1 DEF LineIsChecked, ReaderIsKnown, CliTypeOK, Names
    <3>6. DialIsLast' /\ RefusedDrivesNothing' /\ DrivesTheOneNamed' /\ SparesThePerson'
      BY <3>1, <1>i, <1>d DEF DialIsLast
    <3> QED BY <3>2, <3>3, <3>4, <3>5, <3>6
  <2>2. CASE ~(inv.verb # "raw" /\ inv.lead \in known)
    <3>1. /\ stage = "split" /\ stage' = "head"
          /\ UNCHANGED <<known, changes, inv, instance, address, alone, dialed, exit>>
      BY <1>2, <2>2 DEF SplitLeading, Keep, Goto, registryVars
    <3>2. CliTypeOK' /\ Sensible(inv)'
      BY <3>1, <1>i, <2>2 DEF CliTypeOK, Sensible, Names
    <3>3. ReaderIsKnown' /\ InstanceIsRead'
      BY <3>1, <1>i, <1>u, <2>2 DEF ReaderIsKnown, InstanceIsRead, AddressIsRead, Lines, OnRawLine, Given, Clear,
                                   CliTypeOK, Names
    <3>4. AddressIsRead'
      BY <3>1, <1>i, <1>u, <2>2 DEF AddressIsRead, InstanceIsRead, ReaderIsKnown, Lines, OnRawLine, Seen,
                                   Flagged, Given, Wanted, Clear, Spellings
    <3>5. LineIsChecked'
      BY <3>1, <1>i, <1>u, <2>2 DEF LineIsChecked, ReaderIsKnown, CliTypeOK, Names
    <3>6. DialIsLast' /\ RefusedDrivesNothing' /\ DrivesTheOneNamed' /\ SparesThePerson'
      BY <3>1, <1>i, <1>d DEF DialIsLast
    <3> QED BY <3>2, <3>3, <3>4, <3>5, <3>6
  <2> QED BY <2>1, <2>2
<1>3. CASE PassthroughHead
  <2>1. CASE inv.lead \in known \cup {"none"}
    <3>1. /\ stage = "head" /\ stage' = "raw"
          /\ UNCHANGED <<known, changes, inv, instance, address, alone, dialed, exit>>
      BY <1>3, <2>1 DEF PassthroughHead, Keep, Goto, registryVars
    <3>2. CliTypeOK' /\ Sensible(inv)'
      BY <3>1, <1>i, <2>1 DEF CliTypeOK, Sensible, Names
    <3>3. ReaderIsKnown' /\ InstanceIsRead'
      BY <3>1, <1>i, <1>u, <2>1 DEF ReaderIsKnown, InstanceIsRead, AddressIsRead, Lines, OnRawLine, Given, Clear,
                                   CliTypeOK, Names
    <3>4. AddressIsRead'
      BY <3>1, <1>i, <1>u, <2>1 DEF AddressIsRead, InstanceIsRead, ReaderIsKnown, Lines, OnRawLine, Seen,
                                   Flagged, Given, Wanted, Clear, Spellings
    <3>5. LineIsChecked'
      BY <3>1, <1>i, <1>u, <2>1 DEF LineIsChecked, ReaderIsKnown, CliTypeOK, Names
    <3>6. DialIsLast' /\ RefusedDrivesNothing' /\ DrivesTheOneNamed' /\ SparesThePerson'
      BY <3>1, <1>i, <1>d DEF DialIsLast
    <3> QED BY <3>2, <3>3, <3>4, <3>5, <3>6
  <2>2. CASE inv.lead \notin known \cup {"none"}
    <3>1. stage \notin {"driving", "done"} /\ \E code \in 0..2 : Exits(code)
      BY <1>3, <2>2 DEF PassthroughHead, Refuse
    <3> QED BY <3>1, <1>a
  <2> QED BY <2>1, <2>2
<1>4. CASE ExtractFlags
  <2>1. CASE inv.chrome = "flag" /\ (inv.endpoint = "flag" \/ inv.method = "lifetime")
    <3>1. stage \notin {"driving", "done"} /\ \E code \in 0..2 : Exits(code)
      BY <1>4, <2>1 DEF ExtractFlags, Refuse
    <3> QED BY <3>1, <1>a
  <2>2. CASE ~(inv.chrome = "flag" /\ (inv.endpoint = "flag" \/ inv.method = "lifetime"))
    <3>1. /\ stage = "raw"
          /\ stage' = IF inv.chrome = "flag" THEN "discover" ELSE "slots"
          /\ address' = IF inv.endpoint = "flag" THEN "typed" ELSE address
          /\ UNCHANGED <<known, changes, inv, instance, alone, dialed, exit>>
      BY <1>4, <2>2 DEF ExtractFlags, Keep, Goto, registryVars
    <3>2. CliTypeOK' /\ Sensible(inv)'
      BY <3>1, <1>i, <2>2 DEF CliTypeOK, Sensible, Names
    <3>3. ReaderIsKnown' /\ InstanceIsRead'
      BY <3>1, <1>i, <1>u, <2>2 DEF ReaderIsKnown, InstanceIsRead, AddressIsRead, Lines, OnRawLine, Given, Clear,
                                   CliTypeOK, Names
    <3>4. AddressIsRead'
      BY <3>1, <1>i, <1>u, <2>2 DEF AddressIsRead, InstanceIsRead, ReaderIsKnown, Lines, OnRawLine, Seen,
                                   Flagged, Given, Wanted, Clear, Spellings
    <3>5. LineIsChecked'
      BY <3>1, <1>i, <1>u, <2>2 DEF LineIsChecked, ReaderIsKnown, CliTypeOK, Names
    <3>6. DialIsLast' /\ RefusedDrivesNothing' /\ DrivesTheOneNamed' /\ SparesThePerson'
      BY <3>1, <1>i, <1>d DEF DialIsLast
    <3> QED BY <3>2, <3>3, <3>4, <3>5, <3>6
  <2> QED BY <2>1, <2>2
<1>5. CASE ResolveArgs
  <2>1. CASE inv.twice \/ inv.verb # "raw" \/ inv.lead \notin known \cup {"none"}
    <3>1. stage \notin {"driving", "done"} /\ \E code \in 0..2 : Exits(code)
      BY <1>5, <2>1 DEF ResolveArgs, Refuse
    <3> QED BY <3>1, <1>a
  <2>2. CASE ~(inv.twice \/ inv.verb # "raw" \/ inv.lead \notin known \cup {"none"})
    <3>1. /\ stage = "slots" /\ stage' = "send" /\ instance' = inv.lead
          /\ ~inv.twice /\ inv.verb = "raw" /\ inv.lead \in known \cup {"none"}
          /\ UNCHANGED <<known, changes, inv, address, alone, dialed, exit>>
      BY <1>5, <2>2 DEF ResolveArgs, Keep, Goto, registryVars
    <3>2. CliTypeOK' /\ Sensible(inv)'
      BY <3>1, <1>i, <2>2 DEF CliTypeOK, Sensible, Names
    <3>3. ReaderIsKnown' /\ InstanceIsRead'
      BY <3>1, <1>i, <1>u, <2>2 DEF ReaderIsKnown, InstanceIsRead, AddressIsRead, Lines, OnRawLine, Given, Clear,
                                   CliTypeOK, Names
    <3>4. AddressIsRead'
      BY <3>1, <1>i, <1>u, <2>2 DEF AddressIsRead, InstanceIsRead, ReaderIsKnown, Lines, OnRawLine, Seen,
                                   Flagged, Given, Wanted, Clear, Spellings
    <3>5. LineIsChecked'
      BY <3>1, <1>i, <1>u, <2>2 DEF LineIsChecked, ReaderIsKnown, CliTypeOK, Names
    <3>6. DialIsLast' /\ RefusedDrivesNothing' /\ DrivesTheOneNamed' /\ SparesThePerson'
      BY <3>1, <1>i, <1>d DEF DialIsLast
    <3> QED BY <3>2, <3>3, <3>4, <3>5, <3>6
  <2> QED BY <2>1, <2>2
<1>6. CASE Send
  <2>1. CASE EndsABrowser
    <3>1. stage \notin {"driving", "done"} /\ \E code \in 0..2 : Exits(code)
      BY <1>6, <2>1 DEF Send, EndsABrowser, Refuse
    <3> QED BY <3>1, <1>a
  <2>2. CASE ~EndsABrowser
    <3>1. /\ stage = "send" /\ stage' = "resolve"
          /\ inv.method = "lifetime" => address \notin {"typed", "found"}
          /\ UNCHANGED <<known, changes, inv, instance, address, alone, dialed, exit>>
      BY <1>6, <2>2 DEF Send, EndsABrowser, Keep, Goto, registryVars
    <3>2. CliTypeOK' /\ Sensible(inv)'
      BY <3>1, <1>i, <2>2 DEF CliTypeOK, Sensible, Names
    <3>3. ReaderIsKnown' /\ InstanceIsRead'
      BY <3>1, <1>i, <1>u, <2>2 DEF ReaderIsKnown, InstanceIsRead, AddressIsRead, Lines, OnRawLine, Given, Clear,
                                   CliTypeOK, Names
    <3>4. AddressIsRead'
      BY <3>1, <1>i, <1>u, <2>2 DEF AddressIsRead, InstanceIsRead, ReaderIsKnown, Lines, OnRawLine, Seen,
                                   Flagged, Given, Wanted, Clear, Spellings
    <3>5. LineIsChecked'
      BY <3>1, <1>i, <1>u, <2>2 DEF LineIsChecked, ReaderIsKnown, CliTypeOK, Names
    <3>6. DialIsLast' /\ RefusedDrivesNothing' /\ DrivesTheOneNamed' /\ SparesThePerson'
      BY <3>1, <1>i, <1>d DEF DialIsLast
    <3> QED BY <3>2, <3>3, <3>4, <3>5, <3>6
  <2> QED BY <2>1, <2>2
<1>7. CASE GuardFocus
  <2>1. CASE TakesTheScreen \/ inv.method = "params"
    <3>1. stage \notin {"driving", "done"} /\ \E code \in 0..2 : Exits(code)
      BY <1>7, <2>1 DEF GuardFocus, TakesTheScreen, Refuse
    <3> QED BY <3>1, <1>a
  <2>2. CASE ~(TakesTheScreen \/ inv.method = "params")
    <3>1. /\ stage = "guard" /\ stage' = "dial" /\ inv.method # "focus"
          /\ UNCHANGED <<known, changes, inv, instance, address, alone, dialed, exit>>
      BY <1>7, <2>2 DEF GuardFocus, TakesTheScreen, Keep, Goto, registryVars
    <3>2. CliTypeOK' /\ Sensible(inv)'
      BY <3>1, <1>i, <2>2 DEF CliTypeOK, Sensible, Names
    <3>3. ReaderIsKnown' /\ InstanceIsRead'
      BY <3>1, <1>i, <1>u, <2>2 DEF ReaderIsKnown, InstanceIsRead, AddressIsRead, Lines, OnRawLine, Given, Clear,
                                   CliTypeOK, Names
    <3>4. AddressIsRead'
      BY <3>1, <1>i, <1>u, <2>2 DEF AddressIsRead, InstanceIsRead, ReaderIsKnown, Lines, OnRawLine, Seen,
                                   Flagged, Given, Wanted, Clear, Spellings
    <3>5. LineIsChecked'
      BY <3>1, <1>i, <1>u, <2>2 DEF LineIsChecked, ReaderIsKnown, CliTypeOK, Names
    <3>6. DialIsLast' /\ RefusedDrivesNothing' /\ DrivesTheOneNamed' /\ SparesThePerson'
      BY <3>1, <1>i, <1>d DEF DialIsLast
    <3> QED BY <3>2, <3>3, <3>4, <3>5, <3>6
  <2> QED BY <2>1, <2>2
<1>8. CASE Parse
  <2>1. CASE (~TakesEndpoint(inv.verb) /\ (inv.endpoint # "no" \/ inv.chrome = "prefix"))
               \/ (inv.endpoint # "no" /\ inv.chrome = "prefix") \/ NamedTwice
    <3>1. stage \notin {"driving", "done"} /\ \E code \in 0..2 : Exits(code)
      BY <1>8, <2>1 DEF Parse, NamedTwice, Refuse
    <3> QED BY <3>1, <1>a
  <2>2. CASE ~((~TakesEndpoint(inv.verb) /\ (inv.endpoint # "no" \/ inv.chrome = "prefix"))
               \/ (inv.endpoint # "no" /\ inv.chrome = "prefix") \/ NamedTwice)
    <3>1. /\ stage = "parse" /\ stage' = "select"
          /\ ~(instance # "none" /\ inv.inline # "none")
          /\ UNCHANGED <<known, changes, inv, instance, address, alone, dialed, exit>>
      BY <1>8, <2>2 DEF Parse, NamedTwice, Keep, Goto, registryVars
    <3>2. CliTypeOK' /\ Sensible(inv)'
      BY <3>1, <1>i, <2>2 DEF CliTypeOK, Sensible, Names
    <3>3. ReaderIsKnown' /\ InstanceIsRead'
      BY <3>1, <1>i, <1>u, <2>2 DEF ReaderIsKnown, InstanceIsRead, AddressIsRead, Lines, OnRawLine, Given, Clear,
                                   CliTypeOK, Names
    <3>4. AddressIsRead'
      BY <3>1, <1>i, <1>u, <2>2 DEF AddressIsRead, InstanceIsRead, ReaderIsKnown, Lines, OnRawLine, Seen,
                                   Flagged, Given, Wanted, Clear, Spellings
    <3>5. LineIsChecked'
      BY <3>1, <1>i, <1>u, <2>2 DEF LineIsChecked, ReaderIsKnown, CliTypeOK, Names
    <3>6. DialIsLast' /\ RefusedDrivesNothing' /\ DrivesTheOneNamed' /\ SparesThePerson'
      BY <3>1, <1>i, <1>d DEF DialIsLast
    <3> QED BY <3>2, <3>3, <3>4, <3>5, <3>6
  <2> QED BY <2>1, <2>2
<1>9. CASE SelectProfile
  <2>1. CASE inv.chrome # "no" /\ (~TakesEndpoint(inv.verb) \/ BothNamed)
    <3>1. stage \notin {"driving", "done"} /\ \E code \in 0..2 : Exits(code)
      BY <1>9, <2>1 DEF SelectProfile, BothNamed, Refuse
    <3> QED BY <3>1, <1>a
  <2>2. CASE ~(inv.chrome # "no" /\ (~TakesEndpoint(inv.verb) \/ BothNamed))
    <3>1. /\ stage = "select"
          /\ inv.chrome # "no" => inv.endpoint = "no"
          /\ stage' = IF inv.chrome # "no" THEN "discover" ELSE "operands"
          /\ address' = IF inv.endpoint # "no" THEN "typed" ELSE address
          /\ UNCHANGED <<known, changes, inv, instance, alone, dialed, exit>>
      BY <1>9, <2>2 DEF SelectProfile, BothNamed, Keep, Goto, registryVars
    <3>2. CliTypeOK' /\ Sensible(inv)'
      BY <3>1, <1>i, <2>2 DEF CliTypeOK, Sensible, Names
    <3>3. ReaderIsKnown' /\ InstanceIsRead'
      BY <3>1, <1>i, <1>u, <2>2 DEF ReaderIsKnown, InstanceIsRead, AddressIsRead, Lines, OnRawLine, Given, Clear,
                                   CliTypeOK, Names
    <3>4. AddressIsRead'
      BY <3>1, <1>i, <1>u, <2>2 DEF AddressIsRead, InstanceIsRead, ReaderIsKnown, Lines, OnRawLine, Seen,
                                   Flagged, Given, Wanted, Clear, Spellings
    <3>5. LineIsChecked'
      BY <3>1, <1>i, <1>u, <2>2 DEF LineIsChecked, ReaderIsKnown, CliTypeOK, Names
    <3>6. DialIsLast' /\ RefusedDrivesNothing' /\ DrivesTheOneNamed' /\ SparesThePerson'
      BY <3>1, <1>i, <1>d DEF DialIsLast
    <3> QED BY <3>2, <3>3, <3>4, <3>5, <3>6
  <2> QED BY <2>1, <2>2
<1>10. CASE Operands
  <2>1. CASE inv.verb = "type" /\ inv.inline \notin known \cup {"none"}
    <3>1. stage \notin {"driving", "done"} /\ \E code \in 0..2 : Exits(code)
      BY <1>10, <2>1 DEF Operands, Refuse
    <3> QED BY <3>1, <1>a
  <2>2. CASE ~(inv.verb = "type" /\ inv.inline \notin known \cup {"none"})
    <3>1. /\ stage = "operands" /\ stage' = "check"
          /\ instance' = IF inv.inline # "none" THEN inv.inline ELSE instance
          /\ UNCHANGED <<known, changes, inv, address, alone, dialed, exit>>
      BY <1>10, <2>2 DEF Operands, Keep, Goto, registryVars
    <3>2. CliTypeOK' /\ Sensible(inv)'
      BY <3>1, <1>i, <2>2 DEF CliTypeOK, Sensible, Names
    <3>3. ReaderIsKnown' /\ InstanceIsRead'
      BY <3>1, <1>i, <1>u, <2>2 DEF ReaderIsKnown, InstanceIsRead, AddressIsRead, Lines, OnRawLine, Given, Clear,
                                   CliTypeOK, Names
    <3>4. AddressIsRead'
      BY <3>1, <1>i, <1>u, <2>2 DEF AddressIsRead, InstanceIsRead, ReaderIsKnown, Lines, OnRawLine, Seen,
                                   Flagged, Given, Wanted, Clear, Spellings
    <3>5. LineIsChecked'
      BY <3>1, <1>i, <1>u, <2>2 DEF LineIsChecked, ReaderIsKnown, CliTypeOK, Names
    <3>6. DialIsLast' /\ RefusedDrivesNothing' /\ DrivesTheOneNamed' /\ SparesThePerson'
      BY <3>1, <1>i, <1>d DEF DialIsLast
    <3> QED BY <3>2, <3>3, <3>4, <3>5, <3>6
  <2> QED BY <2>1, <2>2
<1>11. CASE CheckPreconditions
  <2>1. CASE inv.twice \/ ~inv.whole
    <3>1. stage \notin {"driving", "done"} /\ \E code \in 0..2 : Exits(code)
      BY <1>11, <2>1 DEF CheckPreconditions, RegistryVerbs, Refuse
    <3> QED BY <3>1, <1>a
  <2>2. CASE ~(inv.twice \/ ~inv.whole)
    <3>1. /\ stage = "check" /\ stage' \in {"work", "help", "resolve"}
          /\ ~inv.twice /\ inv.whole
          /\ UNCHANGED <<known, changes, inv, instance, address, alone, dialed, exit>>
      BY <1>11, <2>2 DEF CheckPreconditions, RegistryVerbs, Keep, Goto, registryVars
    <3>2. CliTypeOK' /\ Sensible(inv)'
      BY <3>1, <1>i, <2>2 DEF CliTypeOK, Sensible, Names
    <3>3. ReaderIsKnown' /\ InstanceIsRead'
      BY <3>1, <1>i, <1>u, <2>2 DEF ReaderIsKnown, InstanceIsRead, AddressIsRead, Lines, OnRawLine, Given, Clear,
                                   CliTypeOK, Names
    <3>4. AddressIsRead'
      BY <3>1, <1>i, <1>u, <2>2 DEF AddressIsRead, InstanceIsRead, ReaderIsKnown, Lines, OnRawLine, Seen,
                                   Flagged, Given, Wanted, Clear, Spellings
    <3>5. LineIsChecked'
      BY <3>1, <1>i, <1>u, <2>2 DEF LineIsChecked, ReaderIsKnown, CliTypeOK, Names
    <3>6. DialIsLast' /\ RefusedDrivesNothing' /\ DrivesTheOneNamed' /\ SparesThePerson'
      BY <3>1, <1>i, <1>d DEF DialIsLast
    <3> QED BY <3>2, <3>3, <3>4, <3>5, <3>6
  <2> QED BY <2>1, <2>2
<1>12. CASE ResolvePort
  <2>1. CASE address # "none"
    <3>1. /\ stage = "resolve" /\ address # "none"
          /\ stage' = IF inv.verb = "raw" THEN "guard" ELSE "dial"
          /\ UNCHANGED <<known, changes, inv, instance, address, alone, dialed, exit>>
      BY <1>12, <2>1 DEF ResolvePort, Resolved, Keep, Goto, registryVars
    <3>2. CliTypeOK' /\ Sensible(inv)'
      BY <3>1, <1>i, <2>1 DEF CliTypeOK, Sensible, Names
    <3>3. ReaderIsKnown' /\ InstanceIsRead'
      BY <3>1, <1>i, <1>u, <2>1 DEF ReaderIsKnown, InstanceIsRead, AddressIsRead, Lines, OnRawLine, Given, Clear,
                                   CliTypeOK, Names
    <3>4. AddressIsRead'
      BY <3>1, <1>i, <1>u, <2>1 DEF AddressIsRead, InstanceIsRead, ReaderIsKnown, Lines, OnRawLine, Seen,
                                   Flagged, Given, Wanted, Clear, Spellings
    <3>5. LineIsChecked'
      BY <3>1, <1>i, <1>u, <2>1 DEF LineIsChecked, ReaderIsKnown, CliTypeOK, Names
    <3>6. DialIsLast' /\ RefusedDrivesNothing' /\ DrivesTheOneNamed' /\ SparesThePerson'
      BY <3>1, <1>i, <1>d DEF DialIsLast
    <3> QED BY <3>2, <3>3, <3>4, <3>5, <3>6
  <2>2. CASE address = "none" /\ instance # "none"
    <3>1. /\ stage = "resolve" /\ stage' = "lookup" /\ address = "none" /\ instance # "none"
          /\ UNCHANGED <<known, changes, inv, instance, address, alone, dialed, exit>>
      BY <1>12, <2>2 DEF ResolvePort, Resolved, Keep, Goto, registryVars
    <3>2. CliTypeOK' /\ Sensible(inv)'
      BY <3>1, <1>i, <2>2 DEF CliTypeOK, Sensible, Names
    <3>3. ReaderIsKnown' /\ InstanceIsRead'
      BY <3>1, <1>i, <1>u, <2>2 DEF ReaderIsKnown, InstanceIsRead, AddressIsRead, Lines, OnRawLine, Given, Clear,
                                   CliTypeOK, Names
    <3>4. AddressIsRead'
      BY <3>1, <1>i, <1>u, <2>2 DEF AddressIsRead, InstanceIsRead, ReaderIsKnown, Lines, OnRawLine, Seen,
                                   Flagged, Given, Wanted, Clear, Spellings
    <3>5. LineIsChecked'
      BY <3>1, <1>i, <1>u, <2>2 DEF LineIsChecked, ReaderIsKnown, CliTypeOK, Names
    <3>6. DialIsLast' /\ RefusedDrivesNothing' /\ DrivesTheOneNamed' /\ SparesThePerson'
      BY <3>1, <1>i, <1>d DEF DialIsLast
    <3> QED BY <3>2, <3>3, <3>4, <3>5, <3>6
  <2>3. CASE address = "none" /\ instance = "none" /\ Cardinality(known) # 1
    <3>1. stage \notin {"driving", "done"} /\ \E code \in 0..2 : Exits(code)
      BY <1>12, <2>3 DEF ResolvePort, Resolved, Refuse
    <3> QED BY <3>1, <1>a
  <2>4. CASE address = "none" /\ instance = "none" /\ Cardinality(known) = 1
    <3>1. /\ stage = "resolve" /\ stage' = "lookup" /\ address = "none" /\ instance = "none"
          /\ alone' \in known /\ instance' = alone'
          /\ UNCHANGED <<known, changes, inv, address, dialed, exit>>
      BY <1>12, <2>4 DEF ResolvePort, Resolved, Keep, Goto, registryVars
    <3>2. CliTypeOK' /\ Sensible(inv)'
      BY <3>1, <1>i, <2>4 DEF CliTypeOK, Sensible, Names
    <3>3. ReaderIsKnown' /\ InstanceIsRead'
      BY <3>1, <1>i, <1>u, <2>4 DEF ReaderIsKnown, InstanceIsRead, AddressIsRead, Lines, OnRawLine, Given, Clear,
                                   CliTypeOK, Names
    <3>4. AddressIsRead'
      BY <3>1, <1>i, <1>u, <2>4 DEF AddressIsRead, InstanceIsRead, ReaderIsKnown, Lines, OnRawLine, Seen,
                                   Flagged, Given, Wanted, Clear, Spellings
    <3>5. LineIsChecked'
      BY <3>1, <1>i, <1>u, <2>4 DEF LineIsChecked, ReaderIsKnown, CliTypeOK, Names
    <3>6. DialIsLast' /\ RefusedDrivesNothing' /\ DrivesTheOneNamed' /\ SparesThePerson'
      BY <3>1, <1>i, <1>d DEF DialIsLast
    <3> QED BY <3>2, <3>3, <3>4, <3>5, <3>6
  <2> QED BY <2>1, <2>2, <2>3, <2>4
<1>13. CASE Lookup
  <2>1. CASE instance \notin known
    <3>1. stage \notin {"driving", "done"} /\ \E code \in 0..2 : Exits(code)
      BY <1>13, <2>1 DEF Lookup, Resolved, Refuse
    <3> QED BY <3>1, <1>a
  <2>2. CASE instance \in known
    <3>1. /\ stage = "lookup" /\ instance \in known /\ address' = instance
          /\ stage' = IF inv.verb = "raw" THEN "guard" ELSE "dial"
          /\ UNCHANGED <<known, changes, inv, instance, alone, dialed, exit>>
      BY <1>13, <2>2 DEF Lookup, Resolved, Keep, Goto, registryVars
    <3>2. CliTypeOK' /\ Sensible(inv)'
      BY <3>1, <1>i, <2>2 DEF CliTypeOK, Sensible, Names
    <3>3. ReaderIsKnown' /\ InstanceIsRead'
      BY <3>1, <1>i, <1>u, <2>2 DEF ReaderIsKnown, InstanceIsRead, AddressIsRead, Lines, OnRawLine, Given, Clear,
                                   CliTypeOK, Names
    <3>4. AddressIsRead'
      BY <3>1, <1>i, <1>u, <2>2 DEF AddressIsRead, InstanceIsRead, ReaderIsKnown, Lines, OnRawLine, Seen,
                                   Flagged, Given, Wanted, Clear, Spellings
    <3>5. LineIsChecked'
      BY <3>1, <1>i, <1>u, <2>2 DEF LineIsChecked, ReaderIsKnown, CliTypeOK, Names
    <3>6. DialIsLast' /\ RefusedDrivesNothing' /\ DrivesTheOneNamed' /\ SparesThePerson'
      BY <3>1, <1>i, <1>d DEF DialIsLast
    <3> QED BY <3>2, <3>3, <3>4, <3>5, <3>6
  <2> QED BY <2>1, <2>2
<1>14. CASE Work \/ RunHelp
  <2>1. stage \notin {"driving", "done"} /\ \E code \in 0..2 : Exits(code)
    BY <1>14 DEF Work, RunHelp
  <2> QED BY <2>1, <1>a
<1>15. CASE Dial
  <2>1. /\ stage = "dial" /\ dialed' = address /\ stage' = "driving"
        /\ UNCHANGED <<known, changes, inv, instance, address, alone, exit>>
    BY <1>15 DEF Dial, Goto, registryVars
  <2>2. CliTypeOK' /\ Sensible(inv)'
    BY <2>1 DEF CliTypeOK, Sensible
  <2>3. ReaderIsKnown' /\ InstanceIsRead' /\ AddressIsRead' /\ LineIsChecked' /\ DialIsLast'
    BY <2>1 DEF ReaderIsKnown, InstanceIsRead, AddressIsRead, LineIsChecked, DialIsLast, Lines
  <2>4. /\ address = Wanted /\ address # "none" /\ Clear /\ inv.whole /\ ~inv.twice
        /\ inv.method # "focus" /\ (inv.method = "lifetime" => address \notin {"typed", "found"})
    BY <2>1 DEF AddressIsRead, LineIsChecked
  <2>5. RefusedDrivesNothing'
    <3>1. exit' # 2
      BY <2>1 DEF DialIsLast
    <3> QED BY <3>1, <2>1, <2>4 DEF RefusedDrivesNothing, Clear, Seen
  <2>6. DrivesTheOneNamed'
    <3>1. dialed' = Wanted /\ Wanted' = Wanted
      BY <2>1, <2>4, <1>u DEF Wanted
    <3> QED BY <3>1, <2>1, <2>4 DEF DrivesTheOneNamed, Wanted, Flagged, Given, Clear, Seen
  <2>7. SparesThePerson'
    BY <2>1, <2>4 DEF SparesThePerson, CliTypeOK
  <2> QED BY <2>2, <2>3, <2>5, <2>6, <2>7
<1>16. CASE Change
  <2>1. /\ known' \subseteq Names /\ changes' \in 0..MaxChanges
        /\ UNCHANGED <<inv, stage, instance, address, alone, dialed, exit>>
    BY <1>16 DEF Change, CliTypeOK
  <2>2. CliTypeOK' /\ Sensible(inv)'
    BY <2>1 DEF CliTypeOK, Sensible
  <2>3. Wanted' = Wanted /\ OnRawLine' = OnRawLine
    BY <2>1 DEF Wanted, OnRawLine, Flagged, Given, Seen
  <2>4. ReaderIsKnown' /\ InstanceIsRead' /\ AddressIsRead'
    BY <2>1, <2>3, <1>u DEF ReaderIsKnown, InstanceIsRead, AddressIsRead, Seen
  <2>5. LineIsChecked' /\ DialIsLast'
    BY <2>1 DEF LineIsChecked, DialIsLast
  <2>6. RefusedDrivesNothing' /\ DrivesTheOneNamed' /\ SparesThePerson'
    BY <2>1 DEF RefusedDrivesNothing, DrivesTheOneNamed, SparesThePerson, Seen
  <2> QED BY <2>2, <2>4, <2>5, <2>6
<1>17. CASE Discovered(FALSE)
  <2>1. CliInv'
    <3>1. stage \notin {"driving", "done"} /\ \E code \in 0..2 : Exits(code)
      BY <1>17 DEF Discovered, Refuse
    <3> QED BY <3>1, <1>a
  <2> QED BY <2>1
<1>18. CASE Discovered(TRUE)
  <2>1. CliInv'
    <3>1. /\ stage = "discover" /\ address' = "found"
          /\ stage' = IF OnRawLine THEN "slots" ELSE "operands"
          /\ UNCHANGED <<known, changes, inv, instance, alone, dialed, exit>>
      BY <1>18 DEF Discovered, Keep, Goto, registryVars
    <3>2. CliTypeOK' /\ Sensible(inv)'
      BY <3>1, <1>i DEF CliTypeOK, Sensible, Names
    <3>3. ReaderIsKnown' /\ InstanceIsRead'
      BY <3>1, <1>i, <1>u DEF ReaderIsKnown, InstanceIsRead, AddressIsRead, Lines, OnRawLine, Given, Clear,
                                   CliTypeOK, Names
    <3>4. AddressIsRead'
      BY <3>1, <1>i, <1>u DEF AddressIsRead, InstanceIsRead, ReaderIsKnown, Lines, OnRawLine, Seen,
                                   Flagged, Given, Wanted, Clear, Spellings
    <3>5. LineIsChecked'
      BY <3>1, <1>i, <1>u DEF LineIsChecked, ReaderIsKnown, CliTypeOK, Names
    <3>6. DialIsLast' /\ RefusedDrivesNothing' /\ DrivesTheOneNamed' /\ SparesThePerson'
      BY <3>1, <1>i, <1>d DEF DialIsLast
    <3> QED BY <3>2, <3>3, <3>4, <3>5, <3>6
  <2> QED BY <2>1
<1>19. ASSUME NEW b \in BOOLEAN, Driven(b) PROVE CliInv'
  <2>1. /\ stage = "driving" /\ stage' = "done" /\ exit' \in {0, 1}
        /\ UNCHANGED <<known, changes, inv, instance, address, alone, dialed>>
    BY <1>19 DEF Driven, Exits, Goto, registryVars
  <2>2. CliTypeOK' /\ Sensible(inv)'
    BY <2>1 DEF CliTypeOK, Sensible
  <2>3. ReaderIsKnown' /\ InstanceIsRead' /\ AddressIsRead' /\ LineIsChecked' /\ DialIsLast'
    BY <2>1 DEF ReaderIsKnown, InstanceIsRead, AddressIsRead, LineIsChecked, DialIsLast, Lines
  <2>4. exit' # 2
    BY <2>1
  <2>5. RefusedDrivesNothing' /\ DrivesTheOneNamed' /\ SparesThePerson'
    BY <2>1, <2>4 DEF RefusedDrivesNothing, DrivesTheOneNamed, SparesThePerson, Seen
  <2> QED BY <2>2, <2>3, <2>5
<1>20. ASSUME NEW b \in BOOLEAN, Discovered(b) PROVE CliInv'
  <2>1. b = TRUE \/ b = FALSE
    OBVIOUS
  <2> QED BY <2>1, <1>17, <1>18, <1>20
<1> QED BY <1>1, <1>2, <1>3, <1>4, <1>5, <1>6, <1>7, <1>8, <1>9, <1>10, <1>11, <1>12, <1>13, <1>14, <1>15, <1>16, <1>19, <1>20 DEF CliStep

-----------------------------------------------------------------------------
(* An external browser.  The client has no connection before it dials and    *)
(* dials the one that was proved.                                            *)

Before == {"idle", "read", "probe", "found", "refused", "version", "dial"}

ClientIsOrdered ==
  /\ step \in Before => task = "none" /\ peer = None /\ ~given /\ ~well
  /\ via = "profile" => step \notin {"version", "dial"}
  /\ step = "probe" => path \in Runs
  /\ (via = "profile" /\ step = "found") => path \in Runs /\ proved[family] = path
  /\ ran <= events + 1

ExtInv == ExtTypeOK /\ ClientIsOrdered /\ DialsOnlyTheWriter /\ LeavesNoConnection

LEMMA ExtStart == ExtInit => ExtInv
<1> SUFFICES ASSUME ExtInit PROVE ExtInv
  OBVIOUS
<1>1. 1 \in Runs /\ 0 \in 0..MaxEvents
  BY DEF Runs
<1>2. /\ at \in [Families -> Runs \cup {None, Other, Mute}]
      /\ proved \in [Families -> Runs \cup {None, Mute}]
  BY <1>1 DEF ExtInit
<1>3. ExtTypeOK
  BY <1>1, <1>2 DEF ExtInit, ExtTypeOK, Families
<1>4. ClientIsOrdered
  BY DEF ExtInit, ClientIsOrdered
<1> QED BY <1>3, <1>4 DEF ExtInit, ExtInv, DialsOnlyTheWriter, LeavesNoConnection

LEMMA ExtKept == ExtInv /\ UNCHANGED extVars => ExtInv'
BY DEF ExtInv, ExtTypeOK, ClientIsOrdered, DialsOnlyTheWriter, LeavesNoConnection, Gone, extVars,
       hostVars

(* Whatever the host does, the client is where it was. *)
LEMMA HostPreserved == ExtInv /\ HostStep => ExtInv'
<1> SUFFICES ASSUME ExtInv, HostStep PROVE ExtInv'
  OBVIOUS
<1> USE DEF ExtInv
<1>1. /\ events' = events + 1 /\ events < MaxEvents /\ events \in 0..MaxEvents
      /\ UNCHANGED <<via, step, path, proved, family, task, given, well>>
  BY DEF HostStep, ChromeHangs, ChromeExits, ChromeStarts, PortIsTaken, Host, ExtTypeOK
<1>2. /\ peer' = peer \/ peer' = None
      /\ ran' = ran \/ ran' = ran + 1
      /\ file' = file \/ file' = ran'
  BY DEF HostStep, ChromeHangs, ChromeExits, ChromeStarts, PortIsTaken
<1>3. ran' \in Runs /\ events' \in 0..MaxEvents /\ ran' <= events' + 1
  <2>1. ran \in 1..MaxEvents + 1 /\ ran <= events + 1
    BY DEF ExtTypeOK, ClientIsOrdered, Runs
  <2> QED BY <1>1, <1>2, <2>1 DEF Runs
<1>4. hung' \in BOOLEAN
  BY DEF HostStep, ChromeHangs, ChromeExits, ChromeStarts, PortIsTaken, ExtTypeOK
<1>5. at' \in [Families -> Runs \cup {None, Other, Mute}]
  BY <1>3 DEF HostStep, ChromeHangs, ChromeExits, ChromeStarts, PortIsTaken, ExtTypeOK
<1>6. ExtTypeOK'
  BY <1>1, <1>2, <1>3, <1>4, <1>5 DEF ExtTypeOK
<1>7. ClientIsOrdered'
  BY <1>1, <1>2, <1>3 DEF ClientIsOrdered
<1>8. DialsOnlyTheWriter' /\ LeavesNoConnection'
  BY <1>1, <1>2 DEF DialsOnlyTheWriter, LeavesNoConnection, Gone
<1> QED BY <1>6, <1>7, <1>8

LEMMA ClientPreserved ==
  ExtInv /\ (StartsDiscovery \/ StartsTyped \/ Connect \/ ExtStep) => ExtInv'
<1> SUFFICES ASSUME ExtInv, StartsDiscovery \/ StartsTyped \/ Connect \/ ExtStep
             PROVE  ExtInv'
  OBVIOUS
<1> USE DEF ExtInv, Client
<1>h. UNCHANGED <<file, at, ran, events, hung, via>>
  BY DEF StartsDiscovery, StartsTyped, Connect, ExtStep, ReadPortFile, Chosen, ReadVersion, Handshake,
         Verify, TaskEnds, ApprovalTimesOut, Drive, Close, KnowsThePath, Hold, hostVars
<1>r. 1 \in Runs
  BY DEF Runs
<1>1. CASE StartsDiscovery
  <2>1. /\ step = "idle" /\ step' \in {"read", "refused"}
        /\ UNCHANGED <<path, proved, family, task, peer, given, well>>
    BY <1>1 DEF StartsDiscovery
  <2> QED BY <2>1, <1>h DEF ExtTypeOK, ClientIsOrdered, DialsOnlyTheWriter, LeavesNoConnection, Before
<1>2. CASE StartsTyped
  <2>1. /\ step = "idle" /\ step' \in {"dial", "version"} /\ via # "profile"
        /\ family' \in Families /\ path' \in Runs \cup {None}
        /\ UNCHANGED <<proved, task, peer, given, well>>
    BY <1>2, <1>r DEF StartsTyped
  <2> QED BY <2>1, <1>h DEF ExtTypeOK, ClientIsOrdered, DialsOnlyTheWriter, LeavesNoConnection, Before
<1>3. CASE Connect
  <2>1. /\ step \in {"dial", "found"} /\ step' = "await" /\ task' = "handshake"
        /\ UNCHANGED <<path, proved, family, peer, given, well>>
    BY <1>3 DEF Connect
  <2>2. ExtTypeOK' /\ ClientIsOrdered'
    BY <2>1, <1>h DEF ExtTypeOK, ClientIsOrdered, Before
  <2>3. DialsOnlyTheWriter' /\ LeavesNoConnection'
    BY <2>1, <1>h DEF ClientIsOrdered, DialsOnlyTheWriter, LeavesNoConnection
  <2> QED BY <2>2, <2>3
<1>4. CASE ReadPortFile
  <2>1. /\ step = "read" /\ path' = file
        /\ IF file = None THEN step' = "refused" ELSE step' = "probe"
        /\ UNCHANGED <<proved, family, task, peer, given, well>>
    BY <1>4 DEF ReadPortFile
  <2>2. ExtTypeOK'
    BY <2>1, <1>h DEF ExtTypeOK
  <2>3. ClientIsOrdered'
    BY <2>1, <1>h DEF ExtTypeOK, ClientIsOrdered, Before
  <2>4. DialsOnlyTheWriter' /\ LeavesNoConnection'
    BY <2>1, <1>h DEF ClientIsOrdered, DialsOnlyTheWriter, LeavesNoConnection, Before
  <2> QED BY <2>2, <2>3, <2>4
<1>5. ASSUME NEW f \in Families, KnowsThePath(f) PROVE ExtInv'
  <2>1. /\ step = "probe"
        /\ proved' = [proved EXCEPT ![f] = IF at[f] \in Runs /\ ~hung THEN at[f] ELSE Mute]
        /\ UNCHANGED <<step, path, family, task, peer, given, well>>
    BY <1>5 DEF KnowsThePath
  <2>2. ExtTypeOK'
    BY <2>1, <1>h DEF ExtTypeOK
  <2>3. ClientIsOrdered'
    BY <2>1, <1>h DEF ClientIsOrdered
  <2>4. DialsOnlyTheWriter' /\ LeavesNoConnection'
    BY <2>1, <1>h DEF ClientIsOrdered, DialsOnlyTheWriter, LeavesNoConnection, Before
  <2> QED BY <2>2, <2>3, <2>4
<1>6. CASE Chosen
  <2>1. /\ step = "probe" /\ step' \in {"found", "refused"} /\ family' \in Families
        /\ step' = "found" => proved[family'] = path
        /\ UNCHANGED <<path, proved, task, peer, given, well>>
    BY <1>6 DEF Chosen, Verified, Families, ExtTypeOK
  <2>2. ExtTypeOK'
    BY <2>1, <1>h DEF ExtTypeOK
  <2>3. ClientIsOrdered'
    BY <2>1, <1>h DEF ClientIsOrdered, Before
  <2>4. DialsOnlyTheWriter' /\ LeavesNoConnection'
    BY <2>1, <1>h DEF ClientIsOrdered, DialsOnlyTheWriter, LeavesNoConnection, Before
  <2> QED BY <2>2, <2>3, <2>4
<1>7. CASE ReadVersion
  <2>1. /\ step = "version" /\ step' \in {"dial", "failed"}
        /\ path' \in Runs \cup {None}
        /\ proved' \in [Families -> Runs \cup {None, Mute}]
        /\ UNCHANGED <<family, task, peer, given, well>>
    BY <1>7 DEF ReadVersion, ExtTypeOK
  <2>2. task = "none" /\ peer = None /\ ~given /\ ~well /\ via # "profile"
    BY <2>1 DEF ClientIsOrdered, Before
  <2>3. ExtTypeOK'
    BY <2>1, <1>h DEF ExtTypeOK
  <2>4. ClientIsOrdered'
    BY <2>1, <2>2, <1>h DEF ClientIsOrdered
  <2>5. DialsOnlyTheWriter' /\ LeavesNoConnection'
    BY <2>1, <2>2, <1>h DEF DialsOnlyTheWriter, LeavesNoConnection, Gone
  <2> QED BY <2>3, <2>4, <2>5
<1>8. CASE Handshake
  <2>1. /\ task = "handshake" /\ task' \in {"verify", "failed"}
        /\ peer' = path \/ peer' = peer
        /\ UNCHANGED <<step, path, proved, family, given, well>>
    BY <1>8 DEF Handshake
  <2>2. step \notin Before /\ step \notin {"failed", "answered"}
    BY <2>1 DEF ClientIsOrdered, LeavesNoConnection
  <2>3. ExtTypeOK' /\ ClientIsOrdered'
    BY <2>1, <2>2, <1>h DEF ExtTypeOK, ClientIsOrdered, Before
  <2>4. DialsOnlyTheWriter' /\ LeavesNoConnection'
    BY <2>1, <2>2, <1>h DEF DialsOnlyTheWriter, LeavesNoConnection
  <2> QED BY <2>3, <2>4
<1>9. CASE Verify
  <2>1. /\ task = "verify" /\ task' \in {"done", "failed"}
        /\ UNCHANGED <<step, path, proved, family, peer, given, well>>
    BY <1>9 DEF Verify
  <2>2. step \notin Before /\ step \notin {"failed", "answered"}
    BY <2>1 DEF ClientIsOrdered, LeavesNoConnection
  <2>3. ExtTypeOK' /\ ClientIsOrdered'
    BY <2>1, <2>2, <1>h DEF ExtTypeOK, ClientIsOrdered, Before
  <2>4. DialsOnlyTheWriter' /\ LeavesNoConnection'
    BY <2>1, <2>2, <1>h DEF DialsOnlyTheWriter, LeavesNoConnection
  <2> QED BY <2>3, <2>4
<1>10. CASE TaskEnds \/ ApprovalTimesOut
  <2>1. /\ step = "await" /\ step' \in {"session", "close"} /\ given' \in BOOLEAN
        /\ UNCHANGED <<path, proved, family, task, peer, well>>
    BY <1>10 DEF TaskEnds, ApprovalTimesOut, ExtTypeOK
  <2>2. ExtTypeOK' /\ ClientIsOrdered'
    BY <2>1, <1>h DEF ExtTypeOK, ClientIsOrdered, Before
  <2>3. DialsOnlyTheWriter' /\ LeavesNoConnection'
    BY <2>1, <1>h DEF DialsOnlyTheWriter, LeavesNoConnection
  <2> QED BY <2>2, <2>3
<1>11. CASE Drive
  <2>1. /\ step \in {"session", "body", "detach"} /\ step' \in {"body", "detach", "close"}
        /\ well' \in BOOLEAN
        /\ UNCHANGED <<path, proved, family, task, peer, given>>
    BY <1>11 DEF Drive, ExtTypeOK
  <2>2. ExtTypeOK' /\ ClientIsOrdered'
    BY <2>1, <1>h DEF ExtTypeOK, ClientIsOrdered, Before
  <2>3. DialsOnlyTheWriter' /\ LeavesNoConnection'
    BY <2>1, <1>h DEF DialsOnlyTheWriter, LeavesNoConnection
  <2> QED BY <2>2, <2>3
<1>12. CASE Close
  <2>1. /\ step = "close" /\ step' \in {"answered", "failed"}
        /\ peer' = None
        /\ task' = IF task \in {"handshake", "verify"} THEN "failed" ELSE task
        /\ UNCHANGED <<path, proved, family, given, well>>
    BY <1>12 DEF Close, ClosesWhatIsOpen
  <2>2. ExtTypeOK' /\ ClientIsOrdered'
    BY <2>1, <1>h DEF ExtTypeOK, ClientIsOrdered, Before
  <2>3. DialsOnlyTheWriter'
    BY <2>1, <1>h DEF DialsOnlyTheWriter
  <2>4. LeavesNoConnection'
    BY <2>1, <1>h DEF ExtTypeOK, LeavesNoConnection, Gone
  <2> QED BY <2>2, <2>3, <2>4
<1> QED BY <1>1, <1>2, <1>3, <1>4, <1>5, <1>6, <1>7, <1>8, <1>9, <1>10, <1>11, <1>12 DEF ExtStep

-----------------------------------------------------------------------------
(* stop.  Whoever is about to be signalled is the browser's, unless the id   *)
(* changed hands; and no helper comes without its browser.                   *)

StopTyped ==
  /\ proc \in [Pids -> Running \cup {"absent", "zombie"}]
  /\ pid \in Pids /\ left \subseteq Pids /\ moved \in BOOLEAN /\ harmed \in BOOLEAN
  /\ kept \in BOOLEAN /\ tabs \subseteq Tabs /\ tab \in Tabs \cup {"none"}

StopIsOrdered ==
  /\ (doing = "signal" /\ ~moved) => proc[pid] \in Ours
  /\ doing = "retire" => Holders = {}
  /\ doing # "over" => kept /\ told = "nothing"
  /\ tab # "none" => doing \in {"tab", "over"}

StopInv == StopTyped /\ StopIsOrdered /\ HarmsNobody /\ RetiresTheGone /\ ClosesThatTab

LEMMA StopStart == StopInit => StopInv
<1> SUFFICES ASSUME StopInit PROVE StopInv
  OBVIOUS
<1>1. StopTyped
  BY DEF StopInit, StopTyped, Pids, Running, Ours
<1>2. StopIsOrdered
  BY DEF StopInit, StopIsOrdered
<1> QED BY <1>1, <1>2 DEF StopInit, StopInv, HarmsNobody, RetiresTheGone, ClosesThatTab

LEMMA StopKept == StopInv /\ UNCHANGED stopVars => StopInv'
BY DEF StopInv, StopTyped, StopIsOrdered, HarmsNobody, RetiresTheGone, ClosesThatTab, Holders,
       stopVars

LEMMA StopPreserved == StopInv /\ StopNext => StopInv'
<1> SUFFICES ASSUME StopInv, StopNext PROVE StopInv'
  OBVIOUS
<1> USE DEF StopInv, Phase, Says
<1>o. doing # "over" /\ kept /\ told = "nothing"
  BY DEF StopNext, StopIsOrdered
(* The host, under the id p. *)
<1>b. ASSUME NEW p \in Pids, NEW what \in {"helper", "stranger", "absent"}, Becomes(p, what),
             what = "helper" => proc[1] = "main"
      PROVE  StopInv'
  <2>1. /\ proc' = [proc EXCEPT ![p] = what] /\ moved' = (moved \/ p = pid)
        /\ UNCHANGED <<doing, left, pid, signal, start, harmed, kept, tabs, tab, told>>
    BY <1>b DEF Becomes
  <2>2. StopTyped'
    BY <2>1 DEF StopTyped, Running, Ours
  <2>3. (doing = "signal" /\ ~moved') => proc'[pid] \in Ours
    BY <2>1 DEF StopIsOrdered, StopTyped
  <2>4. Holders = {} => Holders' = {}
    <3> SUFFICES ASSUME Holders = {}, NEW q \in Pids, proc'[q] \in Ours PROVE FALSE
      BY DEF Holders
    <3>1. proc[q] \notin Ours /\ proc[1] \notin Ours
      BY DEF Holders, Pids
    <3>2. q = p /\ what \in Ours
      BY <2>1, <3>1 DEF StopTyped
    <3>3. what = "helper"
      BY <3>2 DEF Ours
    <3> QED BY <3>1, <3>3, <1>b DEF Ours
  <2>5. StopIsOrdered'
    BY <2>1, <2>3, <2>4 DEF StopIsOrdered
  <2> QED BY <2>1, <2>2, <2>4, <2>5, <1>o DEF HarmsNobody, RetiresTheGone, ClosesThatTab
<1>1. ASSUME NEW p \in Pids, ProcessExits(p) \/ Reaped(p) \/ TakesId(p) PROVE StopInv'
  <2>1. CASE ProcessExits(p) \/ Reaped(p)
    BY <2>1, <1>b DEF ProcessExits, Reaped
  <2>2. CASE TakesId(p)
    <3>1. Becomes(p, "stranger") \/ (proc[1] = "main" /\ Becomes(p, "helper"))
      BY <2>2 DEF TakesId
    <3> QED BY <3>1, <1>b DEF Running, Ours
  <2> QED BY <1>1, <2>1, <2>2
<1>2. CASE TabCloses
  <2>1. /\ tabs' \subseteq tabs
        /\ UNCHANGED <<proc, doing, left, pid, start, moved, harmed, kept, tab, told>>
    BY <1>2 DEF TabCloses
  <2> QED BY <2>1, <1>o DEF StopTyped, StopIsOrdered, HarmsNobody, RetiresTheGone, ClosesThatTab, Holders
(* What stop reads leaves processes, entry and tabs alone. *)
<1>r. ASSUME Others, left' \subseteq Pids, pid' \in Pids, moved' \in BOOLEAN,
             doing' # "signal" \/ proc[pid'] \in Ours, doing' = "retire" => Holders = {},
             doing' = "over" \/ told' = "nothing", told' # "closed",
             tab = "none"
      PROVE  StopInv'
  <2>1. UNCHANGED <<proc, kept, tabs, tab, harmed>>
    BY <1>r DEF Others
  <2>2. StopTyped' /\ StopIsOrdered'
    BY <1>r, <2>1, <1>o DEF StopTyped, StopIsOrdered, Holders
  <2> QED BY <2>1, <2>2, <1>r, <1>o DEF HarmsNobody, RetiresTheGone, ClosesThatTab
<1>t. doing \notin {"tab", "over"} => tab = "none"
  BY DEF StopIsOrdered
<1>3. CASE FindsHolders
  BY <1>3, <1>r, <1>t, <1>o DEF FindsHolders, Unknown, Holders, StopTyped
<1>4. CASE TakesNext
  BY <1>4, <1>r, <1>t, <1>o DEF TakesNext, StopTyped
<1>5. CASE Proves
  <2>1. /\ doing = "prove" /\ Others /\ moved' = FALSE /\ UNCHANGED <<left, pid, told>>
        /\ doing' \in {"next", "signal", "wait in vain"}
        /\ doing' = "signal" => proc[pid] \in Ours
    BY <1>5 DEF Proves, Proved
  <2> QED BY <2>1, <1>r, <1>t, <1>o DEF StopTyped
<1>6. CASE Waits
  BY <1>6, <1>r, <1>t, <1>o DEF Waits, Unknown, StopTyped
<1>7. CASE VerifiesExit
  BY <1>7, <1>r, <1>t, <1>o DEF VerifiesExit, Unknown, Remaining, StopTyped
<1>8. CASE ClosesOverCdp
  <2>1. /\ doing = "close" /\ doing' = "prove"
        /\ proc' \in [Pids -> Running \cup {"absent", "zombie"}]
        /\ UNCHANGED <<left, pid, moved, harmed, kept, tabs, tab, told>>
    BY <1>8 DEF ClosesOverCdp, StopTyped
  <2> QED BY <2>1, <1>o DEF StopTyped, StopIsOrdered, HarmsNobody, RetiresTheGone, ClosesThatTab
<1>9. CASE Signals
  <2>1. /\ doing = "signal" /\ doing' = "wait"
        /\ harmed' = (harmed \/ (proc[pid] = "stranger" /\ ~moved))
        /\ proc' \in {proc, [proc EXCEPT ![pid] = IF Alive(pid) THEN "zombie" ELSE @]}
        /\ UNCHANGED <<left, pid, moved, kept, tabs, tab, told>>
    BY <1>9 DEF Signals
  <2>2. ~(proc[pid] = "stranger" /\ ~moved)
    BY <2>1 DEF StopIsOrdered, Ours
  <2>3. ~harmed'
    BY <2>1, <2>2 DEF HarmsNobody
  <2>4. StopTyped'
    BY <2>1, <2>3 DEF StopTyped
  <2> QED BY <2>1, <2>3, <2>4, <1>o DEF StopIsOrdered, HarmsNobody, RetiresTheGone, ClosesThatTab
<1>10. CASE Retires
  <2>1. /\ doing = "retire" /\ kept' = FALSE /\ doing' = "over" /\ told' = "stopped"
        /\ UNCHANGED <<proc, left, pid, moved, harmed, tabs, tab>>
    BY <1>10 DEF Retires
  <2>2. Holders' = {} /\ tab = "none"
    BY <2>1 DEF StopIsOrdered, Holders
  <2> QED BY <2>1, <2>2 DEF StopTyped, StopIsOrdered, HarmsNobody, RetiresTheGone, ClosesThatTab
<1>11. CASE ResolvesTab
  <2>1. /\ doing = "names a tab"
        /\ \/ doing' = "over" /\ told' \in {"not live", "no tab"} /\ tab' = tab
           \/ doing' = "tab" /\ told' = told /\ tab' \in tabs
        /\ UNCHANGED <<proc, left, pid, moved, harmed, kept, tabs>>
    BY <1>11 DEF ResolvesTab
  <2> QED BY <2>1, <1>o DEF StopTyped, StopIsOrdered, HarmsNobody, RetiresTheGone, ClosesThatTab
<1>12. CASE ClosesTab
  <2>1. /\ doing' = "over" /\ told' \in {"closed", "not closed"}
        /\ told' = "closed" => tab \notin tabs'
        /\ tabs' \subseteq tabs
        /\ UNCHANGED <<proc, left, pid, moved, harmed, kept, tab>>
    BY <1>12 DEF ClosesTab
  <2> QED BY <2>1, <1>o DEF StopTyped, StopIsOrdered, HarmsNobody, RetiresTheGone, ClosesThatTab
<1> QED BY <1>1, <1>2, <1>3, <1>4, <1>5, <1>6, <1>7, <1>8, <1>9, <1>10, <1>11, <1>12
        DEF StopNext, StopStep

-----------------------------------------------------------------------------
(* A profile.  Until somebody takes the way back, the durable root has the   *)
(* whole profile or nothing, and then the old root has it.                   *)

Contents == [there : BOOLEAN, has : SUBSET Files]
Places == {"idle", "destination", "source", "opens", "transfer", "listing", "copying", "rename",
           "remove"}

MoveTyped ==
  /\ root \in [Roots -> Contents] /\ staging \in [Movers -> Contents]
  /\ place \in [Movers -> Places]
  /\ kind \in [Movers -> {"launch", "migrate", "back"}]
  /\ todo \in [Movers -> SUBSET Files]
  /\ opened \in Contents
  /\ \A r \in Roots : ~root[r].there => root[r].has = {}

Whole == IF root["durable"].there THEN root["durable"].has = Files ELSE root["old"].has = Files

NobodyBack == \A m \in Movers : kind[m] # "back"

(* The way back is gone alone, and only its removal touches what is whole.   *)
BackIsAlone ==
  \A m \in Movers :
     kind[m] = "back" => /\ \A n \in Movers \ {m} : place[n] = "idle" /\ kind[n] # "back"
                         /\ place[m] \notin {"idle", "remove"} => Whole
                         /\ place[m] = "remove" => root["old"].has = Files
                         /\ place[m] # "opens"

ForwardIsWhole ==
  NobodyBack => /\ Whole
                /\ \A m \in Movers : place[m] \in {"remove", "opens"} => root["durable"].there

(* A copy that can still be renamed into place will be whole.                *)
CopyIsWhole ==
  \A m \in Movers :
     root[To(m)].has = {} =>
       /\ place[m] = "copying" => staging[m].there /\ staging[m].has \cup todo[m] = Files
       /\ place[m] = "rename" => staging[m] = Holding(Files)

MoveInv == /\ MoveTyped /\ BackIsAlone /\ ForwardIsWhole /\ CopyIsWhole
           /\ LoginSurvives /\ LaunchesWhole

LEMMA ContentsType ==
  ASSUME NEW x \in Contents
  PROVE  /\ x.there \in BOOLEAN /\ x.has \subseteq Files
         /\ x = [there |-> x.there, has |-> x.has]
         /\ \A h \in SUBSET Files : /\ [x EXCEPT !.has = h] \in Contents
                                    /\ [x EXCEPT !.has = h].there = x.there
                                    /\ [x EXCEPT !.has = h].has = h
         /\ [x EXCEPT !.there = TRUE] = [there |-> TRUE, has |-> x.has]
<1>1. x = [there |-> x.there, has |-> x.has] /\ x.there \in BOOLEAN /\ x.has \subseteq Files
  BY DEF Contents
<1>2. ASSUME NEW h \in SUBSET Files
      PROVE  [x EXCEPT !.has = h] = [there |-> x.there, has |-> h]
  <2>1. [[there |-> x.there, has |-> x.has] EXCEPT !.has = h] = [there |-> x.there, has |-> h]
    OBVIOUS
  <2> QED BY <2>1, <1>1, Zenon
<1>3. [x EXCEPT !.there = TRUE] = [there |-> TRUE, has |-> x.has]
  <2>1. ASSUME NEW t PROVE [x EXCEPT !.there = t] = [there |-> t, has |-> x.has]
    <3>1. [[there |-> x.there, has |-> x.has] EXCEPT !.there = t] = [there |-> t, has |-> x.has]
      OBVIOUS
    <3> QED BY <3>1, <1>1, Zenon
  <2> QED BY <2>1, Zenon
<1> QED BY <1>1, <1>2, <1>3 DEF Contents

LEMMA ContentsMade ==
  /\ Absent \in Contents /\ Absent.there = FALSE /\ Absent.has = {}
  /\ \A h \in SUBSET Files : /\ Holding(h) \in Contents
                             /\ Holding(h).there = TRUE /\ Holding(h).has = h
  /\ Files # {}
BY DEF Absent, Holding, Contents, Files

LEMMA MoveStart == MoveInit => MoveInv
<1> SUFFICES ASSUME MoveInit PROVE MoveInv
  OBVIOUS
<1> USE ContentsMade
<1>1. \/ root["old"] = Holding(Files) /\ root["durable"] = Absent
      \/ root["old"] = Absent /\ root["durable"] = Holding(Files)
  BY DEF MoveInit
<1>2. root \in [Roots -> Contents]
  <2>1. CASE root = [old |-> Holding(Files), durable |-> Absent]
    BY <2>1 DEF Roots
  <2>2. CASE root = [old |-> Absent, durable |-> Holding(Files)]
    BY <2>2 DEF Roots
  <2> QED BY <2>1, <2>2 DEF MoveInit
<1>3. MoveTyped
  BY <1>1, <1>2 DEF MoveInit, MoveTyped, Places, Roots
<1>4. Whole /\ LoginSurvives
  BY <1>1 DEF Whole, LoginSurvives, Roots
<1>5. BackIsAlone /\ ForwardIsWhole /\ CopyIsWhole /\ LaunchesWhole
  BY <1>4 DEF MoveInit, BackIsAlone, ForwardIsWhole, CopyIsWhole, LaunchesWhole
<1> QED BY <1>3, <1>4, <1>5 DEF MoveInv

LEMMA MoveKept == MoveInv /\ UNCHANGED moveVars => MoveInv'
BY DEF MoveInv, MoveTyped, BackIsAlone, ForwardIsWhole, CopyIsWhole, LoginSurvives, LaunchesWhole,
       Whole, NobodyBack, To, moveVars

(* Who is on the way finds the profile whole. *)
LEMMA OnTheWay ==
  ASSUME MoveInv, NEW m \in Movers, place[m] \notin {"idle", "remove"}
  PROVE  /\ Whole
         /\ kind[m] # "back" => NobodyBack
         /\ root[To(m)].has = {} => root[From(m)].has = Files
<1>1. Whole /\ (kind[m] # "back" => NobodyBack)
  BY DEF MoveInv, BackIsAlone, ForwardIsWhole, NobodyBack
<1> QED BY <1>1, ContentsMade DEF Whole, To, From, MoveInv, MoveTyped, Roots

(* A mover goes on, and what the roots hold stays. *)
LEMMA MoverGoesOn ==
  ASSUME MoveInv, UNCHANGED <<root, kind, opened>>, NEW m \in Movers,
         place' \in [Movers -> Places], staging' \in [Movers -> Contents],
         todo' \in [Movers -> SUBSET Files],
         \A n \in Movers \ {m} : /\ place'[n] = place[n] /\ staging'[n] = staging[n]
                                 /\ todo'[n] = todo[n],
         place'[m] = "idle" \/ (place[m] \notin {"idle", "remove"} /\ place'[m] # "remove"),
         place'[m] = "opens" => kind[m] = "launch" /\ root["durable"].there,
         root[To(m)].has = {} =>
            /\ place'[m] = "copying" => staging'[m].there /\ staging'[m].has \cup todo'[m] = Files
            /\ place'[m] = "rename" => staging'[m] = Holding(Files)
  PROVE  MoveInv'
<1> USE DEF MoveInv
<1>1. MoveTyped'
  BY DEF MoveTyped
<1>2. Whole' = Whole /\ NobodyBack' = NobodyBack /\ LoginSurvives' /\ LaunchesWhole'
  BY DEF Whole, NobodyBack, LoginSurvives, LaunchesWhole
<1>3. BackIsAlone'
  BY <1>2, OnTheWay DEF BackIsAlone
<1>4. ForwardIsWhole'
  BY <1>2 DEF ForwardIsWhole
<1>5. CopyIsWhole'
  BY DEF CopyIsWhole, To
<1> QED BY <1>1, <1>2, <1>3, <1>4, <1>5

LEMMA MovePreserved == MoveInv /\ MoveNext => MoveInv'
<1> SUFFICES ASSUME MoveInv, MoveNext PROVE MoveInv'
  OBVIOUS
<1> USE ContentsMade
<1>t. MoveTyped
  BY DEF MoveInv
<1>1. CASE BrowserStops
  <2>1. UNCHANGED <<root, staging, place, kind, todo, opened>>
    BY <1>1 DEF BrowserStops
  <2> QED BY <2>1 DEF MoveInv, MoveTyped, BackIsAlone, ForwardIsWhole, CopyIsWhole, LoginSurvives,
                      LaunchesWhole, Whole, NobodyBack, To
<1>2. ASSUME NEW m \in Movers,
             \/ Start(m) \/ SeesDestination(m) \/ SeesSource(m) \/ TransferStarts(m)
             \/ ListsSource(m) \/ CopyFile(m) \/ VerifyTransfer(m) \/ Rename(m)
             \/ RemoveSource(m) \/ Opens(m) \/ Dies(m)
      PROVE  MoveInv'
  <2>m. /\ root[To(m)] \in Contents /\ root[From(m)] \in Contents /\ staging[m] \in Contents
        /\ kind[m] \in {"launch", "migrate", "back"} /\ To(m) \in Roots /\ From(m) \in Roots
        /\ root["old"] \in Contents /\ root["durable"] \in Contents /\ todo[m] \subseteq Files
    BY <1>t DEF MoveTyped, To, From, Roots
  <2>l. ASSUME NEW s \in Places, Leave(m, s), place[m] \notin {"idle", "remove"}, s # "remove",
               s = "opens" => kind[m] = "launch" /\ root["durable"].there,
               s # "copying",
               (root[To(m)].has = {} /\ s = "rename") => staging[m] = Holding(Files)
        PROVE  MoveInv'
    <3>1. /\ place' = [place EXCEPT ![m] = s] /\ UNCHANGED <<root, staging, kind, todo, opened>>
      BY <2>l DEF Leave, Goes
    <3>2. place' \in [Movers -> Places] /\ place'[m] = s /\ \A n \in Movers \ {m} : place'[n] = place[n]
      BY <3>1, <1>t DEF MoveTyped
    <3> QED BY <3>1, <3>2, <2>l, <1>t, MoverGoesOn DEF MoveTyped
  <2>d. ASSUME Discards(m) PROVE MoveInv'
    <3>1. /\ place' = [place EXCEPT ![m] = "idle"] /\ staging' = [staging EXCEPT ![m] = Absent]
          /\ UNCHANGED <<root, kind, todo, opened>>
      BY <2>d DEF Discards, Goes
    <3>2. /\ place' \in [Movers -> Places] /\ place'[m] = "idle"
          /\ staging' \in [Movers -> Contents]
          /\ \A n \in Movers \ {m} : place'[n] = place[n] /\ staging'[n] = staging[n]
      BY <3>1, <1>t DEF MoveTyped, Places
    <3> QED BY <3>1, <3>2, <1>t, MoverGoesOn DEF MoveTyped
  <2>1. CASE Start(m)
    <3>1. PICK k \in {"launch", "migrate", "back"} :
            /\ k = "back" => \A n \in Movers : place[n] = "idle"
            /\ \A n \in Movers : kind[n] # "back"
            /\ kind' = [kind EXCEPT ![m] = k]
      BY <2>1 DEF Start
    <3>2. /\ place' = [place EXCEPT ![m] = "destination"]
          /\ UNCHANGED <<root, staging, todo, opened>>
      BY <2>1 DEF Start, Goes
    <3>3. /\ MoveTyped'
          /\ kind'[m] = k /\ place'[m] = "destination"
          /\ \A n \in Movers \ {m} : kind'[n] = kind[n] /\ place'[n] = place[n]
      BY <3>1, <3>2, <1>t DEF MoveTyped, Places
    <3>4. Whole /\ Whole'
      BY <3>1, <3>2 DEF MoveInv, ForwardIsWhole, NobodyBack, Whole
    <3>5. BackIsAlone'
      BY <3>1, <3>3, <3>4 DEF BackIsAlone
    <3>6. ForwardIsWhole'
      BY <3>1, <3>2, <3>3, <3>4 DEF MoveInv, ForwardIsWhole, NobodyBack
    <3>7. CopyIsWhole'
      <4>1. \A n \in Movers \ {m} : To(n)' = To(n)
        BY <3>3 DEF To
      <4> QED BY <4>1, <3>2, <3>3 DEF MoveInv, CopyIsWhole
    <3>8. LoginSurvives' /\ LaunchesWhole'
      BY <3>2 DEF MoveInv, LoginSurvives, LaunchesWhole
    <3> QED BY <3>3, <3>5, <3>6, <3>7, <3>8 DEF MoveInv
  <2>2. CASE SeesDestination(m)
    <3>1. /\ place[m] = "destination"
          /\ \E s \in {"source", "opens", "idle"} :
               Leave(m, s) /\ (s = "opens" => root[To(m)].there /\ kind[m] = "launch")
      BY <2>2 DEF SeesDestination
    <3> QED BY <3>1, <2>l DEF To, Places
  <2>3. CASE SeesSource(m)
    <3>1. /\ place[m] = "source"
          /\ \E s \in {"transfer", "opens", "idle"} :
               Leave(m, s) /\ (s = "opens" => ~root[From(m)].there /\ kind[m] = "launch")
      BY <2>3 DEF SeesSource
    <3>2. (~root[From(m)].there /\ kind[m] = "launch") => root["durable"].there
      <4>1. Whole
        BY <3>1, OnTheWay
      <4> QED BY <4>1, <1>t DEF Whole, From, MoveTyped, Roots
    <3> QED BY <3>1, <3>2, <2>l DEF Places
  <2>4. CASE TransferStarts(m)
    BY <2>4, <2>l, <2>d DEF TransferStarts, Places
  <2>5. CASE ListsSource(m)
    <3>1. CASE ~root[From(m)].there
      BY <2>5, <3>1, <2>d DEF ListsSource
    <3>2. CASE root[From(m)].there
      <4>1. /\ place[m] = "listing"
            /\ place' = [place EXCEPT ![m] = "copying"]
            /\ staging' = [staging EXCEPT ![m] = Holding({})]
            /\ todo' = [todo EXCEPT ![m] = root[From(m)].has]
            /\ UNCHANGED <<root, kind, opened>>
        BY <2>5, <3>2 DEF ListsSource, Goes
      <4>2. root[To(m)].has = {} => root[From(m)].has = Files
        BY <4>1, OnTheWay
      <4>3. /\ place' \in [Movers -> Places] /\ place'[m] = "copying"
            /\ staging' \in [Movers -> Contents] /\ staging'[m] = Holding({})
            /\ todo' \in [Movers -> SUBSET Files] /\ todo'[m] = root[From(m)].has
            /\ \A n \in Movers \ {m} : /\ place'[n] = place[n] /\ staging'[n] = staging[n]
                                       /\ todo'[n] = todo[n]
        <5>1. Holding({}) \in Contents /\ root[From(m)].has \in SUBSET Files
          BY <2>m, ContentsType
        <5>2. /\ place' \in [Movers -> Places] /\ place'[m] = "copying"
              /\ \A n \in Movers \ {m} : place'[n] = place[n]
          BY <4>1, <1>t DEF MoveTyped, Places
        <5>3. /\ staging' \in [Movers -> Contents] /\ staging'[m] = Holding({})
              /\ \A n \in Movers \ {m} : staging'[n] = staging[n]
          BY <4>1, <5>1, <1>t DEF MoveTyped
        <5>4. /\ todo' \in [Movers -> SUBSET Files] /\ todo'[m] = root[From(m)].has
              /\ \A n \in Movers \ {m} : todo'[n] = todo[n]
          BY <4>1, <5>1, <1>t DEF MoveTyped
        <5> QED BY <5>2, <5>3, <5>4
      <4>4. staging'[m].there /\ staging'[m].has \cup todo'[m] = root[From(m)].has
        BY <4>3
      <4> QED BY <4>1, <4>2, <4>3, <4>4, MoverGoesOn
    <3> QED BY <3>1, <3>2
  <2>6. CASE CopyFile(m)
    <3>1. PICK f \in todo[m] :
            IF f \in root[From(m)].has
            THEN /\ staging' = [staging EXCEPT ![m].has = @ \cup {f}]
                 /\ todo' = [todo EXCEPT ![m] = @ \ {f}]
                 /\ UNCHANGED <<root, place, kind, opened>>
            ELSE Discards(m)
      BY <2>6 DEF CopyFile
    <3>2. CASE f \in root[From(m)].has
      <4>1. place[m] = "copying" /\ place'[m] = "copying" /\ f \in Files
        BY <2>6, <3>1, <3>2, <2>m DEF CopyFile
      <4>2. /\ staging' = [staging EXCEPT ![m] = [staging[m] EXCEPT !.has = staging[m].has \cup {f}]]
            /\ todo'[m] = todo[m] \ {f}
        BY <3>1, <3>2, <1>t DEF MoveTyped
      <4> DEFINE c == [staging[m] EXCEPT !.has = staging[m].has \cup {f}]
      <4>3. staging[m].has \cup {f} \in SUBSET Files
        <5>1. staging[m].has \subseteq Files
          BY <2>m, ContentsType
        <5> QED BY <5>1, <4>1
      <4>4. c \in Contents /\ c.there = staging[m].there /\ c.has = staging[m].has \cup {f}
        <5>1. staging[m] \in Contents
          BY <2>m
        <5> QED BY ONLY <5>1, <4>3, ContentsType DEF c
      <4> HIDE DEF c
      <4>7. staging' = [staging EXCEPT ![m] = c]
        BY <4>2 DEF c
      <4>5. /\ place' \in [Movers -> Places] /\ todo' \in [Movers -> SUBSET Files]
            /\ staging' \in [Movers -> Contents]
            /\ \A n \in Movers \ {m} : /\ place'[n] = place[n] /\ staging'[n] = staging[n]
                                       /\ todo'[n] = todo[n]
        <5>1. staging' \in [Movers -> Contents] /\ \A n \in Movers \ {m} : staging'[n] = staging[n]
          BY <4>7, <4>4, <1>t DEF MoveTyped
        <5>2. todo' = [todo EXCEPT ![m] = todo[m] \ {f}] /\ todo[m] \ {f} \in SUBSET Files
          BY <3>1, <3>2, <2>m
        <5>3. todo' \in [Movers -> SUBSET Files] /\ \A n \in Movers \ {m} : todo'[n] = todo[n]
          BY <5>2, <1>t DEF MoveTyped
        <5>4. place' \in [Movers -> Places] /\ \A n \in Movers \ {m} : place'[n] = place[n]
          BY <3>1, <3>2, <1>t DEF MoveTyped
        <5> QED BY <5>1, <5>3, <5>4
      <4>6. root[To(m)].has = {} => staging'[m].there /\ staging'[m].has \cup todo'[m] = Files
        <5>1. staging'[m] = c
          BY <4>7, <1>t DEF MoveTyped
        <5>2. root[To(m)].has = {} => staging[m].there /\ staging[m].has \cup todo[m] = Files
          BY <4>1 DEF MoveInv, CopyIsWhole
        <5> QED BY <5>1, <5>2, <4>1, <4>2, <4>4
      <4> QED BY <3>1, <3>2, <4>1, <4>5, <4>6, MoverGoesOn
    <3>3. CASE f \notin root[From(m)].has
      BY <3>1, <3>3, <2>d
    <3> QED BY <3>2, <3>3
  <2>7. CASE VerifyTransfer(m)
    <3>1. place[m] = "copying" /\ todo[m] = {} /\ (Leave(m, "rename") \/ Discards(m))
      BY <2>7 DEF VerifyTransfer
    <3>2. root[To(m)].has = {} => staging[m] = Holding(Files)
      <4>1. root[To(m)].has = {} => staging[m].there = TRUE /\ staging[m].has = Files
        <5>1. staging[m].there \in BOOLEAN
          BY <2>m, ContentsType
        <5>2. root[To(m)].has = {} => staging[m].there /\ staging[m].has \cup todo[m] = Files
          BY <3>1 DEF MoveInv, CopyIsWhole
        <5> QED BY <5>1, <5>2, <3>1
      <4> QED BY <4>1, <2>m, ContentsType DEF Holding
    <3> QED BY <3>1, <3>2, <2>l, <2>d DEF Places
  <2>8. CASE Rename(m)
    <3>1. CASE root[To(m)].has # {}
      BY <2>8, <3>1, <2>d DEF Rename, Free
    <3>2. CASE root[To(m)].has = {}
      <4>1. /\ place[m] = "rename" /\ root' = [root EXCEPT ![To(m)] = staging[m]]
            /\ place' = [place EXCEPT ![m] = "remove"]
            /\ staging' = [staging EXCEPT ![m] = Absent]
            /\ UNCHANGED <<kind, todo, opened>>
        BY <2>8, <3>2 DEF Rename, Free, Goes
      <4>2. staging[m] = Holding(Files)
        BY <4>1, <3>2 DEF MoveInv, CopyIsWhole
      <4>3. /\ root'[To(m)].there /\ root'[To(m)].has = Files /\ root'[From(m)] = root[From(m)]
            /\ place'[m] = "remove"
            /\ \A n \in Movers \ {m} : place'[n] = place[n] /\ staging'[n] = staging[n]
        BY <4>1, <4>2, <2>m, <1>t DEF MoveTyped, To, From
      <4>4. MoveTyped'
        <5>1. /\ root' \in [Roots -> Contents] /\ place' \in [Movers -> Places]
              /\ staging' \in [Movers -> Contents]
          BY <4>1, <2>m, <1>t DEF MoveTyped, Places
        <5>2. \A r \in Roots : ~root'[r].there => root'[r].has = {}
          BY <4>1, <4>3, <1>t DEF MoveTyped
        <5> QED BY <5>1, <5>2, <4>1, <1>t DEF MoveTyped
      <4>5. kind[m] # "back" => NobodyBack /\ NobodyBack'
        BY <4>1, OnTheWay DEF NobodyBack
      <4>6. BackIsAlone'
        <5>1. \A n \in Movers \ {m} : kind[n] # "back"
          BY <4>1 DEF MoveInv, BackIsAlone
        <5>2. kind[m] = "back" => /\ root'["old"].has = Files
                                  /\ \A n \in Movers \ {m} : place[n] = "idle" /\ kind[n] # "back"
          BY <4>3 DEF To, MoveInv, BackIsAlone
        <5> QED BY <5>1, <5>2, <4>1, <4>3 DEF BackIsAlone
      <4>7. ForwardIsWhole'
        <5>1. NobodyBack' => root'["durable"].there /\ root'["durable"].has = Files
          BY <4>1, <4>3 DEF NobodyBack, To
        <5> QED BY <5>1 DEF ForwardIsWhole, Whole
      <4>8. CopyIsWhole'
        <5> SUFFICES ASSUME NEW n \in Movers, root'[To(n)'].has = {}, place'[n] \in {"copying", "rename"}
                     PROVE  FALSE
          BY DEF CopyIsWhole
        <5>1. n # m /\ place[n] # "idle" /\ To(n)' = To(n)
          BY <4>1, <4>3 DEF To
        <5>2. kind[m] # "back" /\ kind[n] # "back"
          BY <5>1, <4>1 DEF MoveInv, BackIsAlone
        <5> QED BY <5>1, <5>2, <4>3 DEF To
      <4>9. LoginSurvives' /\ LaunchesWhole'
        BY <4>1, <4>3, <2>m DEF MoveInv, LoginSurvives, LaunchesWhole
      <4> QED BY <4>4, <4>6, <4>7, <4>8, <4>9 DEF MoveInv
    <3> QED BY <3>1, <3>2
  <2>9. CASE RemoveSource(m)
    <3>1. /\ place[m] = "remove" /\ UNCHANGED <<staging, kind, todo, opened>>
      BY <2>9 DEF RemoveSource
    <3>2. \E x \in Contents : /\ root' = [root EXCEPT ![From(m)] = x]
                              /\ ~x.there => x.has = {}
      <4>1. CASE root[From(m)].has # {}
        <5>1. PICK f \in root[From(m)].has : root' = [root EXCEPT ![From(m)].has = @ \ {f}]
          BY <2>9, <4>1 DEF RemoveSource
        <5>2. root' = [root EXCEPT ![From(m)] = [root[From(m)] EXCEPT !.has = @ \ {f}]]
          BY <5>1
        <5>3. root[From(m)].has \ {f} \in SUBSET Files
          BY <2>m, ContentsType
        <5>4. root[From(m)].there
          BY <4>1, <2>m, <1>t DEF MoveTyped
        <5> DEFINE x == [root[From(m)] EXCEPT !.has = root[From(m)].has \ {f}]
        <5>5. x \in Contents /\ x.there
          BY <5>3, <5>4, <2>m, ContentsType
        <5>6. root' = [root EXCEPT ![From(m)] = x]
          BY <5>2
        <5> HIDE DEF x
        <5> QED BY <5>5, <5>6
      <4>2. CASE root[From(m)].has = {}
        BY <2>9, <4>2 DEF RemoveSource
      <4> QED BY <4>1, <4>2
    <3>3. PICK x \in Contents : root' = [root EXCEPT ![From(m)] = x] /\ (~x.there => x.has = {})
      BY <3>2
    <3>4. /\ place' \in [Movers -> Places]
          /\ \A n \in Movers \ {m} : place'[n] = place[n]
          /\ place'[m] \in {"remove", "opens", "idle"}
          /\ place'[m] = "opens" => kind[m] = "launch"
      <4>1. place' = place \/ place' = [place EXCEPT ![m] = IF kind[m] = "launch" THEN "opens" ELSE "idle"]
        BY <2>9 DEF RemoveSource, Goes
      <4> QED BY <4>1, <3>1, <1>t DEF MoveTyped, Places
    <3>5. MoveTyped'
      <4>1. root' \in [Roots -> Contents] /\ \A r \in Roots : ~root'[r].there => root'[r].has = {}
        BY <3>3, <1>t DEF MoveTyped
      <4> QED BY <4>1, <3>1, <3>4, <1>t DEF MoveTyped
    <3>6. root'[To(m)] = root[To(m)]
      BY <3>3, <1>t, <2>m DEF To, From, MoveTyped
    <3>7. CASE kind[m] = "back"
      <4>1. /\ \A n \in Movers \ {m} : place[n] = "idle" /\ kind[n] # "back"
            /\ root["old"].has = Files
        BY <3>1, <3>7 DEF MoveInv, BackIsAlone
      <4>2. root'["old"].has = Files
        BY <3>6, <3>7, <4>1 DEF To
      <4>3. place'[m] \in {"remove", "idle"}
        BY <3>4, <3>7
      <4>4. BackIsAlone'
        BY <3>1, <3>4, <4>1, <4>2, <4>3 DEF BackIsAlone
      <4>5. ForwardIsWhole'
        BY <3>1, <3>7 DEF ForwardIsWhole, NobodyBack
      <4>6. CopyIsWhole'
        BY <3>1, <3>4, <4>1, <4>3 DEF CopyIsWhole
      <4>7. LoginSurvives' /\ LaunchesWhole'
        BY <3>1, <4>2 DEF MoveInv, LoginSurvives, LaunchesWhole, Roots
      <4> QED BY <3>5, <4>4, <4>5, <4>6, <4>7 DEF MoveInv
    <3>8. CASE kind[m] # "back"
      <4>1. NobodyBack
        BY <3>1, <3>8 DEF MoveInv, BackIsAlone, NobodyBack
      <4>2. root["durable"].there /\ root["durable"].has = Files
        BY <3>1, <4>1 DEF MoveInv, ForwardIsWhole, Whole
      <4>3. root'["durable"] = root["durable"]
        BY <3>6, <3>8 DEF To
      <4>4. BackIsAlone'
        BY <3>1, <4>1 DEF BackIsAlone, NobodyBack
      <4>5. ForwardIsWhole'
        BY <4>2, <4>3 DEF ForwardIsWhole, Whole
      <4>6. CopyIsWhole'
        <5>1. \A n \in Movers : To(n)' = "durable"
          BY <3>1, <4>1 DEF NobodyBack, To
        <5> QED BY <5>1, <4>2, <4>3 DEF CopyIsWhole
      <4>7. LoginSurvives' /\ LaunchesWhole'
        BY <3>1, <4>2, <4>3 DEF MoveInv, LoginSurvives, LaunchesWhole, Roots
      <4> QED BY <3>5, <4>4, <4>5, <4>6, <4>7 DEF MoveInv
    <3> QED BY <3>7, <3>8
  <2>10. CASE Opens(m)
    <3>1. /\ place[m] = "opens" /\ place' = [place EXCEPT ![m] = "idle"]
          /\ root' = [root EXCEPT !["durable"].there = TRUE] /\ opened' = root'["durable"]
          /\ UNCHANGED <<staging, kind, todo>>
      BY <2>10 DEF Opens, Goes
    <3>2. NobodyBack
      BY <3>1 DEF MoveInv, BackIsAlone, NobodyBack
    <3>3. root["durable"].there = TRUE /\ root["durable"].has = Files
      BY <3>1, <3>2, <2>m, ContentsType DEF MoveInv, ForwardIsWhole, Whole
    <3>4. [root["durable"] EXCEPT !.there = TRUE] = root["durable"]
      BY <3>3, <2>m, ContentsType
    <3>5. root' = root
      BY <3>1, <3>4, <1>t DEF MoveTyped
    <3>6. /\ place' \in [Movers -> Places] /\ place'[m] = "idle"
          /\ \A n \in Movers \ {m} : place'[n] = place[n]
      BY <3>1, <1>t DEF MoveTyped, Places
    <3>7. MoveTyped' /\ LoginSurvives' /\ LaunchesWhole'
      BY <3>1, <3>3, <3>5, <3>6, <2>m, <1>t DEF MoveInv, MoveTyped, LoginSurvives, LaunchesWhole
    <3>8. BackIsAlone' /\ ForwardIsWhole' /\ CopyIsWhole'
      BY <3>1, <3>2, <3>5, <3>6 DEF MoveInv, BackIsAlone, ForwardIsWhole, CopyIsWhole, NobodyBack,
                                    Whole, To
    <3> QED BY <3>7, <3>8 DEF MoveInv
  <2>11. CASE Dies(m)
    <3>1. /\ place' = [place EXCEPT ![m] = "idle"]
          /\ UNCHANGED <<root, staging, kind, todo, opened>>
      BY <2>11 DEF Dies, Goes
    <3>2. /\ place' \in [Movers -> Places] /\ place'[m] = "idle"
          /\ \A n \in Movers \ {m} : place'[n] = place[n]
      BY <3>1, <1>t DEF MoveTyped, Places
    <3> QED BY <3>1, <3>2, <1>t, MoverGoesOn DEF MoveTyped
  <2> QED BY <1>2, <2>1, <2>2, <2>3, <2>4, <2>5, <2>6, <2>7, <2>8, <2>9, <2>10, <2>11
<1> QED BY <1>1, <1>2 DEF MoveNext

-----------------------------------------------------------------------------
(* What is put on disk.  Who changes the packages is alone inside the lock.  *)

ProvisionTyped ==
  /\ user \in [Users -> {"idle", "waits", "failed", "done"} \cup Inside]
  /\ mode \in [Users -> {"setup", "run"}]

StagedIsWhole == launch = "link" => staged = "canonical"

LockIsHeld ==
  /\ \A u, v \in Users : (u # v /\ user[u] \in Inside /\ user[v] \in Inside) => ~Excludes(u, v)
  /\ \A u \in Users : /\ user[u] = "running" => mode[u] = "run" /\ tree = Packages
                      /\ user[u] = "install" => mode[u] = "setup"

ProvisionInv == ProvisionTyped /\ StagedIsWhole /\ LockIsHeld /\ KeepsRegistrations /\ EngineIsWhole

LEMMA ProvisionStart == ProvisionInit => ProvisionInv
<1> SUFFICES ASSUME ProvisionInit PROVE ProvisionInv
  OBVIOUS
<1>1. ProvisionTyped
  BY DEF ProvisionInit, ProvisionTyped, Inside
<1>2. LockIsHeld
  BY DEF ProvisionInit, LockIsHeld, Inside
<1> QED BY <1>1, <1>2 DEF ProvisionInit, ProvisionInv, StagedIsWhole, KeepsRegistrations, EngineIsWhole

LEMMA ProvisionKept == ProvisionInv /\ UNCHANGED provisionVars => ProvisionInv'
BY DEF ProvisionInv, ProvisionTyped, StagedIsWhole, LockIsHeld, KeepsRegistrations, EngineIsWhole,
       Excludes, provisionVars, regVars, engineVars

(* The registration.  The staging file that is linked was written to its end. *)
LEMMA RegistrationPreserved ==
  ProvisionInv /\ (RegistrationStep \/ OthersRegister \/ LaunchDies) => ProvisionInv'
<1> SUFFICES ASSUME ProvisionInv, RegistrationStep \/ OthersRegister \/ LaunchDies
             PROVE  ProvisionInv'
  OBVIOUS
<1> USE DEF ProvisionInv, At
<1>k. ASSUME UNCHANGED engineVars PROVE ProvisionTyped' /\ LockIsHeld' /\ EngineIsWhole'
  BY <1>k DEF engineVars, ProvisionTyped, LockIsHeld, Excludes, EngineIsWhole
<1>1. CASE ValidatedSource \/ LooksAtTarget \/ AcceptExisting \/ LaunchDies
  <2>1. launch' # "link" /\ UNCHANGED <<target, wrote, engineVars>>
    BY <1>1 DEF ValidatedSource, LooksAtTarget, AcceptExisting, LaunchDies
  <2> QED BY <2>1, <1>k DEF StagedIsWhole, KeepsRegistrations
<1>2. CASE StagesManifest
  <2>1. /\ (launch' = "link" => staged' = "canonical") /\ UNCHANGED <<target, wrote, engineVars>>
    BY <1>2 DEF StagesManifest
  <2> QED BY <2>1, <1>k DEF StagedIsWhole, KeepsRegistrations
<1>3. CASE WriteManifest
  <2>1. /\ launch = "link" /\ launch' # "link" /\ UNCHANGED engineVars
        /\ target' = target \/ (target = "none" /\ target' = staged)
        /\ wrote' = (wrote \/ (target # "none" /\ target' # target))
    BY <1>3 DEF WriteManifest, Taken
  <2>2. target' # "cut"
    BY <2>1 DEF StagedIsWhole, KeepsRegistrations
  <2> QED BY <2>1, <2>2, <1>k DEF StagedIsWhole, KeepsRegistrations
<1>4. CASE OthersRegister
  <2>1. target' # "cut" /\ UNCHANGED <<staged, launch, wrote, engineVars>>
    BY <1>4 DEF OthersRegister
  <2> QED BY <2>1, <1>k DEF StagedIsWhole, KeepsRegistrations
<1> QED BY <1>1, <1>2, <1>3, <1>4 DEF RegistrationStep

(* The engine.  Who takes packages away does so alone. *)
LEMMA EnginePreserved == ProvisionInv /\ EngineStep => ProvisionInv'
<1> SUFFICES ASSUME ProvisionInv, NEW u \in Users,
                    \/ Begins(u) \/ Enters(u) \/ Decides(u) \/ Installs(u) \/ DependenciesMatch(u)
                    \/ Stamps(u) \/ Analyzes(u) \/ Reads(u) \/ UserDies(u)
             PROVE  ProvisionInv'
  BY DEF EngineStep
<1> USE DEF ProvisionInv, Sets
<1>t. /\ user \in [Users -> {"idle", "waits", "failed", "done"} \cup Inside]
      /\ mode \in [Users -> {"setup", "run"}] /\ mode[u] \in {"setup", "run"}
  BY DEF ProvisionTyped
<1>m. /\ UNCHANGED <<target, staged, launch, wrote, mode>>
      /\ StagedIsWhole' /\ KeepsRegistrations'
  <2>1. UNCHANGED regVars /\ UNCHANGED mode
    BY DEF Begins, Enters, Decides, Installs, DependenciesMatch, Stamps, Analyzes, Reads, UserDies
  <2> QED BY <2>1 DEF regVars, StagedIsWhole, KeepsRegistrations
<1>x. \A v, w \in Users : Excludes(v, w) = ("setup" \in {mode[v], mode[w]}) /\ Excludes(v, w)' = Excludes(v, w)
  BY <1>m DEF Excludes
(* Somebody goes on to s: it was inside already, or goes outside. *)
<1>g. ASSUME NEW s \in {"idle", "waits", "failed", "done"} \cup Inside,
             user' = [user EXCEPT ![u] = s],
             s \in Inside => \A v \in Users \ {u} : user[v] \in Inside => ~Excludes(u, v),
             s = "running" => mode[u] = "run" /\ tree' = Packages,
             s = "install" => mode[u] = "setup",
             tree' # tree => mode[u] = "setup" /\ user[u] \in Inside,
             ~broke'
      PROVE  ProvisionInv'
  <2>1. /\ user' \in [Users -> {"idle", "waits", "failed", "done"} \cup Inside] /\ user'[u] = s
        /\ \A v \in Users \ {u} : user'[v] = user[v]
    BY <1>g, <1>t
  <2>2. ProvisionTyped'
    BY <2>1, <1>m, <1>t DEF ProvisionTyped
  <2>3. ASSUME NEW v \in Users, NEW w \in Users, v # w, user'[v] \in Inside, user'[w] \in Inside
        PROVE  ~Excludes(v, w)'
    <3>1. CASE v = u
      BY <3>1, <2>1, <2>3, <1>g, <1>x
    <3>2. CASE w = u
      <4>1. ~Excludes(u, v)
        BY <3>2, <2>1, <2>3, <1>g
      <4> QED BY <4>1, <3>2, <1>x
    <3>3. CASE v # u /\ w # u
      BY <3>3, <2>1, <2>3, <1>x DEF LockIsHeld
    <3> QED BY <3>1, <3>2, <3>3
  <2>4. ASSUME NEW v \in Users
        PROVE  /\ user'[v] = "running" => mode'[v] = "run" /\ tree' = Packages
               /\ user'[v] = "install" => mode'[v] = "setup"
    <3>1. CASE v = u
      BY <3>1, <2>1, <1>g, <1>m
    <3>2. CASE v # u
      <4>1. user'[v] = user[v] /\ mode'[v] = mode[v]
        BY <3>2, <2>1, <1>m
      <4>2. CASE tree' = tree
        BY <4>1, <4>2 DEF LockIsHeld
      <4>3. CASE tree' # tree
        <5>1. user[v] \in Inside => mode[v] # "setup" /\ mode[u] # "setup"
          BY <4>3, <3>2, <1>g, <1>x DEF LockIsHeld
        <5> QED BY <5>1, <4>1, <4>3, <1>g DEF LockIsHeld, Inside
      <4> QED BY <4>2, <4>3
    <3> QED BY <3>1, <3>2
  <2> QED BY <2>2, <2>3, <2>4, <1>m, <1>g DEF LockIsHeld, EngineIsWhole
<1>i. user[u] \in Inside => \A v \in Users \ {u} : user[v] \in Inside => ~Excludes(u, v)
  BY DEF LockIsHeld
<1>b. ~broke
  BY DEF EngineIsWhole
<1>1. CASE Begins(u)
  BY <1>1, <1>g, <1>b DEF Begins, Inside
<1>2. CASE Enters(u)
  BY <1>2, <1>g, <1>b DEF Enters, MayEnter, Inside
<1>3. CASE Decides(u)
  <2>1. /\ user[u] = "decide" /\ mode[u] = "setup" /\ broke' = broke
        /\ \E s \in {"done", "stamp", "install"} : user' = [user EXCEPT ![u] = s]
    BY <1>3 DEF Decides
  <2> QED BY <2>1, <1>g, <1>i, <1>b DEF Inside
<1>4. CASE Installs(u)
  <2>1. /\ user[u] = "install" /\ mode[u] = "setup" /\ broke' = broke
    BY <1>4 DEF Installs, LockIsHeld
  <2>2. user' = user => user' = [user EXCEPT ![u] = "install"]
    BY <2>1, <1>t
  <2>3. \E s \in {"install", "check", "failed"} : user' = [user EXCEPT ![u] = s]
    BY <1>4, <2>2 DEF Installs
  <2> QED BY <2>1, <2>3, <1>g, <1>i, <1>b DEF Inside
<1>5. CASE DependenciesMatch(u)
  BY <1>5, <1>g, <1>i, <1>b DEF DependenciesMatch, Inside
<1>6. CASE Stamps(u)
  BY <1>6, <1>g, <1>i, <1>b DEF Stamps, Inside
<1>7. CASE Analyzes(u)
  <2>1. /\ user[u] = "decide" /\ mode[u] = "run" /\ broke' = broke /\ tree' = tree
        /\ \/ user' = [user EXCEPT ![u] = "running"] /\ tree = Packages
           \/ user' = [user EXCEPT ![u] = "failed"]
    BY <1>7 DEF Analyzes, Ready
  <2> QED BY <2>1, <1>g, <1>i, <1>b DEF Inside
<1>8. CASE Reads(u)
  <2>1. /\ user[u] = "running" /\ user' = [user EXCEPT ![u] = "done"] /\ tree' = tree
        /\ broke' = (broke \/ tree # Packages)
    BY <1>8 DEF Reads
  <2>2. tree = Packages
    BY <2>1 DEF LockIsHeld
  <2> QED BY <2>1, <2>2, <1>g, <1>b DEF Inside
<1>9. CASE UserDies(u)
  BY <1>9, <1>g, <1>b DEF UserDies, Inside
<1> QED BY <1>1, <1>2, <1>3, <1>4, <1>5, <1>6, <1>7, <1>8, <1>9

-----------------------------------------------------------------------------
(* Camoufox.  As long as no launch was killed, the only runner that may be   *)
(* up is that of the last launch, and it has the ready file to itself.       *)

CamoufoxTyped ==
  /\ runner \in [Runners -> {"unborn", "starting", "serving", "gone"}]
  /\ entries \subseteq [runner : Runners, annotated : BOOLEAN]
  /\ killed \in BOOLEAN
  /\ launching \in {"waiting", "registering", "annotating"} => mine \in Runners

OneRunner ==
  ~killed => /\ Up \subseteq {mine}
             /\ launching = "spawning" => Up = {}
             /\ (launching = "waiting" /\ sentinel) => mine \in served
             /\ launching = "annotating" => \E e \in entries : e.runner = mine

CamoufoxInv == CamoufoxTyped /\ OneRunner /\ CamoufoxIsOne

(* A set of runners that are one, or none. *)
LEMMA AtMostOne == ASSUME NEW S, NEW x, S \subseteq {x} PROVE Cardinality(S) <= 1
<1>1. S = {} \/ S = {x}
  OBVIOUS
<1> QED BY <1>1, FS_EmptySet, FS_Singleton

LEMMA CamoufoxStart == CamoufoxInit => CamoufoxInv
<1> SUFFICES ASSUME CamoufoxInit PROVE CamoufoxInv
  OBVIOUS
<1>1. Up = {}
  BY DEF CamoufoxInit, Up
<1>2. CamoufoxTyped /\ OneRunner
  BY <1>1 DEF CamoufoxInit, CamoufoxTyped, OneRunner
<1>3. CamoufoxIsOne
  BY <1>1, FS_EmptySet DEF CamoufoxInit, CamoufoxIsOne
<1> QED BY <1>2, <1>3 DEF CamoufoxInv

LEMMA CamoufoxKept == CamoufoxInv /\ UNCHANGED camoufoxVars => CamoufoxInv'
<1> SUFFICES ASSUME CamoufoxInv, UNCHANGED camoufoxVars PROVE CamoufoxInv'
  OBVIOUS
<1> USE DEF camoufoxVars
<1>1. Up' = Up
  BY DEF Up
<1> QED BY <1>1 DEF CamoufoxInv, CamoufoxTyped, OneRunner, CamoufoxIsOne

LEMMA CamoufoxPreserved == CamoufoxInv /\ CamoufoxNext => CamoufoxInv'
<1> SUFFICES ASSUME CamoufoxInv, CamoufoxNext PROVE CamoufoxInv'
  OBVIOUS
<1> USE DEF CamoufoxInv, Reaches
<1>t. /\ runner \in [Runners -> {"unborn", "starting", "serving", "gone"}]
      /\ entries \subseteq [runner : Runners, annotated : BOOLEAN]
  BY DEF CamoufoxTyped
(* What is shown of one runner is shown of how many there are. *)
<1>o. ASSUME CamoufoxTyped', OneRunner',
             (~killed' /\ launching' \in {"registering", "annotating"}) => mine' \in served',
             (~killed' /\ launching' = "no") =>
                \A r \in Up' : [runner |-> r, annotated |-> TRUE] \in entries'
      PROVE  CamoufoxInv'
  <2>1. ~killed' => Cardinality(Up') <= 1
    BY <1>o, AtMostOne DEF OneRunner
  <2> QED BY <1>o, <2>1 DEF CamoufoxIsOne
(* A runner goes: fewer are up. *)
<1>e. ASSUME NEW r \in Runners, RunnerIs(r, "gone")
      PROVE  /\ runner' \in [Runners -> {"unborn", "starting", "serving", "gone"}]
             /\ Up' = Up \ {r}
  BY <1>e, <1>t DEF RunnerIs, Up
<1>u. ASSUME UNCHANGED runner PROVE Up' = Up
  BY <1>u DEF Up
<1>1. CASE Launches
  <2>1. /\ launching = "no" /\ launching' = "spawning" /\ ~find_profile_holder
        /\ UNCHANGED <<runner, served, sentinel, entries, mine, killed>>
    BY <1>1 DEF Launches
  <2>2. ~killed => Up = {}
    <3> SUFFICES ASSUME ~killed, NEW r \in Up PROVE FALSE
      OBVIOUS
    <3> DEFINE e == [runner |-> r, annotated |-> TRUE]
    <3>1. e \in entries /\ e.annotated /\ e.runner \in Up
      BY <2>1 DEF CamoufoxIsOne
    <3> QED BY <3>1, <2>1 DEF find_profile_holder, instance_is_live
  <2>3. CamoufoxTyped' /\ OneRunner'
    BY <2>1, <2>2, <1>u DEF CamoufoxTyped, OneRunner
  <2> QED BY <2>1, <2>3, <1>o
<1>2. CASE Spawns
  <2>1. PICK r \in Runners : /\ launching = "spawning" /\ launching' = "waiting" /\ sentinel' = FALSE
                             /\ mine' = r /\ runner' = [runner EXCEPT ![r] = "starting"]
                             /\ UNCHANGED <<served, entries, killed>>
    BY <1>2 DEF Spawns, RunnerIs
  <2>2. /\ runner' \in [Runners -> {"unborn", "starting", "serving", "gone"}]
        /\ Up' = Up \cup {r}
    BY <2>1, <1>t DEF Up
  <2>3. CamoufoxTyped' /\ OneRunner'
    BY <2>1, <2>2 DEF CamoufoxTyped, OneRunner
  <2> QED BY <2>1, <2>3, <1>o
<1>3. CASE SeesReady
  <2>1. /\ launching = "waiting" /\ sentinel /\ launching' = "registering"
        /\ UNCHANGED <<runner, served, sentinel, entries, mine, killed>>
    BY <1>3 DEF SeesReady
  <2>2. CamoufoxTyped' /\ OneRunner'
    BY <2>1, <1>u DEF CamoufoxTyped, OneRunner
  <2> QED BY <2>1, <2>2, <1>o DEF OneRunner
<1>4. CASE SeesExit
  <2>1. /\ launching = "waiting" /\ mine \notin Up /\ launching' = "no"
        /\ UNCHANGED <<runner, served, sentinel, entries, mine, killed>>
    BY <1>4 DEF SeesExit
  <2>2. CamoufoxTyped' /\ OneRunner'
    BY <2>1, <1>u DEF CamoufoxTyped, OneRunner
  <2>3. ~killed => Up' = {}
    BY <2>1, <1>u DEF OneRunner
  <2> QED BY <2>1, <2>2, <2>3, <1>o
<1>5. CASE TimesOut
  <2>1. /\ launching = "waiting" /\ RunnerIs(mine, "gone") /\ launching' = "no"
        /\ UNCHANGED <<served, sentinel, entries, mine, killed>>
    BY <1>5 DEF TimesOut
  <2>2. mine \in Runners
    BY <2>1 DEF CamoufoxTyped
  <2>3. CamoufoxTyped' /\ OneRunner'
    BY <2>1, <2>2, <1>e DEF CamoufoxTyped, OneRunner
  <2>4. ~killed => Up' = {}
    BY <2>1, <2>2, <1>e DEF OneRunner
  <2> QED BY <2>1, <2>3, <2>4, <1>o
<1>6. CASE Registers
  <2>1. /\ launching = "registering" /\ launching' = "annotating"
        /\ entries' = entries \cup {[runner |-> mine, annotated |-> FALSE]}
        /\ UNCHANGED <<runner, served, sentinel, mine, killed>>
    BY <1>6 DEF Registers
  <2> DEFINE new == [runner |-> mine, annotated |-> FALSE]
  <2>6. mine \in Runners
    BY <2>1 DEF CamoufoxTyped
  <2>7. new \in [runner : Runners, annotated : BOOLEAN] /\ new.runner = mine
    BY <2>6
  <2>8. entries' = entries \cup {new}
    BY <2>1
  <2> HIDE DEF new
  <2>2. entries' \subseteq [runner : Runners, annotated : BOOLEAN]
    BY <2>7, <2>8, <1>t
  <2>3. \E e \in entries' : e.runner = mine
    BY <2>7, <2>8
  <2>4. CamoufoxTyped' /\ OneRunner'
    BY <2>1, <2>2, <2>3, <2>6, <1>u DEF CamoufoxTyped, OneRunner
  <2>5. ~killed => mine \in served
    BY <2>1 DEF CamoufoxIsOne
  <2> QED BY <2>1, <2>4, <2>5, <1>o
<1>7. CASE Annotates
  <2>1. /\ launching = "annotating" /\ launching' = "no"
        /\ entries' = {[e EXCEPT !.annotated = @ \/ e.runner = mine] : e \in entries}
        /\ UNCHANGED <<runner, served, sentinel, mine, killed>>
    BY <1>7 DEF Annotates
  <2>2. ASSUME NEW e \in entries
        PROVE  [e EXCEPT !.annotated = @ \/ e.runner = mine]
                 = [runner |-> e.runner, annotated |-> (e.annotated \/ e.runner = mine)]
    <3>1. e = [runner |-> e.runner, annotated |-> e.annotated]
      BY <1>t
    <3>2. ASSUME NEW r, NEW a, NEW b
          PROVE  [[runner |-> r, annotated |-> a] EXCEPT !.annotated = b] = [runner |-> r, annotated |-> b]
      OBVIOUS
    <3>3. [[runner |-> e.runner, annotated |-> e.annotated] EXCEPT !.annotated = (e.annotated \/ e.runner = mine)]
            = [runner |-> e.runner, annotated |-> (e.annotated \/ e.runner = mine)]
      BY <3>2, Zenon
    <3> QED BY <3>1, <3>3, Zenon
  <2>3. entries' = {[runner |-> e.runner, annotated |-> (e.annotated \/ e.runner = mine)] : e \in entries}
    <3> DEFINE Marked(e) == [e EXCEPT !.annotated = @ \/ e.runner = mine]
               Read(e) == [runner |-> e.runner, annotated |-> (e.annotated \/ e.runner = mine)]
    <3>1. \A e \in entries : Marked(e) = Read(e)
      BY <2>2
    <3>2. entries' = {Marked(e) : e \in entries}
      BY <2>1
    <3> HIDE DEF Marked, Read
    <3>3. entries' = {Read(e) : e \in entries}
      BY <3>1, <3>2
    <3> QED BY <3>3 DEF Read
  <2>4. entries' \subseteq [runner : Runners, annotated : BOOLEAN]
    <3> SUFFICES ASSUME NEW e \in entries
                 PROVE  [runner |-> e.runner, annotated |-> (e.annotated \/ e.runner = mine)]
                          \in [runner : Runners, annotated : BOOLEAN]
      BY <2>3
    <3>1. e.runner \in Runners /\ (e.annotated \/ e.runner = mine) \in BOOLEAN
      BY <1>t
    <3> QED BY <3>1
  <2>5. CamoufoxTyped' /\ OneRunner'
    BY <2>1, <2>4, <1>u DEF CamoufoxTyped, OneRunner
  <2>6. ~killed => [runner |-> mine, annotated |-> TRUE] \in entries'
    <3> SUFFICES ASSUME ~killed PROVE [runner |-> mine, annotated |-> TRUE] \in entries'
      OBVIOUS
    <3>1. PICK e \in entries : e.runner = mine
      BY <2>1 DEF OneRunner
    <3>2. (e.annotated \/ e.runner = mine) = TRUE
      BY <3>1
    <3> QED BY <2>3, <3>1, <3>2
  <2>7. ~killed => Up' \subseteq {mine}
    BY <2>1, <1>u DEF OneRunner
  <2> QED BY <2>1, <2>5, <2>6, <2>7, <1>o
<1>8. CASE LaunchIsKilled
  <2>1. /\ launching' = "no" /\ killed' = TRUE
        /\ UNCHANGED <<runner, served, sentinel, entries, mine>>
    BY <1>8 DEF LaunchIsKilled
  <2>2. CamoufoxTyped' /\ OneRunner'
    BY <2>1 DEF CamoufoxTyped, OneRunner
  <2> QED BY <2>1, <2>2, <1>o
<1>9. CASE Removes
  <2>1. PICK e \in entries : /\ launching = "no" /\ entries' = entries \ {e} /\ RunnerIs(e.runner, "gone")
                             /\ UNCHANGED <<served, sentinel, launching, mine, killed>>
    BY <1>9 DEF Removes
  <2>2. e.runner \in Runners
    BY <1>t
  <2>3. /\ runner' \in [Runners -> {"unborn", "starting", "serving", "gone"}]
        /\ Up' = Up \ {e.runner}
    BY <2>1, <2>2, <1>e
  <2>4. CamoufoxTyped' /\ OneRunner'
    BY <2>1, <2>3 DEF CamoufoxTyped, OneRunner
  <2>5. ASSUME ~killed, NEW r \in Up' PROVE [runner |-> r, annotated |-> TRUE] \in entries'
    <3>1. [runner |-> r, annotated |-> TRUE] \in entries /\ r # e.runner
      BY <2>1, <2>3, <2>5 DEF CamoufoxIsOne
    <3> QED BY <3>1, <2>1
  <2> QED BY <2>1, <2>4, <2>5, <1>o
<1>10. ASSUME NEW r \in Runners, Serves(r) PROVE CamoufoxInv'
  <2>1. /\ runner[r] = "starting" /\ runner' = [runner EXCEPT ![r] = "serving"]
        /\ served' = served \cup {r} /\ UNCHANGED <<entries, launching, mine, killed>>
    BY <1>10 DEF Serves, RunnerIs
  <2>2. /\ runner' \in [Runners -> {"unborn", "starting", "serving", "gone"}]
        /\ Up' = Up /\ r \in Up
    BY <2>1, <1>t DEF Up
  <2>3. ~killed => mine \in served'
    BY <2>1, <2>2 DEF OneRunner
  <2>4. CamoufoxTyped' /\ OneRunner'
    BY <2>1, <2>2, <2>3 DEF CamoufoxTyped, OneRunner
  <2> QED BY <2>1, <2>2, <2>3, <2>4, <1>o DEF CamoufoxIsOne
<1>11. ASSUME NEW r \in Runners, RunnerExits(r) PROVE CamoufoxInv'
  <2>1. RunnerIs(r, "gone") /\ UNCHANGED <<served, sentinel, entries, launching, mine, killed>>
    BY <1>11 DEF RunnerExits
  <2>2. /\ runner' \in [Runners -> {"unborn", "starting", "serving", "gone"}]
        /\ Up' = Up \ {r}
    BY <2>1, <1>e
  <2>3. CamoufoxTyped' /\ OneRunner'
    BY <2>1, <2>2 DEF CamoufoxTyped, OneRunner
  <2> QED BY <2>1, <2>2, <2>3, <1>o DEF CamoufoxIsOne
<1> QED BY <1>1, <1>2, <1>3, <1>4, <1>5, <1>6, <1>7, <1>8, <1>9, <1>10, <1>11 DEF CamoufoxNext

-----------------------------------------------------------------------------
(* The front: one of them runs, the rest keeps still.                        *)

FrontInv == CliInv /\ ExtInv /\ StopInv /\ MoveInv /\ ProvisionInv /\ CamoufoxInv

LEMMA FrontStart == Init => FrontInv
<1> SUFFICES ASSUME Init PROVE FrontInv
  OBVIOUS
<1>1. CliInit /\ ExtInit /\ StopInit /\ MoveInit /\ ProvisionInit /\ CamoufoxInit
  BY DEF Init
<1> QED BY <1>1, CliStart, ExtStart, StopStart, MoveStart, ProvisionStart, CamoufoxStart DEF FrontInv

LEMMA FrontPreserved == FrontInv /\ [Next]_vars => FrontInv'
<1> SUFFICES ASSUME FrontInv, [Next]_vars PROVE FrontInv'
  OBVIOUS
<1> USE DEF FrontInv
<1>k. /\ UNCHANGED cliVars => CliInv'
      /\ UNCHANGED extVars => ExtInv'
      /\ UNCHANGED stopVars => StopInv'
      /\ UNCHANGED moveVars => MoveInv'
      /\ UNCHANGED provisionVars => ProvisionInv'
      /\ UNCHANGED camoufoxVars => CamoufoxInv'
  BY CliKept, ExtKept, StopKept, MoveKept, ProvisionKept, CamoufoxKept
<1>1. CASE External_Handed
  <2>1. Handed /\ UNCHANGED <<stopVars, moveVars, provisionVars, camoufoxVars>>
    BY <1>1 DEF External_Handed, Idle
  <2>2. \/ UNCHANGED cliVars /\ (StartsDiscovery \/ StartsTyped \/ Connect \/ ExtStep)
        \/ UNCHANGED extVars /\ (CliStep \/ \E b \in BOOLEAN : Discovered(b) \/ Driven(b))
    <3>1. (step = "found") \in BOOLEAN /\ (step = "answered") \in BOOLEAN
      OBVIOUS
    <3> QED BY <2>1, <3>1 DEF Handed
  <2>3. CliInv' /\ ExtInv'
    BY <2>2, <1>k, CliPreserved, ClientPreserved
  <2> QED BY <2>1, <2>3, <1>k
<1>2. CASE Alone /\ UNCHANGED extVars /\ Idle
  BY <1>2, <1>k, CliPreserved DEF Alone, Idle
<1>3. CASE HostStep /\ UNCHANGED cliVars /\ Idle
  BY <1>3, <1>k, HostPreserved DEF Idle
<1>4. CASE StopNext /\ Still /\ UNCHANGED <<moveVars, provisionVars, camoufoxVars>>
  BY <1>4, <1>k, StopPreserved DEF Still
<1>5. CASE MoveNext /\ Still /\ UNCHANGED <<stopVars, provisionVars, camoufoxVars>>
  BY <1>5, <1>k, MovePreserved DEF Still
<1>6. CASE /\ RegistrationStep \/ OthersRegister \/ LaunchDies
           /\ Still /\ UNCHANGED <<stopVars, moveVars, camoufoxVars>>
  BY <1>6, <1>k, RegistrationPreserved DEF Still
<1>7. CASE EngineStep /\ Still /\ UNCHANGED <<stopVars, moveVars, camoufoxVars>>
  BY <1>7, <1>k, EnginePreserved DEF Still
<1>8. CASE CamoufoxNext /\ Still /\ UNCHANGED <<stopVars, moveVars, provisionVars>>
  BY <1>8, <1>k, CamoufoxPreserved DEF Still
<1>9. CASE UNCHANGED vars
  BY <1>9, <1>k DEF vars
<1> QED BY <1>1, <1>2, <1>3, <1>4, <1>5, <1>6, <1>7, <1>8, <1>9 DEF Next

LEMMA FrontInvariance == Spec => []FrontInv
<1> QED BY FrontStart, FrontPreserved, PTL DEF Spec

(* An invocation drives what it named, whatever the registry becomes while   *)
(* it is read; one that is refused drives nothing; and no method takes the   *)
(* screen from a person, or ends a browser the tool does not own (cli.main,  *)
(* check_preconditions, guard_focus, refuse_browser_lifetime_method).        *)
THEOREM InvocationIsHonestTheorem == Spec => []InvocationIsHonest
<1>1. FrontInv => InvocationIsHonest
  BY DEF FrontInv, CliInv, InvocationIsHonest
<1> QED BY <1>1, FrontInvariance, PTL

(* A browser that was named by its directory is dialled only where it has    *)
(* shown that it wrote the port file, and no way of ending leaves a          *)
(* connection or a task behind (external_browser_connection).                *)
THEOREM ExternalIsSafeTheorem == Spec => []ExternalIsSafe
<1>1. FrontInv => ExternalIsSafe
  BY DEF FrontInv, ExtInv, ExternalIsSafe
<1> QED BY <1>1, FrontInvariance, PTL

(* stop harms nobody and keeps the entry while a process is left; a profile  *)
(* that moves is whole in one of its roots; a registration is never replaced *)
(* or cut; a run of the engine finds its packages; Camoufox has one runner   *)
(* (lifecycle, onepassword, insights, camoufox_runner).                      *)
THEOREM HostIsKeptTheorem == Spec => []HostIsKept
<1>1. FrontInv => HostIsKept
  BY DEF FrontInv, StopInv, MoveInv, ProvisionInv, CamoufoxInv, HostIsKept
<1> QED BY <1>1, FrontInvariance, PTL

=============================================================================
