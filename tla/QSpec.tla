------------------------------- MODULE QSpec -------------------------------
(***************************************************************************)
(* parseQSpec (main.c): the groups <count>:<maxentrysize>:<qlen>,... of a  *)
(* worker's queue specification, told apart by strtok_r.                   *)
(*                                                                         *)
(* A specification is a text whose symbols are the delimiters and what     *)
(* stands between them: a number, as strtol makes it of its digits, or Bad *)
(* where strtol finds none.                                                *)
(***************************************************************************)
EXTENDS FiniteSetsExt, Integers, Sequences

CONSTANTS Colon, Comma, Bad

ASSUME SymbolsAssumption == Cardinality({Colon, Comma, Bad}) = 3 /\ {Colon, Comma, Bad} \cap Int = {}

(***************************************************************************)
(* strtok_r(ptr, delim, &sptr) skips delimiters, and takes the symbols up  *)
(* to the next one.                                                        *)
(***************************************************************************)
Behind(t) == Len(t) + 1

FirstPlace(t, places) == Min(places \cup {Behind(t)})

TokenStart(t, sptr, delim) == FirstPlace(t, {p \in sptr .. Len(t) : t[p] # delim})

\* Where strtok_r goes on from
TokenEnd(t, sptr, delim) ==
  LET stop == FirstPlace(t, {p \in TokenStart(t, sptr, delim) .. Len(t) : t[p] = delim})
  IN Min({stop + 1, Behind(t)})

(***************************************************************************)
(* The loop over the fields.  sptr is where it is in the text, fields are  *)
(* those of the current group, qds the groups.                             *)
(***************************************************************************)
Start == [sptr |-> 1, fields |-> << >>, qds |-> << >>, outcome |-> "reading"]

\* The length of the queues ends at a comma, the other fields at a colon.
Delim(s) == IF Len(s.fields) = 2 THEN Comma ELSE Colon

\* A field that strtol makes a number of
KeepField(t, s, number) ==
  IF Len(s.fields) < 2
    THEN [s EXCEPT !.fields = Append(@, number)]
    ELSE [s EXCEPT !.qds = Append(@, [count |-> s.fields[1], size |-> s.fields[2], len |-> number]),
                   !.fields = << >>,
                   !.outcome = IF s.sptr = Behind(t) THEN "accepted" ELSE "reading"]

\* Mutant: the text that is left is not looked at
Break_Accept(t, s) == [s EXCEPT !.outcome = "accepted"]

\* break: "error must have happened" if there is text left
Break(t, s) == [s EXCEPT !.outcome = IF s.sptr = Behind(t) THEN "accepted" ELSE "rejected"]

\* strtok_r returns NULL: without a count, return false; without an entry size,
\* strtol(NULL); without a length, break
MissingField(t, s) ==
  CASE Len(s.fields) = 0 -> [s EXCEPT !.outcome = "rejected"]
    [] Len(s.fields) = 1 -> [s EXCEPT !.outcome = "crashed"]
    [] OTHER             -> Break(t, s)

NextField(t, s) ==
  LET place  == TokenStart(t, s.sptr, Delim(s))
      behind == [s EXCEPT !.sptr = TokenEnd(t, s.sptr, Delim(s))]
  IN IF s.outcome # "reading" THEN s
     ELSE IF place = Behind(t) THEN MissingField(t, behind)
     ELSE IF t[place] \in {Colon, Comma, Bad} THEN Break(t, behind)
     ELSE KeepField(t, behind, t[place])

\* Every field but a missing one takes a symbol.
ParseQSpec(t) ==
  LET after[n \in 0 .. Behind(t)] ==
        IF n = 0 THEN Start ELSE NextField(t, after[n - 1])
  IN after[Behind(t)]

-----------------------------------------------------------------------------
\* A specification of groups of three fields each, good or not
WellShaped(t) ==
  /\ Len(t) % 6 = 5
  /\ \A p \in DOMAIN t :
       CASE p % 2 = 1 -> t[p] \notin {Colon, Comma}
         [] p % 6 = 0 -> t[p] = Comma
         [] OTHER     -> t[p] = Colon

Faults(t) == {p \in DOMAIN t : t[p] = Bad}

\* The groups of such a text as they are written, without one that ends in a fault
Written(t) ==
  [g \in 1 .. Behind(t) \div 6 - Cardinality(Faults(t) \cap {Len(t)}) |->
    [count |-> t[6 * g - 5], size |-> t[6 * g - 3], len |-> t[6 * g - 1]]]
=============================================================================
