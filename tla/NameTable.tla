------------------------------ MODULE NameTable ------------------------------
(***************************************************************************)
(* The filter by which the parser notices that an event may have a name    *)
(* twice (parser.Scratch: beginEvent, noteName): a table of signatures     *)
(* with open addressing, never cleared between events; a slot counts as    *)
(* taken only if it bears the number of this event.  The numbers are of a  *)
(* fixed width and start over.                                             *)
(***************************************************************************)
EXTENDS Integers, FiniteSets

CONSTANTS
  Signatures,  \* of names, as nameSig gives them
  SigSlots,    \* slots of the table
  GenLimit,    \* 2^w: event numbers are below it
  MaxNames     \* bound: different signatures in an event

ASSUME NameTableBounds ==
  /\ Signatures \subseteq Nat /\ SigSlots \in Nat \ {0}
  /\ GenLimit \in Nat /\ GenLimit >= 2 /\ MaxNames \in Nat

VARIABLES
  tbl, stamp, gen, dup,  \* Scratch
  sig, at,               \* the name being noted, and how far the search is; sig = -1: none
  noted, repeated        \* history: signatures of this event; has one come twice?

tableVars == <<tbl, stamp, gen, dup, sig, at, noted, repeated>>

Slots == 0 .. SigSlots - 1
Slot(h, k) == (h + k) % SigSlots

TableInit ==
  /\ tbl = [s \in Slots |-> 0] /\ stamp = [s \in Slots |-> 0] /\ gen = 0 /\ dup = FALSE
  /\ sig = -1 /\ at = 0 /\ noted = {} /\ repeated = FALSE

\* Mutant of BeginEvent: the numbers start over and the stamps stay.
BeginEventStale ==
  /\ sig = -1
  /\ gen' = (IF (gen + 1) % GenLimit = 0 THEN 1 ELSE gen + 1)
  /\ dup' = FALSE /\ noted' = {} /\ repeated' = FALSE
  /\ UNCHANGED <<tbl, stamp, sig, at>>

\* beginEvent: another number; when they start over, all stamps are cleared.
BeginEvent ==
  /\ sig = -1
  /\ IF (gen + 1) % GenLimit = 0
       THEN gen' = 1 /\ stamp' = [s \in Slots |-> 0]
       ELSE gen' = gen + 1 /\ stamp' = stamp
  /\ dup' = FALSE /\ noted' = {} /\ repeated' = FALSE
  /\ UNCHANGED <<tbl, sig, at>>

\* noteName, up to its loop.
NoteName ==
  /\ sig = -1 /\ gen > 0
  /\ \E h \in Signatures :
       /\ h \in noted \/ Cardinality(noted) < MaxNames
       /\ sig' = h /\ at' = 0
       /\ repeated' = (repeated \/ h \in noted)
  /\ UNCHANGED <<tbl, stamp, gen, dup, noted>>

\* noteName's loop: a free slot is taken, a slot of the same signature is a hit, and
\* from any other it goes on to the next.
Probe ==
  /\ sig # -1
  /\ LET slot == Slot(sig, at) IN
     IF stamp[slot] # gen
       THEN /\ stamp' = [stamp EXCEPT ![slot] = gen] /\ tbl' = [tbl EXCEPT ![slot] = sig]
            /\ sig' = -1 /\ at' = 0 /\ noted' = noted \cup {sig} /\ dup' = dup
     ELSE IF tbl[slot] = sig
       THEN /\ dup' = TRUE /\ sig' = -1 /\ at' = 0 /\ UNCHANGED <<tbl, stamp, noted>>
     ELSE at' = (at + 1) % SigSlots /\ UNCHANGED <<tbl, stamp, sig, noted, dup>>
  /\ UNCHANGED <<gen, repeated>>

TableNext == BeginEvent \/ NoteName \/ Probe

TableSpec == TableInit /\ [][TableNext]_tableVars /\ WF_tableVars(Probe)

-----------------------------------------------------------------------------
(* Properties *)

\* The table knows the names of this event and of no other, although nothing is
\* cleared: a repeated signature is noticed wherever the search for a slot has put
\* it, and an old one is never taken for one of this event's, also when the event
\* numbers have started over (parser.go: a slot is taken only if stamp == gen).
TableHoldsEvent ==
  /\ {tbl[s] : s \in {t \in Slots : gen > 0 /\ stamp[t] = gen}} = noted
  /\ sig = -1 => dup = repeated

\* Noting a name comes to an end (Scratch: the table detects a repeat in O(N)).
NotingEnds == (sig # -1) ~> (sig = -1)
==============================================================================
