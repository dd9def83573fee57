---------------------------- MODULE EventDelivery ----------------------------
(***************************************************************************)
(* What the event queue of buzz-acp promises its caller, without tables,    *)
(* sequences or time.  Events arrive one by one and wait; a turn takes some *)
(* of the waiting ones and gives back what it did not finish when it ends.  *)
(* An event that was settled (answered, dead-lettered, dropped by the cap,  *)
(* or drained with its channel) never comes back, and only an event of an   *)
(* interrupted turn may vanish without being settled.                       *)
(***************************************************************************)
EXTENDS Naturals

VARIABLES
  arrived,      \* number of events so far; their ids are 1..arrived
  waiting,      \* ids the queue holds
  turns,        \* the sets of ids that running turns hold
  settled,      \* ids that left for a reason
  interrupted   \* ids that were part of an interrupted turn

vars == <<arrived, waiting, turns, settled, interrupted>>

Init ==
  /\ arrived = 0
  /\ waiting = {}
  /\ turns = {}
  /\ settled = {}
  /\ interrupted = {}

\* Of the ids in held, those in S are settled and the others wait.
Settle(S, held) ==
  /\ settled' = settled \cup S
  /\ waiting' = held \ S

\* A new event waits; it, or others that wait, may have to go.
Arrive ==
  /\ arrived' = arrived + 1
  /\ \E S \in SUBSET (waiting \cup {arrived'}) : Settle(S, waiting \cup {arrived'})
  /\ UNCHANGED <<turns, interrupted>>

Start ==
  /\ UNCHANGED <<arrived, interrupted>>
  /\ \E T \in (SUBSET waiting) \ {{}} :
       /\ turns' = turns \cup {T}
       /\ \E S \in SUBSET (waiting \ T) : Settle(S, waiting \ T)

\* A turn ends, and some of its events go back.
End(T) ==
  /\ UNCHANGED <<arrived, interrupted>>
  /\ turns' = turns \ {T}
  /\ \E back \in SUBSET T, S \in SUBSET (waiting \cup T) :
       /\ Settle(S, waiting \cup back)
       /\ T \ (back \cup S) \subseteq interrupted

\* A turn is interrupted, and all of its events go back.
Interrupt(T) ==
  /\ turns' = turns \ {T}
  /\ waiting' = waiting \cup T
  /\ interrupted' = interrupted \cup T
  /\ UNCHANGED <<arrived, settled>>

\* Waiting events are answered by a running turn, drained or dropped.
Drop ==
  /\ UNCHANGED <<arrived, turns, interrupted>>
  /\ \E S \in SUBSET waiting : Settle(S, waiting)

Next ==
  \/ Arrive
  \/ Drop
  \/ \E T \in turns : Interrupt(T) \/ End(T)
  \/ Start

Spec == Init /\ [][Next]_vars

-----------------------------------------------------------------------------
(* What follows from the promise *)

Working == UNION turns

\* Every event that has arrived waits, or is held by exactly one turn, or is
\* settled, never two of them; if none, it had been interrupted.
Accounted ==
  /\ waiting \cup Working \cup settled \cup interrupted \subseteq 1..arrived
  /\ waiting \cap Working = {}
  /\ settled \cap (waiting \cup Working) = {}
  /\ \A T, U \in turns : T # U => T \cap U = {}
  /\ 1..arrived \subseteq waiting \cup Working \cup settled \cup interrupted
=============================================================================
