------------------------- MODULE EventDeliveryProofs -------------------------
(***************************************************************************)
(* What the promise of module EventDelivery amounts to: no behaviour of it  *)
(* holds an event twice, revives a settled one, or loses one that was not   *)
(* interrupted.                                                             *)
(***************************************************************************)
EXTENDS EventDelivery, TLAPS

\* The invariant with the type of arrived, which ids are counted by.
IInv == arrived \in Nat /\ Accounted

\* The next id is new, and all earlier ones stay in range.
LEMMA NewId ==
  ASSUME arrived \in Nat, arrived' = arrived + 1
  PROVE  /\ arrived' \in Nat
         /\ arrived' \notin 1..arrived
         /\ 1..arrived' = 1..arrived \cup {arrived'}
OBVIOUS

LEMMA InitAccounted == Init => IInv
BY DEF Init, IInv, Accounted, Working

LEMMA NextAccounted == IInv /\ [Next]_vars => IInv'
<1> SUFFICES ASSUME IInv, [Next]_vars PROVE IInv'
  OBVIOUS
<1> USE DEF IInv
<1>1. CASE Arrive
  <2>1. /\ arrived' = arrived + 1 /\ arrived' \in Nat /\ arrived' \notin 1..arrived
        /\ 1..arrived' = 1..arrived \cup {arrived'}
    BY <1>1, NewId DEF Arrive
  <2> DEFINE n == arrived'
             range == 1..arrived
  <2>2. PICK S \in SUBSET (waiting \cup {n}) :
           settled' = settled \cup S /\ waiting' = (waiting \cup {n}) \ S
    BY <1>1 DEF Arrive, Settle
  <2>3. turns' = turns /\ interrupted' = interrupted
    BY <1>1 DEF Arrive
  <2>4. 1..arrived' = range \cup {n} /\ n \notin range
    BY <2>1
  <2> HIDE DEF n, range
  <2>5. Accounted'
    <3>1. /\ waiting \cup Working \cup settled \cup interrupted \subseteq range
          /\ waiting \cap Working = {} /\ settled \cap (waiting \cup Working) = {}
          /\ range \subseteq waiting \cup Working \cup settled \cup interrupted
          /\ \A T, U \in turns : T # U => T \cap U = {}
      BY DEF Accounted, range
    <3>2. Working' = Working
      BY <2>3 DEF Working
    <3> QED
      BY <2>2, <2>3, <2>4, <3>1, <3>2 DEF Accounted
  <2> QED
    BY <2>1, <2>5
<1>2. CASE Start
  <2>0. PICK T \in (SUBSET waiting) \ {{}} :
           /\ turns' = turns \cup {T}
           /\ \E S \in SUBSET (waiting \ T) : Settle(S, waiting \ T)
    BY <1>2 DEF Start
  <2>1. PICK S \in SUBSET (waiting \ T) :
           settled' = settled \cup S /\ waiting' = (waiting \ T) \ S
    BY <2>0 DEF Settle
  <2>2. arrived' = arrived /\ interrupted' = interrupted
    BY <1>2 DEF Start
  <2>3. Working' = Working \cup T
    BY <2>0 DEF Working
  <2>4. \A U \in turns : U \cap T = {}
    BY <2>0 DEF Accounted, Working
  <2> QED
    BY <2>0, <2>1, <2>2, <2>3, <2>4 DEF Accounted
<1>3. ASSUME NEW T \in turns, turns' = turns \ {T}
      PROVE  /\ T \subseteq Working
             /\ Working' = Working \ T
             /\ T \cap waiting = {} /\ T \cap settled = {}
             /\ \A U, V \in turns' : U # V => U \cap V = {}
  BY <1>3 DEF Accounted, Working
<1>4. ASSUME NEW T \in turns, End(T) PROVE IInv'
  <2>1. PICK back \in SUBSET T, S \in SUBSET (waiting \cup T) :
           /\ settled' = settled \cup S /\ waiting' = (waiting \cup back) \ S
           /\ T \ (back \cup S) \subseteq interrupted
    BY <1>4 DEF End, Settle
  <2>2. turns' = turns \ {T} /\ arrived' = arrived /\ interrupted' = interrupted
    BY <1>4 DEF End
  <2>3. /\ T \subseteq Working /\ Working' = Working \ T
        /\ T \cap waiting = {} /\ T \cap settled = {}
        /\ \A U, V \in turns' : U # V => U \cap V = {}
    BY <1>3, <2>2
  <2> QED
    BY <2>1, <2>2, <2>3 DEF Accounted
<1>5. ASSUME NEW T \in turns, Interrupt(T) PROVE IInv'
  <2>1. /\ turns' = turns \ {T} /\ arrived' = arrived /\ settled' = settled
        /\ waiting' = waiting \cup T /\ interrupted' = interrupted \cup T
    BY <1>5 DEF Interrupt
  <2>2. /\ T \subseteq Working /\ Working' = Working \ T
        /\ T \cap waiting = {} /\ T \cap settled = {}
        /\ \A U, V \in turns' : U # V => U \cap V = {}
    BY <1>3, <2>1
  <2> QED
    BY <2>1, <2>2 DEF Accounted
<1>6. CASE Drop
  <2>1. PICK S \in SUBSET waiting : settled' = settled \cup S /\ waiting' = waiting \ S
    BY <1>6 DEF Drop, Settle
  <2>2. arrived' = arrived /\ turns' = turns /\ interrupted' = interrupted /\ Working' = Working
    BY <1>6 DEF Drop, Working
  <2> QED
    BY <2>1, <2>2 DEF Accounted
<1>7. CASE UNCHANGED vars
  BY <1>7 DEF vars, Accounted, Working
<1> QED
  BY <1>1, <1>2, <1>4, <1>5, <1>6, <1>7 DEF Next

\* An implementation of EventDelivery accounts for every event: it waits, or is in
\* exactly one turn, or is settled for good, unless it was interrupted before.
THEOREM EveryEventAccounted == Spec => []Accounted
<1>1. IInv => Accounted
  BY DEF IInv
<1> QED
  BY <1>1, InitAccounted, NextAccounted, PTL DEF Spec
=============================================================================
