----------------------------- MODULE StampLedger -----------------------------
(***************************************************************************)
(* What the stamps of the generation store are for: latency is measured    *)
(* from the first time something was seen.  A ledger of such dates is only *)
(* ever added to, an entry bears the date of the day it was made, and the  *)
(* days go by one after the other, whether or not anything is entered.     *)
(***************************************************************************)
EXTENDS Naturals

CONSTANT Keys   \* what can be dated

VARIABLES book,   \* the dates, a partial function on Keys
          clock   \* the day

Enter(K) ==
    /\ K \cap DOMAIN book = {}
    /\ book' = [k \in DOMAIN book \cup K |-> IF k \in K THEN clock ELSE book[k]]
    /\ UNCHANGED clock

Tick == clock' = clock + 1 /\ UNCHANGED book

Init == DOMAIN book = {} /\ clock = 0

Next == Tick \/ \E K \in SUBSET Keys : Enter(K)

Spec == Init /\ [][Next]_<<book, clock>>

=============================================================================
