------------------------------- MODULE Exchange -------------------------------
(***************************************************************************)
(* What the matching core promises, whatever data structures it uses.      *)
(*                                                                         *)
(* Every order o is a request order[o].  Once it is accepted it has left[o]*)
(* units that may still trade; executed[o] counts the units that did.  The *)
(* only things that may ever happen to an order are: it is accepted with   *)
(* its full quantity, it trades against an accepted order of the other     *)
(* side at compatible prices, or what is left of it is withdrawn (cancel,  *)
(* self-trade prevention, IOC remainder, expiry) and never comes back.     *)
(***************************************************************************)
EXTENDS Integers

CONSTANTS OrderIds, Requests

VARIABLES order,     \* [OrderIds -> Requests], never changes
          accepted,  \* the orders the exchange has taken on
          left,      \* units of an order that may still trade
          executed   \* units of an order that have traded

xvars == <<order, accepted, left, executed>>

\* A buy and a sell may trade when one of them takes any price or the buyer
\* bids at least what the seller asks.
Compatible(b, s) ==
    /\ order[b].side = "B"
    /\ order[s].side = "S"
    /\ (order[b].type = "L" /\ order[s].type = "L") => order[b].price >= order[s].price

Init ==
    /\ order \in [OrderIds -> Requests]
    /\ accepted = {}
    /\ left = [o \in OrderIds |-> 0]
    /\ executed = [o \in OrderIds |-> 0]

Accept(o) ==
    /\ o \notin accepted
    /\ accepted' = accepted \cup {o}
    /\ left' = [left EXCEPT ![o] = order[o].qty]
    /\ UNCHANGED <<order, executed>>

\* Both sides give up the same q units: nothing is filled twice.
Execute(b, s, q) ==
    /\ {b, s} \subseteq accepted
    /\ Compatible(b, s)
    /\ q \in 1 .. left[b]
    /\ q <= left[s]
    /\ left' = [left EXCEPT ![b] = @ - q, ![s] = @ - q]
    /\ executed' = [executed EXCEPT ![b] = @ + q, ![s] = @ + q]
    /\ UNCHANGED <<order, accepted>>

\* One step may withdraw several orders (self-trade prevention "cancel both").
Withdraw(W) ==
    /\ W \subseteq accepted
    /\ left' = [o \in OrderIds |-> IF o \in W THEN 0 ELSE left[o]]
    /\ UNCHANGED <<order, accepted, executed>>

Next ==
    \/ \E o \in OrderIds : Accept(o)
    \/ \E b, s \in OrderIds : \E q \in 1 .. order[b].qty : Execute(b, s, q)
    \/ \E W \in SUBSET OrderIds : Withdraw(W)

Spec == Init /\ [][Next]_xvars
===============================================================================
