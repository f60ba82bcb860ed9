---------------------------- MODULE StashPromise ----------------------------
(***************************************************************************)
(* What governance/src/treasury_stash.rs promises: every asset has a       *)
(* reserve and a spending balance that only deposits make larger together, *)
(* and between which value crosses only against an allowance that          *)
(* governance granted for that direction and that every crossing uses up.  *)
(***************************************************************************)
EXTENDS Integers

CONSTANTS Asset, Amount

VARIABLES reserve, spending, toSpending, toReserve

pvars == <<reserve, spending, toSpending, toReserve>>

PromiseInit ==
    LET none == [a \in Asset |-> 0]
    IN  reserve = none /\ spending = none /\ toSpending = none /\ toReserve = none

Deposit(a, n) ==
    /\ \/ reserve' = [reserve EXCEPT ![a] = @ + n] /\ UNCHANGED spending
       \/ spending' = [spending EXCEPT ![a] = @ + n] /\ UNCHANGED reserve
    /\ UNCHANGED <<toSpending, toReserve>>

\* One allowance at a time: a new one, or none, replaces the old one.
Grant(a, n, m) ==
    /\ n = 0 \/ m = 0
    /\ toSpending' = [toSpending EXCEPT ![a] = n]
    /\ toReserve' = [toReserve EXCEPT ![a] = m]
    /\ UNCHANGED <<reserve, spending>>

\* A refused move costs allowance, never value.
Release(a, n) ==
    /\ n <= toSpending[a]
    /\ toSpending' = [toSpending EXCEPT ![a] = @ - n]
    /\ \/ /\ n <= reserve[a]
          /\ reserve' = [reserve EXCEPT ![a] = @ - n]
          /\ spending' = [spending EXCEPT ![a] = @ + n]
       \/ UNCHANGED <<reserve, spending>>
    /\ UNCHANGED toReserve

TopUp(a, n) ==
    /\ n <= toReserve[a]
    /\ toReserve' = [toReserve EXCEPT ![a] = @ - n]
    /\ \/ /\ n <= spending[a]
          /\ spending' = [spending EXCEPT ![a] = @ - n]
          /\ reserve' = [reserve EXCEPT ![a] = @ + n]
       \/ UNCHANGED <<reserve, spending>>
    /\ UNCHANGED toSpending

PromiseNext ==
    \E a \in Asset :
        \/ \E n \in Amount : Deposit(a, n) \/ Release(a, n) \/ TopUp(a, n)
        \/ \E n, m \in Amount \cup {0} : Grant(a, n, m)

Promise == PromiseInit /\ [][PromiseNext]_pvars
=============================================================================
