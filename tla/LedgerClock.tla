---------------------------- MODULE LedgerClock ----------------------------
(***************************************************************************)
(* The ledger as a contract sees it: env.ledger().timestamp() and          *)
(* env.ledger().sequence().  Contract calls run one at a time inside a     *)
(* ledger; closing it raises the sequence by one and the timestamp by one  *)
(* of LedgerGaps.  External to the repository: modelled from its uses.     *)
(* Contract storage keyed by id is a function whose domain is the set of   *)
(* stored keys; a stored list of ids is a sequence.                        *)
(***************************************************************************)
EXTENDS Integers, Sequences, FiniteSetsExt, SequencesExt

CONSTANTS
    LedgerGaps,  \* seconds a ledger may take
    MaxNow,      \* bound: last timestamp of a behaviour
    U64_MAX      \* largest timestamp

ASSUME ClockConstants ==
    /\ LedgerGaps \subseteq Nat \ {0}
    /\ U64_MAX \in Nat
    /\ MaxNow \in 1 .. (U64_MAX - 1)   \* u64 seconds do not run out

VARIABLES
    now,  \* env.ledger().timestamp()
    seq   \* env.ledger().sequence()

clockVars == <<now, seq>>

NoTime == -1  \* a timestamp that is not in storage

ClockTypeOK == now \in Nat /\ seq \in Nat \ {0}

ClockInit == now = 1 /\ seq = 1

CloseLedger ==
    \E gap \in LedgerGaps :
        /\ now + gap <= MaxNow
        /\ now' = now + gap
        /\ seq' = seq + 1

\* u64::saturating_add
SatAdd(t, d) == IF t + d > U64_MAX THEN U64_MAX ELSE t + d

\* u64::saturating_sub
SatSub(t, d) == IF t < d THEN 0 ELSE t - d

-----------------------------------------------------------------------------
Put(store, key, value) ==
    [k \in DOMAIN store \cup {key} |-> IF k = key THEN value ELSE store[k]]
Drop(store, key) == [k \in DOMAIN store \ {key} |-> store[k]]
\* The entries of a list that are in a set, in their order.
Only(list, set) ==
    FoldLeft(LAMBDA kept, i : IF i \in set THEN Append(kept, i) ELSE kept, <<>>, list)
Without(list, item) == Only(list, ToSet(list) \ {item})
AddOnce(list, item) == IF Contains(list, item) THEN list ELSE Append(list, item)
At(store, key, default) == IF key \in DOMAIN store THEN store[key] ELSE default
SumSeq(list) == FoldLeft(LAMBDA a, b : a + b, 0, list)
Capped(n, cap) == IF n > cap THEN cap ELSE n
Floor0(n) == IF n < 0 THEN 0 ELSE n
============================================================================
