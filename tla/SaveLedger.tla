---------------------------- MODULE SaveLedger ----------------------------
(***************************************************************************)
(* What saving a blend promises, with no request, approval or lock in it:  *)
(* a ledger in which a key is entered once, takes LOT numbers above every  *)
(* number its series ever had, and never changes; and answers that only    *)
(* repeat what the ledger says.                                            *)
(***************************************************************************)
EXTENDS Naturals

CONSTANTS Attempts, RequestIds

VARIABLES saved,   \* key -> [ids, series, numbers]
          told     \* request -> the ids it was told were saved, {} for none

Taken(series) == UNION {saved[k].numbers :
                          k \in {j \in DOMAIN saved : saved[j].series = series}}
TakenIds      == UNION {saved[k].ids : k \in DOMAIN saved}

Init == saved = << >> /\ told = [a \in Attempts |-> {}]

(* A save is entered and its own request is told so.                       *)
Enter(a, k, s) ==
    /\ k \notin DOMAIN saved
    /\ told[a] = {}
    /\ \A m \in Taken(s.series), n \in s.numbers : m < n
    /\ \A m \in TakenIds, n \in s.ids : m < n
    /\ saved' = [j \in DOMAIN saved \cup {k} |-> IF j = k THEN s ELSE saved[j]]
    /\ told' = [told EXCEPT ![a] = s.ids]

(* A resend is told what is in the ledger.                                 *)
Tell(a, k) ==
    /\ k \in DOMAIN saved
    /\ told[a] = {}
    /\ told' = [told EXCEPT ![a] = saved[k].ids]
    /\ UNCHANGED saved

Next == \E a \in Attempts, k \in RequestIds :
          \/ Tell(a, k)
          \/ /\ k \in DOMAIN saved'
             /\ Enter(a, k, saved'[k])

Spec == Init /\ [][Next]_<<saved, told>>
=============================================================================
