----------------------------- MODULE RefundLedger -----------------------------
(***************************************************************************)
(* What payment-service promises about money: payments are entered, and a  *)
(* paid one is paid back in amounts that never come to more than was paid. *)
(***************************************************************************)
EXTENDS Integers, Sequences

CONSTANT Amounts

VARIABLE ledger   \* of each payment: what was charged, was it paid, what went back

Entry == [amount : Amounts, paid : BOOLEAN, back : Nat]

Enter(e) ==
    /\ e.back = 0
    /\ ledger' = Append(ledger, e)

PayBack(i, a) ==
    /\ ledger[i].paid
    /\ ledger[i].back + a <= ledger[i].amount
    /\ ledger' = [ledger EXCEPT ![i].back = @ + a]

Init == ledger = << >>

Next ==
    \/ \E a \in Amounts, paid \in BOOLEAN :
           Enter([amount |-> a, paid |-> paid, back |-> 0])
    \/ \E i \in DOMAIN ledger, a \in Amounts : PayBack(i, a)

Spec == Init /\ [][Next]_ledger
===============================================================================
