--------------------------- MODULE PaymentLedger ---------------------------
(***************************************************************************)
(* What the token payments of all leads promise, with no requests, no     *)
(* webhook and no gateway: payments are only ever added, they start       *)
(* pending, a manually reviewed one is decided once, and whatever is      *)
(* decided a lead never has two verified ones.  A gateway payment may be  *)
(* decided again: the last event of the provider wins.                    *)
(***************************************************************************)
EXTENDS Naturals, Sequences

CONSTANT Leads

VARIABLE ledger  \* payments, oldest first

Methods == {"qr", "gateway"}
Entry == [lead : Leads, method : Methods, status : {"pending", "verified", "rejected"}]

OneVerifiedEach(l) ==
  \A i, j \in DOMAIN l :
     l[i].lead = l[j].lead /\ l[i].status = "verified" /\ l[j].status = "verified"
       => i = j

Init == ledger = << >>

Open ==
  \E l \in Leads, m \in Methods :
     ledger' = Append(ledger, [lead |-> l, method |-> m, status |-> "pending"])

Decide ==
  \E i \in DOMAIN ledger, s \in {"verified", "rejected"} :
     /\ ledger[i].status = "pending" \/ ledger[i].method = "gateway"
     /\ ledger' = [ledger EXCEPT ![i].status = s]
     /\ OneVerifiedEach(ledger')

Next == Open \/ Decide

Spec == Init /\ [][Next]_ledger
=============================================================================
