---------------------------- MODULE PaymentLedger ----------------------------
(***************************************************************************)
(* What the payments subsystem promises its callers: a ledger with one     *)
(* entry per checkout attempt.  An entry moves only as docs/PAYMENTS.md    *)
(* allows, in one step, and a guest is told of a success at most once, in  *)
(* the step that records it.                                               *)
(***************************************************************************)
EXTENDS Naturals

CONSTANT Orders

VARIABLES ledger, receipts

Final == {"succeeded", "failed", "cancelled", "chargedback"}

LedgerInit ==
    /\ ledger = [o \in Orders |-> "absent"]
    /\ receipts = [o \in Orders |-> 0]

Open(o) ==
    /\ ledger[o] = "absent"
    /\ ledger' = [ledger EXCEPT ![o] = "initiated"]
    /\ UNCHANGED receipts

Record(o, s) ==
    /\ ledger[o] \notin {"absent", s}
    /\ ledger[o] \in Final => ledger[o] = "succeeded" /\ s = "chargedback"
    /\ ledger' = [ledger EXCEPT ![o] = s]
    /\ \/ UNCHANGED receipts
       \/ s = "succeeded" /\ receipts[o] = 0 /\ receipts' = [receipts EXCEPT ![o] = 1]

LedgerNext ==
    \E o \in Orders : Open(o) \/ \E s \in Final \cup {"pending"} : Record(o, s)

LedgerSpec == LedgerInit /\ [][LedgerNext]_<<ledger, receipts>>
=============================================================================
