--------------------------- MODULE MCDetectionRules --------------------------
(* Transactions of the model-checking runs of DetectionRules. *)
EXTENDS DetectionRules, TLC

Deposit(a, amount) ==
    [type |-> "deposit", sender |-> Outside, receiver |-> a, amount |-> amount]

Transfer(a, b, type) ==
    [type |-> type, sender |-> a, receiver |-> b, amount |-> "band"]

\* Deposits in and above the band, transfers of the band between accounts, and
\* withdrawals.
AllKinds ==
    {Deposit(a, amount) : a \in Accounts, amount \in {"band", "above"}}
    \cup {Transfer(a, b, "wire") : a, b \in Accounts}
    \cup {Transfer(a, Outside, "withdrawal") : a \in Accounts}

Symmetry == Permutations(Accounts)

==============================================================================
