--------------------------- MODULE MCFraudPipeline ---------------------------
(* Constants of the model-checking run of FraudPipeline. *)
EXTENDS FraudPipeline

\* An account is owned by the entity of its name.
Self == [a \in Accounts |-> a]

\* A row that a generator made.
Rows ==
    [n : Nat, type : {"deposit", "withdrawal", "transfer", "wire"},
     sender : Accounts \cup {Outside}, receiver : Accounts \cup {Outside}, amount : Nat, at : Nat]

\* What the first execution generates and what the second does.
Two(first, second) == [s \in Seeds |-> IF s = 1 THEN first ELSE second]

Job(pattern, number) == [pattern |-> pattern, number |-> number]

Mixtures ==
    {Two({Job("mule_network", 1)}, {}),
     Two({Job("structuring", 1)}, {Job("layering", 1)}),
     Two({Job("layering", 1), Job("layering", 2)}, {}),
     Two({Job("clean", 1)}, {}),
     Two({Job("background", 1)}, {})}

\* Everyone transfers as much as there is to someone, and has two other rows.
Activity(n, to) ==
    <<[type |-> "transfer", to |-> to, amount |-> 8000, at |-> 10 * n],
      [type |-> "deposit", to |-> n, amount |-> 8000, at |-> 0],
      [type |-> "withdrawal", to |-> n, amount |-> 50, at |-> Now]>>

\* In a row, in a circle, in pairs, to one of them, a circle with a tail.
Backgrounds ==
    {[n \in 1 .. BackgroundCount |-> Activity(n, to[n])] :
       to \in {<<2, 3, 4, 4>>, <<2, 3, 4, 1>>, <<2, 1, 4, 3>>, <<1, 1, 1, 1>>, <<2, 3, 1, 1>>}}

\* Never late, always, or every second time; spending just after and long after.
Paychecks ==
    {[k \in 1 .. 6 |->
        [amount |-> 4805, late |-> late[k % 2],
         spending |-> <<[amount |-> 400, after |-> 1], [amount |-> 30, after |-> 1],
                        [amount |-> 400, after |-> 12]>>]] :
       late \in [{0, 1} -> {0, 1}]}

\* Some at the start of the window and some at its end.
Deposits ==
    {[k \in 1 .. count |-> [amount |-> IF k = 1 THEN 9800 ELSE 8500,
                            ago |-> IF k <= early THEN 240 ELSE 0]] :
       count \in {4}, early \in {1}}

Payments ==
    {[n \in 1 .. MuleVictims |-> [amount |-> IF n = 1 THEN 4000 ELSE 500,
                                  ago |-> IF n <= early THEN 72 ELSE 0]] :
       early \in {3}}

Onward == {<<2, 36>>}

==============================================================================
