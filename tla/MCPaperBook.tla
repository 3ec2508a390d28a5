----------------------------- MODULE MCPaperBook -----------------------------
(* Instances of PaperBook: two instruments, the profiles and costs of the code. *)
EXTENDS PaperBook

Standard == [gross |-> 80, cap |-> 40, count |-> 3, minimum |-> 4000, maximum |-> 200000]
Aggressive == [gross |-> 95, cap |-> 65, count |-> 2, minimum |-> 2000, maximum |-> 200000]
HyperAggressive == [gross |-> 100, cap |-> 100, count |-> 1, minimum |-> 500, maximum |-> 200000]
Profiles == {Standard, Aggressive, HyperAggressive}

Priced(m) == [fresh |-> TRUE, mark |-> m, eligible |-> TRUE, settled |-> FALSE]
Untagged(m) == [Priced(m) EXCEPT !.eligible = FALSE]
Terminal(m) == [Priced(m) EXCEPT !.settled = TRUE]
Missing == [fresh |-> FALSE, mark |-> 0, eligible |-> FALSE, settled |-> FALSE]

SomeQuotes == {Priced(40), Priced(53), Untagged(47), Terminal(0), Terminal(100), Missing}
Plain == {Priced(50), Priced(53), Priced(47)}
BothWays == {<<1, 2>>, <<2, 1>>}
=============================================================================
