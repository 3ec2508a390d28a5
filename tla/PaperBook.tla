------------------------------ MODULE PaperBook ------------------------------
(***************************************************************************)
(* One book of the autonomous paper engine                                 *)
(* (scripts/mosaic_murmurs_paper_engine.py process_tick): marking,         *)
(* settlement, the crash, the seed allocation and the rebalance, with the  *)
(* rounding of every amount to cents.  Books share nothing.  One stands    *)
(* for the fifteen whose instruments are of one type; the nine cross_asset *)
(* books, which hold crypto and equity together and cost each instrument   *)
(* by its own type, are not modelled.                                      *)
(*                                                                         *)
(* Money is in cents, a mark in cents per share (100 is one dollar), a     *)
(* quantity in 1/Lot of a share: the engine rounds it to ten digits.       *)
(* Where the engine rounds the sum of two products the model rounds each.  *)
(* The orderings of the selection modes are one input, the ranking of the  *)
(* instruments; their provenance, timestamps and cost model are one, fresh *)
(* or not.  Marks of an open position always come from its own type.       *)
(***************************************************************************)
EXTENDS Integers, Sequences, SequencesExt, FiniteSetsExt

CONSTANTS
  N,          \* instruments 1 .. N, ordered as their references are
  Kinds,      \* kinds of book: "prediction", "crypto", "equity"
  Lines,      \* aggression profiles
  Seed,       \* INITIAL_INVESTMENT_CAPITAL; as much again is the bank
  Lot,        \* fractions of a share
  Quotes,     \* what a snapshot may say of an instrument
  Rankings,   \* orders of the instruments
  MaxTicks    \* bound of the model

Instruments == 1 .. N

ASSUME BookConstants ==
  /\ N \in Nat \ {0} /\ Seed \in Nat \ {0} /\ Lot \in Nat \ {0} /\ MaxTicks \in Nat
  /\ Kinds \subseteq {"prediction", "crypto", "equity"}
  /\ \A line \in Lines :
       line \in [gross : Nat, cap : Nat, count : Nat, minimum : Nat, maximum : Nat]
  /\ \A r \in Rankings : r \in [Instruments -> Instruments] /\ IsInjective(r)

\* instrument_fresh: without its settlement a mark of nothing is not fresh.
ASSUME QuotesMarked ==
  \A q \in Quotes :
    /\ q \in [fresh : BOOLEAN, mark : Nat, eligible : BOOLEAN, settled : BOOLEAN]
    /\ q.fresh /\ ~q.settled => q.mark > 0

\* The seed gives every leg a cent and buys a fraction of each, whatever its mark.
ASSUME SeedScale ==
  /\ Seed > 1 /\ N <= Seed
  /\ \A q \in Quotes : q.mark <= Lot * (Seed \div N)

VARIABLES
  book,      \* the book in the ledger file
  offered,   \* the book as the last tick of the engine returned it
  ticks

vars == <<book, offered, ticks>>

Start == 2 * Seed     \* TOTAL_STARTING_BALANCE
Threshold == 1        \* CRASH_EQUITY_THRESHOLD

\* DEFAULT_EXECUTION_COSTS, in basis points.
Fee(kind) == IF kind = "crypto" THEN 20 ELSE 0
Adverse(kind) ==
  CASE kind = "prediction" -> [spread |-> 25, slippage |-> 10, impact |-> 5, latency |-> 10]
    [] kind = "crypto" -> [spread |-> 10, slippage |-> 10, impact |-> 5, latency |-> 5]
    [] kind = "equity" -> [spread |-> 2, slippage |-> 5, impact |-> 2, latency |-> 1]
AdverseBps(kind) ==
  LET cost == Adverse(kind) IN cost.spread + cost.slippage + cost.impact + cost.latency

-----------------------------------------------------------------------------
\* money() of a quotient of naturals; a tie goes up.
Rounded(x, y) == (x + y \div 2) \div y
Bps(amount, bps) == Rounded(amount * bps, 10000)

\* part * whole / total, rounded, in 32 bits.
Share(part, whole, total) ==
  LET high == part * (whole \div 1000)
      rest == (high % total) * 1000 + part * (whole % 1000)
  IN  (high \div total) * 1000 + Rounded(rest, total)

\* amount / (1 + bps/10000), down to the cent.
Without(amount, bps) ==
  LET d == 10000 + bps
  IN  (amount \div d) * 10000 + ((amount % d) * 10000) \div d

Value(b, i) == Rounded(b.quantity[i] * b.mark[i], Lot)
Held(b) == {i \in Instruments : b.quantity[i] > 0}
Gross(b) == MapThenSumSet(LAMBDA i : Value(b, i), Held(b))
Basis(b) == MapThenSumSet(LAMBDA i : b.basis[i], Instruments)
Equity(b) == b.cash + Gross(b)

NewBook(kind, line) ==
  [kind |-> kind, line |-> line, cash |-> Start, realized |-> 0,
   quantity |-> [i \in Instruments |-> 0], basis |-> [i \in Instruments |-> 0],
   mark |-> [i \in Instruments |-> 0], stale |-> {},
   complete |-> FALSE, crashed |-> FALSE, sales |-> 0]

-----------------------------------------------------------------------------
\* Friction of a prediction trade is a cash cost whose parts are rounded one by one
\* (_execution_breakdown); of any other trade it is in the price, and the fee is on top.
Friction(kind, gross) ==
  LET cost == Adverse(kind)
  IN  Bps(gross, cost.spread) + Bps(gross, cost.slippage)
        + Bps(gross, cost.impact) + Bps(gross, cost.latency)

Outlay(kind, notional) ==
  IF kind = "prediction" THEN notional + Friction(kind, notional) + Bps(notional, Fee(kind))
  ELSE LET gross == notional + Bps(notional, AdverseBps(kind)) IN gross + Bps(gross, Fee(kind))

NetProceeds(kind, gross) ==
  IF kind = "prediction" THEN gross - Friction(kind, gross) - Bps(gross, Fee(kind))
  ELSE LET got == gross - Bps(gross, AdverseBps(kind)) IN got - Bps(got, Fee(kind))

\* A fill of nothing that opens a position divides by nothing, outside a prediction market:
\* the engine fails and the tick is lost, for which the quantity -1 stands (Valid).
Filled(kind, held, m, notional) ==
  IF kind # "prediction" /\ held = 0 /\ notional = 0 THEN -1
  ELSE held + Rounded(notional * Lot, m)

\* _execute_buy at the mark m.
Buy(b, i, m, notional) ==
  LET outlay == Outlay(b.kind, notional)
  IN  [b EXCEPT !.cash = @ - outlay, !.basis[i] = @ + outlay, !.mark[i] = m,
                !.quantity[i] = Filled(b.kind, @, m, notional)]

\* Mutant: what is left keeps the cost of the whole position.
BasisKept(basis, left, held) == basis

BasisLeft(basis, left, held) == Share(basis, left, held)

\* _execute_sell of a quantity at the mark m for net proceeds.
Sell(b, i, m, sold, net) ==
  LET held == b.quantity[i]
      cost == Share(b.basis[i], sold, held)
  IN  [b EXCEPT !.cash = @ + net, !.realized = @ + net - cost,
                !.quantity[i] = held - sold, !.mark[i] = m, !.sales = @ + 1,
                !.basis[i] = IF sold = held THEN 0 ELSE BasisLeft(@, held - sold, held)]

\* The quantity sold for a notional; a cent short of everything is everything.
SoldQuantity(b, i, m, notional) ==
  IF notional >= Rounded(b.quantity[i] * m, Lot) - 1 THEN b.quantity[i]
  ELSE Min({b.quantity[i], Rounded(notional * Lot, m)})

SellFor(b, i, m, notional) ==
  LET sold == SoldQuantity(b, i, m, notional)
  IN  IF sold = 0 THEN b
      ELSE Sell(b, i, m, sold, NetProceeds(b.kind, Rounded(sold * m, Lot)))

-----------------------------------------------------------------------------
\* _mark_book
Marked(b, snapshot) ==
  [b EXCEPT !.mark = [i \in Instruments |->
                        IF i \in Held(b) /\ snapshot[i].fresh THEN snapshot[i].mark ELSE @[i]],
            !.stale = {i \in Held(b) : ~snapshot[i].fresh}]

\* _settle_terminal_positions: a held outcome is closed whole at its terminal mark, free of
\* cost, unless the book has crashed.
Settles(b, snapshot, i) ==
  /\ b.kind = "prediction" /\ ~b.crashed
  /\ i \in Held(b) /\ snapshot[i].fresh /\ snapshot[i].settled

All == [i \in Instruments |-> i]

Closed(x, snapshot, i) ==
  IF Settles(x, snapshot, i) THEN Sell(x, i, snapshot[i].mark, x.quantity[i], Value(x, i)) ELSE x

Settled(b, snapshot) == FoldLeft(LAMBDA x, i : Closed(x, snapshot, i), b, All)

Tradable(snapshot, i) == snapshot[i].fresh /\ snapshot[i].eligible /\ ~snapshot[i].settled

\* Mutant: the legs that are fresh are bought without waiting for the others.
SeedSome(snapshot) == \E i \in Instruments : Tradable(snapshot, i)

\* _seed_instruments: every leg of the seed must be there (both outcomes of one market, or
\* each seed symbol).
SeedReady(snapshot) == \A i \in Instruments : Tradable(snapshot, i)

\* _split_notional
Slice(total, count, n) == total \div count + (IF n <= total % count THEN 1 ELSE 0)

\* _seed_book: buys what the seed still lacks, each leg its slice.
Leg(x, snapshot, lacking, i) ==
  LET legs == {j \in Instruments : Tradable(snapshot, j)}
      nth == Cardinality({j \in legs : j <= i})
  IN  IF i \in legs THEN Buy(x, i, snapshot[i].mark, Slice(lacking, Cardinality(legs), nth)) ELSE x

Legs(b, snapshot, lacking) == FoldLeft(LAMBDA x, i : Leg(x, snapshot, lacking, i), b, All)

Seeded(b, snapshot) ==
  LET lacking == Seed - Basis(b)
      bought == Legs(b, snapshot, lacking)
  IN  IF lacking <= 1 THEN [b EXCEPT !.complete = TRUE]
      ELSE IF ~SeedReady(snapshot) THEN b
      ELSE [bought EXCEPT !.complete = Basis(bought) >= Seed - 1]

\* _target_notionals: the first eligible instruments of the ranking share the gross target.
Eligible(snapshot) == {i \in Instruments : Tradable(snapshot, i) /\ snapshot[i].mark > 0}

Given(t, i, eligible, cap) ==
  LET part == Min({cap, Rounded(t.left, t.slots)})
  IN  IF i \notin eligible \/ t.slots = 0 THEN t
      ELSE [left |-> t.left - part, slots |-> t.slots - 1, target |-> [t.target EXCEPT ![i] = part]]

Allotted(t, eligible, cap, ranking) ==
  FoldLeft(LAMBDA x, i : Given(x, i, eligible, cap), t, ranking)

Targets(b, snapshot, ranking) ==
  LET eligible == Eligible(snapshot)
      cap == Rounded(Equity(b) * b.line.cap, 100)
      all == [left |-> Rounded(Equity(b) * b.line.gross, 100),
              slots |-> Min({b.line.count, Cardinality(eligible)}),
              target |-> [i \in Instruments |-> 0]]
  IN  IF eligible = {} THEN [i \in Instruments |-> Value(b, i)]
      ELSE Allotted(all, eligible, cap, ranking).target

\* The cash a buy may use, costs included.
Affordable(b) == Without(Without(b.cash, AdverseBps(b.kind)), Fee(b.kind))

\* _rebalance_book: material sells first, then material buys with the cash there is.
Size(line, delta) == Min({line.maximum, IF delta < 0 THEN -delta ELSE delta})

Lowered(x, snapshot, delta, i) ==
  IF delta[i] < 0 /\ Size(x.line, delta[i]) >= x.line.minimum
  THEN SellFor(x, i, snapshot[i].mark, Size(x.line, delta[i])) ELSE x

Raised(x, snapshot, delta, i) ==
  IF delta[i] > 0 /\ Size(x.line, delta[i]) >= x.line.minimum
  THEN Buy(x, i, snapshot[i].mark, Min({Size(x.line, delta[i]), Affordable(x)})) ELSE x

Sells(b, snapshot, delta) == FoldLeft(LAMBDA x, i : Lowered(x, snapshot, delta, i), b, All)
Buys(b, snapshot, delta) == FoldLeft(LAMBDA x, i : Raised(x, snapshot, delta, i), b, All)

Rebalanced(b, snapshot, ranking) ==
  LET target == Targets(b, snapshot, ranking)
      delta == [i \in Instruments |-> target[i] - Value(b, i)]
  IN  Buys(Sells(b, snapshot, delta), snapshot, delta)

\* Mutant: a book trades on although the mark of a position it holds is stale.
NeverFrozen(b) == FALSE

Frozen(b) == b.stale \cap Held(b) # {}

\* process_tick for one book.
Ticked(b, snapshot, ranking) ==
  LET now == Settled(Marked(b, snapshot), snapshot)
  IN  IF now.crashed \/ Equity(now) <= Threshold THEN [now EXCEPT !.crashed = TRUE]
      ELSE IF Frozen(now) THEN now
      ELSE IF now.complete THEN Rebalanced(now, snapshot, ranking)
      ELSE Seeded(now, snapshot)

\* A paper state and a ledger with negative cash, quantities or costs are rejected, and
\* nothing of the tick is kept.
Valid(b) ==
  /\ b.cash >= 0
  /\ \A i \in Instruments : b.quantity[i] >= 0 /\ b.basis[i] >= 0

Init ==
  /\ \E kind \in Kinds, line \in Lines : book = NewBook(kind, line)
  /\ offered = book /\ ticks = 0

\* A tick on one snapshot.  Only a prediction quote can be settled.
Tick(snapshot, ranking) ==
  /\ ticks < MaxTicks /\ ticks' = ticks + 1
  /\ book.kind # "prediction" => \A i \in Instruments : ~snapshot[i].settled
  /\ offered' = Ticked(book, snapshot, ranking)
  /\ book' = IF Valid(offered') THEN offered' ELSE book

Next == \E snapshot \in [Instruments -> Quotes], ranking \in Rankings : Tick(snapshot, ranking)

Spec == Init /\ [][Next]_vars

-----------------------------------------------------------------------------
\* The books balance: the cash and what the open positions cost are the starting balance and
\* the realised result, but for a cent of each sale that split a position.
BooksBalance ==
  LET drift == book.cash + Basis(book) - Start - book.realized
  IN  drift \in -book.sales .. book.sales

\* The seed happens once and whole: until then nothing of the book has moved but its marks;
\* it buys every leg for the seed and its costs; nothing is seeded again after it.
SeedStep ==
  /\ ~book'.complete => book' = [NewBook(book.kind, book.line) EXCEPT !.crashed = book'.crashed]
  /\ book.complete => book'.complete
  /\ book'.complete /\ ~book.complete =>
       /\ Held(book') = Instruments
       /\ Basis(book') \in Seed .. Seed + Seed \div 100

SeedOnce == [][SeedStep]_vars

\* A book that has crashed never trades again, and one with a stale open mark changes its
\* holdings by settlement only: a prediction book may see positions closed whole, never one
\* whose mark is stale, and no other book sells or buys anything, not even what is fresh.
SettledOnly ==
  \A i \in Instruments :
    \/ book'.quantity[i] = book.quantity[i]
    \/ book.kind = "prediction" /\ i \notin book'.stale /\ book'.quantity[i] = 0

TradeStep ==
  /\ book.crashed => book' = [book EXCEPT !.mark = book'.mark, !.stale = book'.stale]
  /\ book'.stale # {} => SettledOnly

TradesGuarded == [][TradeStep]_vars

\* docs/mosaic-and-murmurs-autonomous-paper-engine.md:71 "no leverage, shorting, cross-book
\* transfers, or negative cash": no tick of the engine leaves a book with negative cash.
NoNegativeCash == offered.cash >= 0
=============================================================================
