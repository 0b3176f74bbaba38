-------------------------------- MODULE Market --------------------------------
(***************************************************************************)
(* The global market (crates/fc-net/src/market.rs): an order book and a    *)
(* wallet per account in the accounts database, written by the sim threads *)
(* of every world at once, against stockpiles each thread keeps in memory. *)
(*                                                                         *)
(* Every SQL statement commits by itself, so a handler is one action per   *)
(* statement, with the thread's local work in the action of the statement  *)
(* it follows.  One good stands for the five (they never mix, except when  *)
(* an order is not the order it was: see `stale`); amounts and prices are  *)
(* small naturals.                                                         *)
(***************************************************************************)
EXTENDS Integers, FiniteSets, FiniteSetsExt, Functions

CONSTANTS
  Accounts,
  Worlds,        \* the running worlds
  CentralWorlds, \* those of them with state.central
  Plays,         \* the pairs <<account, world>> of connections that may exist
  Stock0,        \* world -> its stockpile at the start
  Amounts,       \* amounts a command may name
  Prices,        \* unit prices a command may name
  MaxOrders,     \* MAX_ORDERS_PER_ACCOUNT
  Failing,       \* whether a statement may fail (busy_timeout, disk)
  Crashing,      \* whether the process may be killed
  MaxPosts       \* bound: orders ever inserted

Pile == [gold : Nat, wood : Nat]

ASSUME MarketAssumption ==
  /\ IsFiniteSet(Accounts) /\ IsFiniteSet(Worlds) /\ CentralWorlds \subseteq Worlds
  /\ Plays \subseteq Accounts \X Worlds
  /\ Stock0 \in [Worlds -> Pile]
  /\ Amounts \subseteq Nat \ {0} /\ Prices \subseteq Nat \ {0}
  /\ MaxOrders \in Nat /\ MaxPosts \in Nat
  /\ Failing \in BOOLEAN /\ Crashing \in BOOLEAN

VARIABLES
  stock,   \* world -> state.stock
  saved,   \* world -> the stock in its save file
  orders,  \* market_orders: rowid -> [account, amount, price, selling]
  wallet,  \* market_wallet: account -> Pile (no row: nothing owed)
  op,      \* world -> the command its thread is inside of, Idle if none
  posts,   \* orders ever inserted
  uncounted, \* history: account -> its orders inserted although the count was at its limit
  stale,   \* history: an UPDATE hit an order other than the one SELECTed
  lost,    \* history: a credit could not be written
  crashed  \* history: the process has been killed at least once

marketVars == <<stock, saved, orders, wallet, op, posts, uncounted, stale, lost, crashed>>

Idle    == [at |-> "idle"]
Nothing == [gold |-> 0, wood |-> 0]
Plus(p, q) == [gold |-> p.gold + q.gold, wood |-> p.wood + q.wood]
Covers(p, q) == p.gold >= q.gold /\ p.wood >= q.wood
Minus(p, q) == [gold |-> p.gold - q.gold, wood |-> p.wood - q.wood]
Goods(n) == [gold |-> 0, wood |-> n]
Gold(n)  == [gold |-> n, wood |-> 0]

\* What n units of an order hold in escrow, and what filling them yields the
\* poster.
Escrow(o, n)   == IF o.selling THEN Goods(n) ELSE Gold(n * o.price)
Proceeds(o, n) == IF o.selling THEN Gold(n * o.price) ELSE Goods(n)

OpenOrders(a) == {i \in DOMAIN orders : orders[i].account = a /\ orders[i].amount > 0}

\* INTEGER PRIMARY KEY without AUTOINCREMENT: one above the largest in use.
NextRow == Max(DOMAIN orders \cup {0}) + 1

TradingWorld(w) == w \notin CentralWorlds

MarketInit ==
  /\ stock = Stock0 /\ saved = Stock0
  /\ orders = [i \in {} |-> Nothing]
  /\ wallet = [a \in Accounts |-> Nothing]
  /\ op = [w \in Worlds |-> Idle]
  /\ posts = 0 /\ uncounted = [a \in Accounts |-> 0]
  /\ stale = FALSE /\ lost = FALSE /\ crashed = FALSE

-----------------------------------------------------------------------------
(* post *)

\* Mutant: an account at its limit posts one more.
HasRoom_OneMore(a, n) == n <= MaxOrders

HasRoom(a, n) == n < MaxOrders

\* What the COUNT makes of the open orders: how many there are, or none if it fails
\* (`unwrap_or(0)`).
Counts(a) == {Cardinality(OpenOrders(a))} \cup (IF Failing THEN {0} ELSE {})

\* Affordable out of the stock of the world the command came from.
Affords_Free(w, cost) == TRUE

Affords(w, cost) == Covers(stock[w], cost)

\* PostOrder: count the account's open orders, check affordability.  `counted`: the limit was
\* held against the orders there are.
PostCount(w, a, n, p, selling) ==
  LET o == [account |-> a, amount |-> n, price |-> p, selling |-> selling]
  IN  /\ op[w] = Idle /\ <<a, w>> \in Plays /\ TradingWorld(w)
      /\ \E open \in Counts(a) : HasRoom(a, open)
      /\ Affords(w, Escrow(o, n))
      /\ op' = [op EXCEPT ![w] = [at |-> "post", by |-> a, order |-> o,
                                  counted |-> HasRoom(a, Cardinality(OpenOrders(a)))]]
      /\ UNCHANGED <<stock, saved, orders, wallet, posts, uncounted, stale, lost, crashed>>

\* The INSERT; once it stands, the escrow leaves the stock.
PostInsert(w) ==
  LET o == op[w].order
  IN  /\ op[w].at = "post" /\ posts < MaxPosts
      /\ orders' = [i \in DOMAIN orders \cup {NextRow} |->
                      IF i = NextRow THEN o ELSE orders[i]]
      /\ stock' = [stock EXCEPT ![w] = Minus(@, Escrow(o, o.amount))]
      /\ op' = [op EXCEPT ![w] = Idle]
      /\ posts' = posts + 1
      /\ uncounted' = [uncounted EXCEPT ![op[w].by] = IF op[w].counted THEN @ ELSE @ + 1]
      /\ UNCHANGED <<saved, wallet, stale, lost, crashed>>

-----------------------------------------------------------------------------
(* take *)

\* TakeOrder: read the row, clamp the amount, check affordability.
TakeSelect(w, a, i, want) ==
  /\ op[w] = Idle /\ <<a, w>> \in Plays /\ TradingWorld(w)
  /\ i \in DOMAIN orders /\ orders[i].amount > 0 /\ orders[i].account # a
  /\ LET o == orders[i]
         n == IF want < o.amount THEN want ELSE o.amount
     IN  /\ Affords(w, Proceeds(o, n))
         /\ op' = [op EXCEPT ![w] = [at |-> "take", by |-> a, row |-> i, order |-> o, qty |-> n]]
  /\ UNCHANGED <<stock, saved, orders, wallet, posts, uncounted, stale, lost, crashed>>

\* `WHERE id = ?1 AND amount >= ?2`.
StillThere_NoGuard(i, n) == i \in DOMAIN orders

StillThere(i, n) == i \in DOMAIN orders /\ orders[i].amount >= n

Left(i, n) == IF orders[i].amount > n THEN orders[i].amount - n ELSE 0

\* The guarded UPDATE; the taker's side settles in memory when it matched.
TakeUpdate(w) ==
  LET o == op[w].order  i == op[w].row  n == op[w].qty
  IN  /\ op[w].at = "take"
      /\ StillThere(i, n)
      /\ orders' = [orders EXCEPT ![i].amount = Left(i, n)]
      /\ stock' = [stock EXCEPT ![w] = Plus(Minus(@, Proceeds(o, n)), Escrow(o, n))]
      /\ op' = [op EXCEPT ![w] = [at |-> "credit", by |-> o.account,
                                  pile |-> Proceeds(o, n), then |-> "sweep"]]
      /\ stale' = (stale \/ [orders[i] EXCEPT !.amount = 0] # [o EXCEPT !.amount = 0])
      /\ UNCHANGED <<saved, wallet, posts, uncounted, lost, crashed>>

\* The UPDATE changed no row: "Someone else took that order first."
TakeLost(w) ==
  /\ op[w].at = "take"
  /\ ~StillThere(op[w].row, op[w].qty)
  /\ op' = [op EXCEPT ![w] = Idle]
  /\ UNCHANGED <<stock, saved, orders, wallet, posts, uncounted, stale, lost, crashed>>

\* credit_wallet_gold / credit_wallet_good, for the poster of a filled order or
\* the refund of a cancelled one.
Credited(a, pile) == [wallet EXCEPT ![a] = Plus(@, pile)]

Credit(w) ==
  /\ op[w].at = "credit"
  /\ wallet' = Credited(op[w].by, op[w].pile)
  /\ op' = [op EXCEPT ![w] = IF op[w].then = "sweep" THEN [at |-> "sweep"] ELSE Idle]
  /\ UNCHANGED <<stock, saved, orders, posts, uncounted, stale, lost, crashed>>

\* `DELETE FROM market_orders WHERE amount <= 0`.
Sweep(w) ==
  /\ op[w].at = "sweep"
  /\ orders' = Restrict(orders, {i \in DOMAIN orders : orders[i].amount > 0})
  /\ op' = [op EXCEPT ![w] = Idle]
  /\ UNCHANGED <<stock, saved, wallet, posts, uncounted, stale, lost, crashed>>

-----------------------------------------------------------------------------
(* cancel, claim_wallet *)

\* CancelOrder: DELETE..RETURNING of the account's own row; what never filled
\* is on its way to the wallet.
Cancel(w, a, i) ==
  /\ op[w] = Idle /\ <<a, w>> \in Plays /\ TradingWorld(w)
  /\ i \in DOMAIN orders /\ orders[i].account = a
  /\ orders' = Restrict(orders, DOMAIN orders \ {i})
  /\ op' = [op EXCEPT ![w] =
              IF orders[i].amount = 0 THEN Idle
              ELSE [at |-> "credit", by |-> a, pile |-> Escrow(orders[i], orders[i].amount), then |-> "done"]]
  /\ UNCHANGED <<stock, saved, wallet, posts, uncounted, stale, lost, crashed>>

\* claim_wallet, at every account join: DELETE..RETURNING into the stock.
\* Mutant: the wallet is read and paid out, and stays.
Emptied_Kept(a) == wallet

Emptied(a) == [wallet EXCEPT ![a] = Nothing]

Claim(w, a) ==
  /\ op[w] = Idle /\ <<a, w>> \in Plays /\ TradingWorld(w)
  /\ wallet[a] # Nothing
  /\ stock' = [stock EXCEPT ![w] = Plus(@, wallet[a])]
  /\ wallet' = Emptied(a)
  /\ UNCHANGED <<saved, orders, op, posts, uncounted, stale, lost, crashed>>

-----------------------------------------------------------------------------
(* Failing statements, saves, crashes *)

\* The statement the thread is about to run fails.  A failed INSERT or UPDATE refuses the
\* command; a failed credit or sweep is ignored (`let _ =`).  A command whose first statement
\* fails is refused and changes nothing - but a post, see Counts.
Fail(w) ==
  /\ Failing
  /\ op[w].at \in {"post", "take", "credit", "sweep"}
  /\ op' = [op EXCEPT ![w] = IF op[w].at = "credit" /\ op[w].then = "sweep"
                               THEN [at |-> "sweep"] ELSE Idle]
  /\ lost' = (lost \/ op[w].at = "credit")
  /\ UNCHANGED <<stock, saved, orders, wallet, posts, uncounted, stale, crashed>>

\* The world's thread saves between two messages.
Save(w) ==
  /\ Crashing /\ op[w] = Idle
  /\ saved' = [saved EXCEPT ![w] = stock[w]]
  /\ UNCHANGED <<stock, orders, wallet, op, posts, uncounted, stale, lost, crashed>>

\* The process is killed and restarted: the database keeps every committed
\* statement, the worlds come back from their save files.
Crash ==
  /\ Crashing
  /\ stock' = saved
  /\ op' = [w \in Worlds |-> Idle]
  /\ crashed' = TRUE
  /\ UNCHANGED <<saved, orders, wallet, posts, uncounted, stale, lost>>

MarketNext ==
  \/ \E w \in Worlds, a \in Accounts, n \in Amounts :
       \/ \E p \in Prices, selling \in BOOLEAN : PostCount(w, a, n, p, selling)
       \/ \E i \in DOMAIN orders : TakeSelect(w, a, i, n)
  \/ \E w \in Worlds : PostInsert(w) \/ TakeUpdate(w) \/ TakeLost(w) \/ Credit(w) \/ Sweep(w)
  \/ \E w \in Worlds, a \in Accounts : Claim(w, a) \/ \E i \in DOMAIN orders : Cancel(w, a, i)
  \/ \E w \in Worlds : Fail(w) \/ Save(w)
  \/ Crash

MarketSpec == MarketInit /\ [][MarketNext]_marketVars

-----------------------------------------------------------------------------
(* Properties *)

\* Every variable has its type: in particular no stockpile is overdrawn, no order goes below
\* nothing, and an id is a positive number.
Order == [account : Accounts, amount : Nat, price : Prices, selling : BOOLEAN]
OpType(o) ==
  \/ o.at \in {"idle", "sweep"}
  \/ o.at = "post" /\ o.by \in Accounts /\ o.order \in Order /\ o.counted \in BOOLEAN
  \/ o.at = "take" /\ o.row \in Nat /\ o.order \in Order /\ o.qty \in Nat
  \/ o.at = "credit" /\ o.by \in Accounts /\ o.pile \in Pile /\ o.then \in {"sweep", "done"}
TypeOK ==
  /\ stock \in [Worlds -> Pile] /\ saved \in [Worlds -> Pile]
  /\ wallet \in [Accounts -> Pile]
  /\ IsFiniteSet(DOMAIN orders) /\ DOMAIN orders \subseteq Nat \ {0}
  /\ orders \in [DOMAIN orders -> Order]
  /\ op = [w \in Worlds |-> op[w]] /\ \A w \in Worlds : OpType(op[w])
  /\ posts \in Nat /\ uncounted \in [Accounts -> Nat]
  /\ stale \in BOOLEAN /\ lost \in BOOLEAN /\ crashed \in BOOLEAN

\* How much there is of a kind: in stockpiles, in escrow, in wallets and on its way to one.
OnTheWay(o) == IF o.at = "credit" THEN o.pile ELSE Nothing
Stocks(k)   == SumFunction([w \in Worlds |-> stock[w][k]])
Escrowed(k) == SumFunction([i \in DOMAIN orders |-> Escrow(orders[i], orders[i].amount)[k]])
Owed(k)     == SumFunction([a \in Accounts |-> wallet[a][k]])
Moving(k)   == SumFunction([w \in Worlds |-> OnTheWay(op[w])[k]])

Everything(k) == Stocks(k) + Escrowed(k) + Owed(k) + Moving(k)
Endowment(k)  == SumFunction([w \in Worlds |-> Stock0[w][k]])

\* Trading moves gold and goods and neither makes nor destroys any, however the statements of
\* posts, takes, cancels and claims in different worlds interleave - as long as every UPDATE
\* hit the order its SELECT had read.  A credit that could not be written loses what it was
\* moving and doubles nothing; only a crash, which takes a colony back to its save while the
\* book stands, can.
GoodsAndGoldKept ==
  ~stale /\ ~crashed => \A k \in {"gold", "wood"} :
    /\ Everything(k) <= Endowment(k)
    /\ ~lost => Everything(k) = Endowment(k)

\* A colony never hands over what it does not have: what a command is about to take out of the
\* stock is still there when its statement has run, a database round trip after the check.
CommandsCovered ==
  \A w \in Worlds :
    /\ op[w].at = "post" => Covers(stock[w], Escrow(op[w].order, op[w].order.amount))
    /\ op[w].at = "take" => Covers(stock[w], Proceeds(op[w].order, op[w].qty))

\* The worlds an account may trade from: its own, and those it visits.
Outlets(a) == {w \in Worlds : <<a, w>> \in Plays /\ TradingWorld(w)}

\* What is left of MAX_ORDERS_PER_ACCOUNT, the "most open orders one account may hold"
\* (market.rs:35), whose count is read a statement before the insert it allows and is taken for
\* none when it fails: an account exceeds it by the orders posted on a failed count and by less
\* than the number of worlds it posts from at the same time.
LimitNearlyKept ==
  \A a \in Accounts : OpenOrders(a) # {} =>
    Cardinality(OpenOrders(a)) < MaxOrders + Cardinality(Outlets(a)) + uncounted[a]

\* What is left, when a command's statement runs, of what its checks read: what it takes out of a
\* stock is still there, in a world that came back from its save too, and the limit on open orders
\* is exceeded by no more than failed counts and simultaneous posts explain.
ReadsStillTrue == CommandsCovered /\ LimitNearlyKept

=============================================================================
