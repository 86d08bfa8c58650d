-------------------------- MODULE UnitAccountContract --------------------------
(***************************************************************************)
(* What a customer is promised of the Units paid for, with no job, lock or *)
(* period in it.  Units come in lots: what a plan grants a period, and     *)
(* each package bought.  An order takes its Units out of open lots, all or *)
(* none of them, never a Unit that another order has; then its Units are   *)
(* spent once or come back once.  A lot may be withdrawn, and one that is  *)
(* paid back for the customer's own mistake has none of its Units out, nor *)
(* ever will.                                                              *)
(***************************************************************************)
EXTENDS Integers, Sequences, FiniteSets

VARIABLES
  lots,     \* the lots granted, each [units, standing]
  orders    \* in the order they were taken, each [units, taken, state]

contractVars == <<lots, orders>>

Standing == {"OPEN", "PAID_BACK", "TAKEN_BACK"}

\* Units of a lot that some order has and has not returned; a Unit of an order is
\* the order and a number.
Out(l) ==
  Cardinality(UNION {{n} \X (1..orders[n].taken[l]) :
    n \in {m \in DOMAIN orders :
             orders[m].state # "RETURNED" /\ l \in DOMAIN orders[m].taken}})

Left(l) == lots[l].units - Out(l)

ContractInit ==
  /\ lots = [l \in {} |-> 0]
  /\ orders = << >>

\* A new lot, open and untouched; the others stay as they are.
Grant ==
  /\ DOMAIN lots \subseteq DOMAIN lots'
  /\ \E l \in DOMAIN lots' \ DOMAIN lots :
       /\ DOMAIN lots' = DOMAIN lots \cup {l}
       /\ lots'[l].standing = "OPEN"
  /\ \A l \in DOMAIN lots : lots'[l] = lots[l]

\* The order is funded in full, from open lots, out of what they have left.
Funded(order) ==
  /\ order.state = "HELD"
  /\ DOMAIN order.taken \subseteq DOMAIN lots
  /\ \A l \in DOMAIN order.taken :
       /\ order.taken[l] \in 1..Left(l)
       /\ lots[l].standing = "OPEN"
  /\ Cardinality(UNION {{l} \X (1..order.taken[l]) : l \in DOMAIN order.taken}) = order.units

Take ==
  /\ Len(orders') = Len(orders) + 1
  /\ orders' = Append(orders, orders'[Len(orders) + 1])
  /\ Funded(orders'[Len(orders) + 1])

Settle(n, state) ==
  /\ orders[n].state = "HELD"
  /\ orders' = [orders EXCEPT ![n].state = state]

Withdraw(l, standing) ==
  /\ lots[l].standing = "OPEN"
  /\ standing = "PAID_BACK" => Out(l) = 0
  /\ lots' = [lots EXCEPT ![l].standing = standing]

\* One thing happens at a time: to the lots, or to the orders.
ContractNext ==
  \/ /\ UNCHANGED orders /\ lots' # lots
     /\ \/ Grant
        \/ \E l \in DOMAIN lots, s \in {"PAID_BACK", "TAKEN_BACK"} : Withdraw(l, s)
  \/ /\ UNCHANGED lots /\ orders' # orders
     /\ \/ Take
        \/ \E n \in DOMAIN orders, s \in {"SPENT", "RETURNED"} : Settle(n, s)

Contract == ContractInit /\ [][ContractNext]_contractVars
================================================================================
