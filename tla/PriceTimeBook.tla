---------------------------- MODULE PriceTimeBook ----------------------------
(***************************************************************************)
(* What an order book promises ("strict price-time (FIFO) priority"): per  *)
(* side and price one queue of orders, oldest first.  There is no locator, *)
(* no list node and no aggregate here: an order is found by looking for it.*)
(***************************************************************************)
EXTENDS Naturals, Sequences, SequencesExt

CONSTANTS Ids, Prices, Sides,
          Quantities   \* a set of naturals

VARIABLES queue,   \* queue[side][price]: orders [id, quantity], oldest first
          last     \* the latest call: its arguments and what it returned

vars == <<queue, last>>

Init ==
  /\ queue = [s \in Sides |-> [p \in Prices |-> << >>]]
  /\ last = [call |-> << >>, ret |-> TRUE]

(* The order id is the i-th in the queue at price p of side s. *)
IsAt(id, s, p, i) == i \in DOMAIN queue[s][p] /\ queue[s][p][i].id = id

Rests(id) == \E s \in Sides, p \in Prices : \E i \in DOMAIN queue[s][p] : IsAt(id, s, p, i)

Without(s, p, i) == [queue EXCEPT ![s][p] = RemoveAt(@, i)]

Return(call, ret) == last' = [call |-> call, ret |-> ret]

Refuse(call) == Return(call, FALSE) /\ UNCHANGED queue

Add(id, s, p, q) ==
  LET call == <<"add", id, s, p, q>>
  IN  \/ /\ q > 0 /\ ~Rests(id)
         /\ queue' = [queue EXCEPT ![s][p] = Append(@, [id |-> id, quantity |-> q])]
         /\ Return(call, TRUE)
      \/ (q = 0 \/ Rests(id)) /\ Refuse(call)

Cancel(id) ==
  \/ \E s \in Sides, p \in Prices : \E i \in DOMAIN queue[s][p] :
       /\ IsAt(id, s, p, i)
       /\ queue' = Without(s, p, i)
       /\ Return(<<"cancel", id>>, TRUE)
  \/ ~Rests(id) /\ Refuse(<<"cancel", id>>)

(* A size reduction at the same price happens in place; any other change   *)
(* sends the order to the back of the queue.                               *)
Modify(id, p2, q2) ==
  LET call == <<"modify", id, p2, q2>>
  IN  \/ \E s \in Sides, p \in Prices : \E i \in DOMAIN queue[s][p] :
           /\ IsAt(id, s, p, i)
           /\ queue' =
                CASE q2 = 0 -> Without(s, p, i)
                  [] q2 > 0 /\ p2 = p /\ q2 <= queue[s][p][i].quantity ->
                       [queue EXCEPT ![s][p][i].quantity = q2]
                  [] OTHER ->
                       [Without(s, p, i) EXCEPT
                         ![s][p2] = Append(@, [id |-> id, quantity |-> q2])]
           /\ Return(call, TRUE)
      \/ ~Rests(id) /\ Refuse(call)

(* A fill of at most what rests; a fully filled order leaves. *)
Execute(id, q) ==
  LET call == <<"execute", id, q>>
  IN  \/ \E s \in Sides, p \in Prices : \E i \in DOMAIN queue[s][p] :
           /\ IsAt(id, s, p, i)
           /\ queue' = IF q >= queue[s][p][i].quantity THEN Without(s, p, i)
                       ELSE [queue EXCEPT ![s][p][i].quantity = @ - q]
           /\ Return(call, TRUE)
      \/ ~Rests(id) /\ Refuse(call)

Clear ==
  /\ queue' = [s \in Sides |-> [p \in Prices |-> << >>]]
  /\ Return(<<"clear">>, TRUE)

Next ==
  \/ \E id \in Ids, s \in Sides, p \in Prices, q \in Quantities : Add(id, s, p, q)
  \/ \E id \in Ids : Cancel(id)
  \/ \E id \in Ids, p \in Prices, q \in Quantities : Modify(id, p, q)
  \/ \E id \in Ids, q \in Quantities : Execute(id, q)
  \/ Clear

Spec == Init /\ [][Next]_vars
==============================================================================
