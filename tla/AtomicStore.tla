---------------------------- MODULE AtomicStore -----------------------------
(***************************************************************************)
(* What a store promises the handlers that call it, without statements,    *)
(* locks or retries: each request is settled in one step, which either     *)
(* takes over all its changes or none of them; a success means all. An     *)
(* error may come with either, for a connection can break after the commit.*)
(***************************************************************************)
EXTENDS Integers

CONSTANTS Clients, \* one request each
          Rows,    \* the gauges and counters of the store
          Changes  \* what a client may ask for

VARIABLES
    rows,    \* the value of each row
    change,  \* what each client asked for: the rows it sets and the rows it adds to
    answer   \* "none", "ok" or "error" for each client

storeVars == <<rows, change, answer>>

NoChange == [sets |-> <<>>, adds |-> <<>>]

Changed(u, rs) ==
    [r \in Rows |->
        IF r \in DOMAIN u.sets THEN u.sets[r]
        ELSE IF r \in DOMAIN u.adds THEN rs[r] + u.adds[r]
        ELSE rs[r]]

StoreInit ==
    /\ rows = [r \in Rows |-> 0]
    /\ change = [k \in Clients |-> NoChange]
    /\ answer = [k \in Clients |-> "none"]

Ask(k) ==
    /\ change[k] = NoChange /\ answer[k] = "none"
    /\ \E u \in Changes : change' = [change EXCEPT ![k] = u]
    /\ answer' \in {answer, [answer EXCEPT ![k] = "error"]}
    /\ UNCHANGED rows

Settle(k) ==
    /\ answer[k] = "none"
    /\ \/ rows' = Changed(change[k], rows) /\ answer' = [answer EXCEPT ![k] = "ok"]
       \/ rows' \in {rows, Changed(change[k], rows)}
          /\ answer' = [answer EXCEPT ![k] = "error"]
    /\ UNCHANGED change

StoreNext == \E k \in Clients : Ask(k) \/ Settle(k)

StoreSpec == StoreInit /\ [][StoreNext]_storeVars
=============================================================================
