---------------------------- MODULE SharedStore -----------------------------
(***************************************************************************)
(* What the instances of one RDB path promise together (README: "last to   *)
(* close shuts it down"): while anybody holds the store a single server    *)
(* serves it; whoever leaves last stops it; and what has been written is   *)
(* there when the next server comes up.                                    *)
(***************************************************************************)
CONSTANT Holders, Keys

VARIABLES
    serving,    \* is the server up?
    holding,    \* the instances that hold the store
    contents    \* the keys written so far

vars == <<serving, holding, contents>>

Init == ~serving /\ holding = {} /\ contents = {}

Start ==
    /\ ~serving /\ holding = {}
    /\ serving' = TRUE
    /\ UNCHANGED <<holding, contents>>

Join(h) ==
    /\ serving /\ h \notin holding
    /\ holding' = holding \cup {h}
    /\ UNCHANGED <<serving, contents>>

Write(h, k) ==
    /\ serving /\ h \in holding
    /\ contents' = contents \cup {k}
    /\ UNCHANGED <<serving, holding>>

Leave(h) ==
    /\ h \in holding
    /\ holding' = holding \ {h}
    /\ UNCHANGED <<serving, contents>>

Stop ==
    /\ serving /\ holding = {}
    /\ serving' = FALSE
    /\ UNCHANGED <<holding, contents>>

Next ==
    \/ Start \/ Stop
    \/ \E h \in Holders : Join(h) \/ Leave(h) \/ \E k \in Keys : Write(h, k)

\* A store that nobody holds does not stay up.
Spec == Init /\ [][Next]_vars /\ WF_vars(Stop)
=============================================================================
