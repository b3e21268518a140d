---------------------------- MODULE PanelSearch ----------------------------
(***************************************************************************)
(* The search box of web/src/pages/ServerCatalog.tsx and of                *)
(* ServerModpacks.tsx, the same code twice: the query is debounced, and a  *)
(* sequence number tells the last search from the older ones.              *)
(*                                                                         *)
(* In view.box: the query (Short stands for all that are not searched      *)
(* for), whether the debounce timer runs, and the hits drawn: None, the    *)
(* query they are of, or Nothing for a search that failed.                 *)
(***************************************************************************)
EXTENDS PanelApi

CONSTANTS Queries \* queries of two letters and more

Short == "short"
Nothing == "nothing"

emptyBox == [query |-> Short, timer |-> FALSE, hits |-> None]

BoxType == [query : Queries \cup {Short}, timer : BOOLEAN,
            hits : Queries \cup {None, Nothing}]

\* The effect on [query]: `ready` is what the search needs besides.  With a
\* new sequence number the answers to the older searches are ignored; a query
\* that is not searched for takes none, and the last search still counts.
Typed(box, query, ready) ==
    IF ready /\ query # Short THEN [box EXCEPT !.query = query, !.timer = TRUE]
                              ELSE [query |-> query, timer |-> FALSE, hits |-> None]

\* Mutant: the sequence number is not compared.
AnyAnswer(cs, query, ready) == cs

Superseded(cs, query, ready) ==
    IF ready /\ query # Short THEN Forget(cs, {"search"}) ELSE cs

Type(query, ready) ==
    /\ query # view.box.query
    /\ view' = [view EXCEPT !.box = Typed(@, query, ready)]
    /\ calls' = Superseded(calls, query, ready)
    /\ UNCHANGED <<apiVars, host>>

\* The timer of the debounce.
Search ==
    /\ view.box.timer
    /\ view' = [view EXCEPT !.box.timer = FALSE]
    /\ calls' = Add(calls, "search", Call("searchCatalog", view.box.query))
    /\ UNCHANGED <<apiVars, host>>

SettleSearch(i) ==
    /\ \/ Replied(i, "search") /\ view' = [view EXCEPT !.box.hits = At(i).val]
       \/ Failed(i, "search") /\ view' = [view EXCEPT !.box.hits = Nothing]
    /\ calls' = Without(i)

\* Once the search of a query is over, what is drawn was found for it.
HitsBelong ==
    (view.box.query # Short /\ ~view.box.timer /\ "search" \notin DOMAIN calls)
        => view.box.hits \in {view.box.query, Nothing, None}
=============================================================================
