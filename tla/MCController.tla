------------------------------ MODULE MCController ------------------------------
(***************************************************************************)
(* Instances of Controller: strategies of every kind, with thresholds that *)
(* a chain of a few patches over two triples reaches or not.  The two that *)
(* read how many elements were passed are used with every way to give a    *)
(* patch that counts them differently, "time" with and without the time of *)
(* version 0; the others do not tell these apart.                          *)
(***************************************************************************)
EXTENDS Controller

MCUses ==
  LET interval == [kind |-> "interval", step |-> 2]
      change   == [kind |-> "change", threshold |-> <<3, 4>>]
      size     == [kind |-> "size", threshold |-> <<1, 1>>]
      half     == [kind |-> "size", threshold |-> <<1, 2>>]
      local    == [kind |-> "locaggchange", threshold |-> <<1, 1>>]
      time     == [kind |-> "time"]
      others   == {[kind |-> "never"], [kind |-> "always"], interval, change,
                   [kind |-> "size2", threshold |-> <<1, 1>>],
                   [kind |-> "aggchange", threshold |-> <<3, 2>>],
                   [kind |-> "and", parts |-> {interval, change}],
                   [kind |-> "or", parts |-> {interval, change}]}
  IN [strategy : {size}, ingestion : {"sorted", "checked", "streamed"}]
       \cup [strategy : {half}, ingestion : {"files"}]
       \cup [strategy : {local}, ingestion : {"sorted", "checked", "files", "streamed"}]
       \cup [strategy : {time}, ingestion : {"sorted", "built"}]
       \cup [strategy : others, ingestion : {"sorted"}]
===============================================================================
