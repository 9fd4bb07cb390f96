---------------------------- MODULE MCBackends ----------------------------
(***************************************************************************)
(* One run, the engine, and clients that cancel, signal, report and submit *)
(* at the same time.                                                       *)
(***************************************************************************)
EXTENDS Backends, TLC

CONSTANTS Run1, Engine1, Client1, Client2

MCStep == {"s"}
MCDef == [s \in MCStep |->
            [type |-> "end", next |-> {}, timeout |-> Nil, deadline |-> FALSE, name |-> Nil,
             tries |-> 1, fails |-> FALSE, gated |-> FALSE, comp |-> FALSE, kids |-> <<>>,
             quorum |-> 0, streams |-> {}, catch |-> Nil]]
MCName == {"n", "t1"}
MCTask == {"t1"}
MCOutsider == {Client1, Client2}
MCSymmetry == Permutations(MCOutsider)
MCMaxCalls == [c \in MCOutsider \cup {Engine1} |-> IF c = Engine1 THEN 3 ELSE 1]
=============================================================================
