---------------------------- MODULE MCInterlocks ----------------------------
(***************************************************************************)
(* A small instance of Interlocks for TLC: an ADC and a status observation *)
(* gate an output and a bus transfer.                                      *)
(***************************************************************************)
EXTENDS Interlocks

CONSTANTS t1, t2

MCEffects ==
  [op \in {"adc", "status", "set", "transfer"} |->
     CASE op = "set" -> {"actuate"}
       [] op = "transfer" -> {"configure", "transfer"}
       [] OTHER -> {}]

Lock(observation, gates, age) ==
  [observation |-> observation, gates |-> gates, age |-> age]

\* Two observations of different ages; an effect that spoils the observation,
\* so that the plan is refused; a gated configuration that recovery would
\* repeat.
MCCases ==
  {[plan |-> <<"adc", "status", "set">>, reconfigures |-> FALSE,
    locks |-> {Lock("adc", {"actuate"}, 2), Lock("status", {"actuate"}, 1)}],
   [plan |-> <<"adc", "transfer", "set">>, reconfigures |-> FALSE,
    locks |-> {Lock("adc", {"actuate"}, 2)}],
   [plan |-> <<"adc", "transfer">>, reconfigures |-> TRUE,
    locks |-> {Lock("adc", {"configure"}, 2)}],
   [plan |-> <<"transfer", "adc", "set">>, reconfigures |-> TRUE,
    locks |-> {Lock("adc", {"actuate"}, 1)}]}

=============================================================================
