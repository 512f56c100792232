------------------------------ MODULE MCScope ------------------------------
(* Model-checking instance of Scope.                                       *)
EXTENDS Scope, TLC

CONSTANTS net, web, app, web0   \* web0 is web[0]

MCAddr   == {net, web, app, web0}
MCBaseOf == [a \in MCAddr |-> IF a = web0 THEN web ELSE a]

(* Nothing but net; net and web, with the edge the other way round than    *)
(* the configuration has it; app on an instance of web.                    *)
MCGraphs == {net :> {},
             (net :> {web}) @@ (web :> {}),
             (net :> {}) @@ (app :> {net, web}) @@ (web0 :> {})}

Declared == (net :> {}) @@ (web :> {net}) @@ (app :> {net})
Config(roots, scan, engine, ranges) ==
  [graph |-> Declared, scan |-> scan, roots |-> roots, removed |-> {}, engine |-> engine, ranges |-> ranges]

(* One file with web; one with app, with file ranges in the plan; web      *)
(* again, with a scan that misses its reference to net; and app with a     *)
(* removed block for web.                                                  *)
MCConfigs ==
  {Config({web}, Declared, "opentofu", FALSE),
   Config({app}, Declared, "heuristic", TRUE),
   Config({web}, web :> {}, "heuristic", FALSE),
   [graph |-> (net :> {}) @@ (app :> {net}), scan |-> app :> {net}, roots |-> {app, web},
    removed |-> {web}, engine |-> "opentofu", ranges |-> FALSE]}
============================================================================
