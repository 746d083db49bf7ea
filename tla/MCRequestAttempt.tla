--------------------------- MODULE MCRequestAttempt ---------------------------
(* TLC instances of RequestAttempt: each behaviour follows one scenario.       *)
EXTENDS RequestAttempt

VARIABLE scenario

\* The last attempt of a request whose callers and owner may die; the last
\* attempt while the telemetry handler may be lost; the last two attempts of a
\* raw transaction that nothing disturbs; all attempts of a policy send that
\* works for a caller.
FirstTry == [deaths |-> Tries, handler |-> Tries, retries |-> Tries - 1, resends |-> 1]

MCInit ==
  /\ scenario \in DOMAIN FirstTry
  /\ safety = [r \in Requests |->
                 IF scenario = "resends" THEN "policy_send" ELSE "raw_transaction"]
  /\ guarded \in [Requests -> CASE scenario = "deaths"  -> BOOLEAN
                                [] scenario = "resends" -> {TRUE}
                                [] OTHER -> {FALSE}]
  /\ InitFrom(FirstTry[scenario])

\* The attempts of a policy send before its last one end in time, one after the
\* other, and in few ways; caller and owner die between two of them.
FewWays ==
  \A r \in Requests : try[r] < Tries =>
    /\ deadline'[Now(r)] = "ahead"
    /\ verdict'[Now(r)].kind \in
         {"none", "refused", "ambiguous", IF try[r] = 1 THEN "transport" ELSE "predispatch"}
    /\ try'[r] = try[r] \/ (~RunsTask(Now(r)) /\ ~RunsCheckout(Now(r)))
BetweenTries ==
  \A r \in Requests : kept[r] # 0 /\ phase[r] \in {"ready", "deciding", "done"}

MCNext ==
  /\ UNCHANGED scenario
  /\ \/ Undisturbed
     \/ scenario = "deaths" /\ Disturbed
     \/ scenario = "handler" /\ HandlerStep
     \/ scenario = "resends" /\ BetweenTries /\ Disturbed
  /\ scenario = "resends" => FewWays

MCSpec == MCInit /\ [][MCNext]_<<vars, scenario>> /\ Fairness
===============================================================================
