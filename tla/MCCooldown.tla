------------------------------ MODULE MCCooldown ------------------------------
(***************************************************************************)
(* The cooldown manager on a small instance: one provider is enough for    *)
(* everything but the empty client type's sweep over keys, which needs two *)
(* keys of it; an exponential policy whose cap is the second failure's.    *)
(***************************************************************************)
EXTENDS Cooldown, TLC

MCPolicies == [network_error |-> ExponentialBackoff(1, 2)]

MCReasons == {"network_error", "rate_limit_exceeded", "unknown"}
MCCountedReasons == {"network_error"}
MCToldReasons == {"rate_limit_exceeded"}
MCExplicitTimes == {2}
MCSetDurations == {1}

(* The minutes (for concurrent_limit, the seconds) DESIGN.md 5.2 lists for *)
(* the first ten failures of each reason, against the code's table.        *)
DesignTable ==
    [ server_error        |-> <<1, 2, 3, 4, 5, 6, 7, 8, 9, 10, 10>>,
      network_error       |-> <<1, 2, 4, 8, 16, 30, 30, 30, 30, 30, 30>>,
      quota_exhausted     |-> [n \in 1..11 |-> 60],
      rate_limit_exceeded |-> [n \in 1..11 |-> 1],
      unknown             |-> <<1, 2, 3, 4, 5, 5, 5, 5, 5, 5, 5>> ]

ASSUME DefaultsAreDesigned ==
    /\ \A reason \in DOMAIN DesignTable : \A n \in 1..11 :
          CalculateCooldown(DefaultPolicies[reason], n) = 60 * DesignTable[reason][n]
    /\ \A n \in 1..11 : CalculateCooldown(DefaultPolicies["concurrent_limit"], n) = 10
===============================================================================
