------------------------------ MODULE Frontier ------------------------------
(***************************************************************************)
(* What the crawl frontier promises, whoever works on it: a URL is known   *)
(* or not; a known URL waits ("ready"), is in the hands of exactly one     *)
(* worker ("busy"), or has been dealt with ("closed"), and a closed URL is *)
(* never handed out again.  Closing a URL and making the links of its page *)
(* known is one atomic step.  Work that is cut short puts its URLs back.   *)
(***************************************************************************)

CONSTANT Urls

VARIABLE entry      \* entry[u] : how far URL u has come

States == {"unknown", "ready", "busy", "closed"}

TypeOK == entry \in [Urls -> States]

Init == entry = [u \in Urls |-> "unknown"]

Move(S, from, to) ==
    /\ \A u \in S : entry[u] = from
    /\ entry' = [u \in Urls |-> IF u \in S THEN to ELSE entry[u]]

(* A set of URLs nobody knew becomes available.                            *)
Offer == \E S \in SUBSET Urls : Move(S, "unknown", "ready")

(* A worker takes one URL for itself.                                      *)
Take == \E u \in Urls : Move({u}, "ready", "busy")

(* Workers that stop before they are through give back what they took.     *)
Release == \E S \in SUBSET Urls : Move(S, "busy", "ready")

(* A worker closes its URL and in the same step makes a set of URLs that   *)
(* were unknown available.                                                 *)
Close == \E u \in Urls, S \in SUBSET Urls :
    /\ entry[u] = "busy"
    /\ \A v \in S : entry[v] = "unknown"
    /\ entry' = [v \in Urls |-> CASE v = u   -> "closed"
                                  [] v \in S -> "ready"
                                  [] OTHER   -> entry[v]]

(* The administrator forgets URLs, but none a worker holds.                *)
Withdraw == \E S \in SUBSET Urls :
    /\ \A u \in S : entry[u] # "busy"
    /\ entry' = [u \in Urls |-> IF u \in S THEN "unknown" ELSE entry[u]]

Next == Offer \/ Take \/ Release \/ Close \/ Withdraw

Spec == Init /\ [][Next]_entry

=============================================================================
