------------------------------- MODULE Scrape -------------------------------
(***************************************************************************)
(* What OtelAggregator.clusterMetrics() promises its caller, without       *)
(* messages, counters and timers: a scrape asks some workers and then      *)
(* either resolves with the registries of all of them or rejects, once.    *)
(***************************************************************************)
EXTENDS Naturals

CONSTANTS Workers, MaxRequests

VARIABLES asked,    \* the workers each scrape asked
          outcome,  \* how its promise stands
          report    \* the workers whose registries are in its text

scrape == <<asked, outcome, report>>

Scrapes == 0 .. MaxRequests - 1

Init ==
    /\ asked = [r \in Scrapes |-> {}]
    /\ outcome = [r \in Scrapes |-> "idle"]
    /\ report = [r \in Scrapes |-> {}]

\* With nobody to ask the text is empty and ready at once.
Ask(r, ws) ==
    /\ outcome[r] = "idle"
    /\ asked' = [asked EXCEPT ![r] = ws]
    /\ outcome' = [outcome EXCEPT ![r] = IF ws = {} THEN "ok" ELSE "open"]
    /\ UNCHANGED report

Resolve(r) ==
    /\ outcome[r] = "open"
    /\ outcome' = [outcome EXCEPT ![r] = "ok"]
    /\ report' = [report EXCEPT ![r] = asked[r]]
    /\ UNCHANGED asked

Reject(r) ==
    /\ outcome[r] = "open"
    /\ outcome' = [outcome EXCEPT ![r] = "failed"]
    /\ UNCHANGED <<asked, report>>

Settle(r) == Resolve(r) \/ Reject(r)

Next ==
    \E r \in Scrapes : \/ \E ws \in SUBSET Workers : Ask(r, ws)
                       \/ Settle(r)

Safety == Init /\ [][Next]_scrape

\* A scrape does not stay open.
Settles(r) == WF_scrape(Settle(r))

Spec == Safety /\ \A r \in Scrapes : Settles(r)

=============================================================================
