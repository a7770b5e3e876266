------------------------ MODULE MCHostedEnvironments ------------------------
(***************************************************************************)
(* One subscription with one renewal, in the two builds: of the Node build *)
(* one run of the cron at a time, with a request of the relay that judges, *)
(* an administrator, a refund and a death; of the Cloudflare build two     *)
(* runs that overlap, with nobody else.                                    *)
(***************************************************************************)
EXTENDS HostedEnvironments

CONSTANTS first, renewal, t1, t2, r1, a1

VARIABLE build

MCRenewals == {renewal}
MCTicks == {t1, t2}
MCReports == {r1}
MCAdmins == {a1}
\* The first item pays for one term, the renewal for two.
MCUnits == [i \in {first, renewal} |-> IF i = first THEN 1 ELSE 2]

\* The runs that the build starts, and the steps of its world.
RunsOfBuild == IF build = "node" THEN {t1} ELSE {t1, t2}

Bounded ==
  /\ \A t \in Ticks \ RunsOfBuild : run'[t] = run[t]
  /\ build = "cloudflare" =>
       /\ upsets' = 0 /\ \A i \in Items : sale'[i] # "refunded"
       /\ \A r \in Reports : run'[r] = run[r]

MCInit == Init /\ build \in {"node", "cloudflare"}
MCNext == Next /\ Bounded /\ UNCHANGED build
MCFairness ==
  \A t \in Ticks : WF_vars(t \in RunsOfBuild /\ (Start(t) \/ TickSteps(t) \/ Both(t)))
MCSpec == MCInit /\ [][MCNext]_<<vars, build>> /\ MCFairness
=============================================================================
