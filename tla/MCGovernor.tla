----------------------------- MODULE MCGovernor -----------------------------
(***************************************************************************)
(* Instances of Governor for TLC.  A rate of 80 bit/s is one byte per      *)
(* 100 ms, so that ReservationSize takes both of its bounds.               *)
(***************************************************************************)
EXTENDS Governor

CONSTANTS g1, g2, c1, c2, t1

Off == [mode |-> "Blocked", bps |-> 0, burst |-> 0]
Full == [mode |-> "Unlimited", bps |-> 0, burst |-> 0]
Slow == [mode |-> "Limited", bps |-> 80, burst |-> 1]

\* A base policy: revision, credit revision, ceiling.
Base(rev, credit, ceiling) ==
    [term |-> t1, revision |-> rev, authorityRevision |-> 0, enabled |-> TRUE,
     expires |-> 0, quotaUnlimited |-> FALSE, creditCeiling |-> ceiling,
     creditRevision |-> credit, upload |-> Slow, download |-> Slow]

Grant(client, p) ==
    [client |-> client, rateRevision |-> p.authorityRevision, policy |-> p]

Only(g, x) == [h \in {g} |-> x]
Pair(x, y) == [h \in {g1, g2} |-> IF h = g1 THEN x ELSE y]

Disabled(p) == [p EXCEPT !.enabled = FALSE, !.upload = Off, !.download = Off]

\* One grant, every way its policy can move.
OneGrantDeployments ==
    { <<>>,
      Only(g1, Grant(c1, Base(1, 1, 1))),
      Only(g1, Grant(c1, [Base(1, 0, 2) EXCEPT !.expires = 1])),
      Only(g1, Grant(c1, [Base(2, 1, 2) EXCEPT !.download = Full])),
      Only(g1, Grant(c1, [Base(3, 0, 0) EXCEPT !.quotaUnlimited = TRUE])),
      Only(g1, Grant(c1, Base(3, 0, 1))),
      Only(g1, Grant(c1, Disabled(Base(2, 2, 2)))),
      Only(g1, Grant(c2, Base(3, 2, 3))) }

Credit(rev, credit, ceiling) ==
    [client |-> c1, term |-> t1, policyRevision |-> rev,
     creditRevision |-> credit, creditCeiling |-> ceiling]

OneGrantCredits ==
    { Only(g1, Credit(1, 2, 2)), Only(g1, Credit(1, 3, 3)), Only(g1, Credit(2, 2, 3)) }

OneGrantAuthority ==
    { Only(g1, Grant(c1, [Base(1, 1, 1) EXCEPT !.authorityRevision = 1, !.upload = Off])),
      Only(g1, Grant(c1, [Base(1, 2, 2) EXCEPT !.authorityRevision = 2])),
      Only(g1, Grant(c1, Disabled([Base(2, 1, 2) EXCEPT !.authorityRevision = 1]))) }

\* Two grants that compete for one client, and a second client.
P == [Base(1, 1, 1) EXCEPT !.download = Off]
Q == [Base(2, 2, 2) EXCEPT !.download = Off]

TwoGrantDeployments ==
    { Only(g1, Grant(c1, P)), Only(g2, Grant(c1, P)),
      Pair(Grant(c1, Q), Grant(c2, P)), Pair(Grant(c1, Disabled(Q)), Grant(c2, P)),
      Pair(Grant(c1, Disabled(P)), Grant(c1, P)), Only(g2, Grant(c2, Disabled(Q))) }

TwoGrantCredits ==
    { Pair(Credit(1, 2, 2), [Credit(1, 2, 2) EXCEPT !.client = c2]) }

TwoGrantAuthority ==
    { Only(g2, Grant(c1, [P EXCEPT !.authorityRevision = 1])),
      Pair(Grant(c1, Disabled([P EXCEPT !.authorityRevision = 1])),
           Grant(c2, [P EXCEPT !.authorityRevision = 1])) }
=============================================================================
