--------------------------- MODULE MCBillingSync ---------------------------
(* Model-checking instance of BillingSync.  A behaviour is of one of two   *)
(* mixes, chosen in its initial state: "one" subscription with changes,    *)
(* invoices, a failure and a sync request, or "two" subscriptions of which *)
(* one may be cancelled.                                                   *)
EXTENDS BillingSync

CONSTANTS sub1, sub2

VARIABLE mix

\* Bounds on what Stripe, the buyer and faults do; what is fair is never held back.
Bound ==
    /\ stripe'[sub2] # NotSubscribed => mix = "two" /\ stripe'[sub1] # NotSubscribed
    /\ mix = "one" => Len(events') <= 3
    /\ mix = "two" =>
          /\ failures' = 0
          /\ \A w \in Syncs : work'[w] = Idle
          /\ \A s \in Subs : stripe'[s].status # "past_due"
          /\ \A e \in 1..Len(events') : events'[e].type # "invoice"

MCInit == Init /\ mix \in {"one", "two"}
MCNext == Next /\ Bound /\ UNCHANGED mix

MCvars == <<vars, mix>>
MCSpec ==
    /\ MCInit /\ [][MCNext]_MCvars
    /\ \A w \in Requests : WF_MCvars(Handle(w) /\ UNCHANGED mix)
    /\ \A e \in EventIds : WF_MCvars(Deliver(e) /\ UNCHANGED mix)
=============================================================================
