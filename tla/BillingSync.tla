---------------------------- MODULE BillingSync ----------------------------
(***************************************************************************)
(* apps/api/src/billing/billing.controller.ts: the WorkspaceSubscription   *)
(* row of one workspace, kept up to date with its Stripe subscriptions by  *)
(* webhook events and by the sync endpoint.                                *)
(*                                                                         *)
(* Stripe is external: it delivers every event at least once, in any order *)
(* and several at a time, and redelivers one that was not answered.  An    *)
(* event about a subscription carries its state when it was emitted; the   *)
(* others make the handler ask Stripe for the customer's subscriptions.    *)
(***************************************************************************)
EXTENDS Integers, FiniteSets, Sequences

CONSTANTS
    Subs,        \* subscriptions the workspace may take out, one per checkout
    Plans,
    Hooks,       \* webhook requests in flight at the same time
    Syncs,       \* sync requests in flight at the same time
    NoSub,
    NoPlan,
    MaxEvents,   \* bound on the events Stripe emits
    MaxFailures  \* bound on the requests that fail

ASSUME BillingSyncAssumption ==
    /\ IsFiniteSet(Subs)
    /\ NoSub \notin Subs /\ NoPlan \notin Plans
    /\ Hooks \cap Syncs = {}
    /\ MaxEvents \in Nat /\ MaxFailures \in Nat

VARIABLES
    checkout,  \* checkout sessions: per subscription, its plan and customer
    stripe,    \* Stripe's state: per subscription, plan, status and age
    events,    \* the events Stripe has emitted; an event's id is its position
    row,       \* WorkspaceSubscription
    processed, \* ids of the BillingWebhookEvent rows with a processedAt
    work,      \* per request, its event, and what it is about to write
    failures,  \* number of requests that failed
    outdated   \* history: the row was last written with something that was
               \* no longer, or never, the workspace's current subscription

vars == <<checkout, stripe, events, row, processed, work, failures, outdated>>

Requests == Hooks \cup Syncs
EventIds == 1..MaxEvents
NoEvent == 0

StripeStatuses == {"active", "past_due", "canceled"}

\* stripeStatusToPrisma, on the statuses a completed checkout can lead to.
PrismaStatus(status) ==
    CASE status = "active" -> "ACTIVE"
      [] status = "past_due" -> "PAST_DUE"
      [] status = "canceled" -> "CANCELED"

\* subscriptionRank
Rank(status) ==
    CASE status = "active" -> 100
      [] status = "past_due" -> 80
      [] status = "canceled" -> 20

\* What the row holds of a subscription; its limits follow from the plan.
Image(sub, plan, status, customer) ==
    [sub |-> sub, plan |-> plan, status |-> status, customer |-> customer]

NoRow == Image(NoSub, NoPlan, "NONE", NoSub)
Idle == [phase |-> "idle", event |-> NoEvent, image |-> NoRow, customer |-> NoSub]
NotSubscribed == [plan |-> NoPlan, status |-> "none", age |-> 0]

Subscribed == {s \in Subs : stripe[s].status # "none"}
ImageOf(s) == Image(s, stripe[s].plan, PrismaStatus(stripe[s].status), checkout[s].customer)

Init ==
    /\ checkout = [s \in Subs |-> [plan |-> NoPlan, customer |-> NoSub]]
    /\ stripe = [s \in Subs |-> NotSubscribed]
    /\ events = <<>>
    /\ row = NoRow
    /\ processed = {}
    /\ work = [w \in Requests |-> Idle]
    /\ failures = 0
    /\ outdated = FALSE

-----------------------------------------------------------------------------
(* Choosing the current subscription *)

\* sortSubscriptionsForCurrent: by rank, then the latest created.
Better(s, t) ==
    \/ Rank(stripe[s].status) > Rank(stripe[t].status)
    \/ Rank(stripe[s].status) = Rank(stripe[t].status) /\ stripe[s].age >= stripe[t].age

\* resolveCurrentSubscriptionForCustomer
CurrentOf(customer) ==
    LET candidates == {s \in Subscribed : checkout[s].customer = customer} IN
    CHOOSE s \in candidates : \A t \in candidates : Better(s, t)

\* The workspace's current subscription, over all customers it has at Stripe.
IsCurrent(s) ==
    s \in Subscribed /\ \A t \in Subscribed :
        \/ Rank(stripe[s].status) > Rank(stripe[t].status)
        \/ Rank(stripe[s].status) = Rank(stripe[t].status) /\ stripe[s].age >= stripe[t].age

-----------------------------------------------------------------------------
(* The workspace and Stripe *)

\* createCheckoutSession, for the customer on the row; without one Stripe makes
\* a new customer for the session, named here by its subscription.
Checkout(s, plan) ==
    /\ checkout[s].plan = NoPlan
    /\ checkout' = [checkout EXCEPT ![s] =
          [plan |-> plan, customer |-> IF row.customer = NoSub THEN s ELSE row.customer]]
    /\ UNCHANGED <<stripe, events, row, processed, work, failures, outdated>>

\* An event of the given type about s as it is after this step.
Event(type, s, plan, status) ==
    [type |-> type, image |-> Image(s, plan, PrismaStatus(status), checkout[s].customer)]

Emit(new) ==
    /\ Len(events) + Len(new) <= MaxEvents
    /\ events' = events \o new

\* The buyer completes the checkout.
Subscribe(s) ==
    LET plan == checkout[s].plan IN
    /\ plan # NoPlan
    /\ stripe[s].status = "none"
    /\ stripe' = [stripe EXCEPT ![s] =
          [plan |-> plan, status |-> "active", age |-> Cardinality(Subscribed) + 1]]
    /\ Emit(<<Event("checkout", s, plan, "active"), Event("subscription", s, plan, "active")>>)
    /\ UNCHANGED <<checkout, row, processed, work, failures, outdated>>

\* A renewal fails or is made good, the plan is changed, or it is cancelled.
Change(s, plan, status) ==
    /\ stripe[s].status \in {"active", "past_due"}
    /\ <<plan, status>> # <<stripe[s].plan, stripe[s].status>>
    /\ stripe' = [stripe EXCEPT ![s].plan = plan, ![s].status = status]
    /\ Emit(<<Event("subscription", s, plan, status)>>)
    /\ UNCHANGED <<checkout, row, processed, work, failures, outdated>>

\* An invoice of s is paid or its payment fails.
Invoice(s) ==
    /\ s \in Subscribed
    /\ Emit(<<Event("invoice", s, stripe[s].plan, stripe[s].status)>>)
    /\ UNCHANGED <<checkout, stripe, row, processed, work, failures, outdated>>

-----------------------------------------------------------------------------
(* handleWebhook and syncSubscription *)

\* Mutant: the event counts as processed as soon as it is recorded.
ReceiveAndMark(w, e) ==
    /\ work[w] = Idle
    /\ e \in 1..Len(events) \ processed
    /\ processed' = processed \cup {e}
    /\ work' = [work EXCEPT ![w] =
          [phase |-> IF events[e].type = "subscription" THEN "write" ELSE "resolve",
           event |-> e, image |-> events[e].image, customer |-> events[e].image.customer]]
    /\ UNCHANGED <<checkout, stripe, events, row, failures, outdated>>

\* Delivery of an event that has no processedAt yet, for the first time or
\* again; its row is upserted.  A processed one is answered and dropped.
Receive(w, e) ==
    /\ work[w] = Idle
    /\ e \in 1..Len(events) \ processed
    /\ work' = [work EXCEPT ![w] =
          [phase |-> IF events[e].type = "subscription" THEN "write" ELSE "resolve",
           event |-> e, image |-> events[e].image, customer |-> events[e].image.customer]]
    /\ UNCHANGED <<checkout, stripe, events, row, processed, failures, outdated>>

\* The sync endpoint, for a workspace that is linked to Stripe.
BeginSync(w) ==
    /\ work[w] = Idle
    /\ row # NoRow
    /\ work' = [work EXCEPT ![w] =
          [phase |-> "resolve", event |-> NoEvent, image |-> row, customer |-> row.customer]]
    /\ UNCHANGED <<checkout, stripe, events, row, processed, failures, outdated>>

\* Stripe answers with the customer's subscriptions (it keeps cancelled ones,
\* so there is one); the best is taken.
ResolveCurrent(w) ==
    /\ work[w].phase = "resolve"
    /\ work' = [work EXCEPT ![w].phase = "write",
                            ![w].image = ImageOf(CurrentOf(work[w].customer))]
    /\ UNCHANGED <<checkout, stripe, events, row, processed, failures, outdated>>

\* The upsert (for sync the update) of the workspace's row.
WriteRow(w) ==
    LET image == work[w].image IN
    /\ work[w].phase = "write"
    /\ row' = image
    /\ outdated' = ~(IsCurrent(image.sub) /\ image = ImageOf(image.sub))
    /\ work' = IF work[w].event = NoEvent THEN [work EXCEPT ![w] = Idle]
               ELSE [work EXCEPT ![w].phase = "mark"]
    /\ UNCHANGED <<checkout, stripe, events, processed, failures>>

\* Mutant: the mark fails silently.
MarkNothing(w) ==
    /\ work[w].phase = "mark"
    /\ work' = [work EXCEPT ![w] = Idle]
    /\ UNCHANGED <<checkout, stripe, events, row, processed, failures, outdated>>

\* processedAt is set and the delivery answered.
MarkProcessed(w) ==
    /\ work[w].phase = "mark"
    /\ processed' = processed \cup {work[w].event}
    /\ work' = [work EXCEPT ![w] = Idle]
    /\ UNCHANGED <<checkout, stripe, events, row, failures, outdated>>

\* Stripe or the database fails, or the process dies.
Fail(w) ==
    /\ work[w] # Idle
    /\ failures < MaxFailures
    /\ failures' = failures + 1
    /\ work' = [work EXCEPT ![w] = Idle]
    /\ UNCHANGED <<checkout, stripe, events, row, processed, outdated>>

Handle(w) == ResolveCurrent(w) \/ WriteRow(w) \/ MarkProcessed(w)
Deliver(e) == \E w \in Hooks : Receive(w, e)

Next ==
    \/ \E s \in Subs, plan \in Plans : Checkout(s, plan)
    \/ \E s \in Subs : Subscribe(s) \/ Invoice(s)
    \/ \E s \in Subs, plan \in Plans, status \in StripeStatuses : Change(s, plan, status)
    \/ \E e \in EventIds : Deliver(e)
    \/ \E w \in Syncs : BeginSync(w)
    \/ \E w \in Requests : Handle(w) \/ Fail(w)

Spec == Init /\ [][Next]_vars

\* Stripe retries an event until it is answered; requests are carried on.
FairSpec ==
    /\ Spec
    /\ \A w \in Requests : WF_vars(Handle(w))
    /\ \A e \in EventIds : WF_vars(Deliver(e))

-----------------------------------------------------------------------------
Images == [sub : Subs, plan : Plans, status : {"ACTIVE", "PAST_DUE", "CANCELED"}, customer : Subs]
Ages == 1..Cardinality(Subs)

TypeOK ==
    /\ checkout \in [Subs -> [plan : Plans \cup {NoPlan}, customer : Subs \cup {NoSub}]]
    /\ stripe \in [Subs -> [plan : Plans, status : StripeStatuses, age : Ages] \cup {NotSubscribed}]
    /\ events \in Seq([type : {"checkout", "subscription", "invoice"}, image : Images])
    /\ Len(events) <= MaxEvents
    /\ row \in Images \cup {NoRow}
    /\ processed \subseteq 1..Len(events)
    /\ work \in [Requests -> [phase : {"resolve", "write", "mark"}, event : 0..Len(events),
                              image : Images, customer : Subs] \cup {Idle}]
    /\ failures \in 0..MaxFailures /\ outdated \in BOOLEAN

\* Every event has been answered and no request is running.
Settled == processed = 1..Len(events) /\ \A w \in Requests : work[w] = Idle

RowIsCurrent ==
    \E s \in Subs : IsCurrent(s) /\ row = ImageOf(s)

\* Crashes, retries and duplicates lose nothing: once all events are answered
\* the row shows the current subscription, unless the last write came late.
CurrentUnlessOutdated ==
    Settled /\ Subscribed # {} /\ ~outdated => RowIsCurrent

\* A subscription comes of a completed checkout and keeps its customer.
OfCheckouts ==
    \A s \in Subs :
        /\ checkout[s].plan # NoPlan => checkout[s].customer \in Subs
        /\ s \in Subscribed => checkout[s].plan # NoPlan

\* Whatever is said of a subscription names one that exists, and its customer:
\* so Stripe has an answer when it is asked for that customer's.
Genuine(image) == image.sub \in Subscribed /\ checkout[image.sub].customer = image.customer
AboutSubscriptions ==
    /\ \A e \in 1..Len(events) : Genuine(events[e].image)
    /\ row # NoRow => Genuine(row)
    /\ \A w \in Requests : work[w] # Idle =>
          /\ Genuine(work[w].image) /\ work[w].customer = work[w].image.customer
          /\ work[w].phase = "mark" => work[w].event # NoEvent

\* While the row, written last with what was current, is not, the change since
\* is in an event for which the row is still to be written.
ChangePending ==
    Subscribed # {} /\ ~outdated /\ ~RowIsCurrent =>
        \E e \in 1..Len(events) \ processed :
            \A w \in Requests : work[w].event = e => work[w].phase # "mark"

IInv == TypeOK /\ OfCheckouts /\ AboutSubscriptions /\ ChangePending

\* Every event Stripe emits is processed in the end.
EventuallyProcessed ==
    \A e \in EventIds : e <= Len(events) ~> e \in processed
=============================================================================
