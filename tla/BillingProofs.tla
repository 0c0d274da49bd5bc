--------------------------- MODULE BillingProofs ---------------------------
(***************************************************************************)
(* The row of a workspace's subscription follows Stripe, for every number  *)
(* of subscriptions, plans, events, requests and failures.                 *)
(***************************************************************************)
EXTENDS BillingSync, FiniteSetTheorems, WellFoundedInduction, TLAPS

EventSet == [type : {"checkout", "subscription", "invoice"}, image : Images]
StripeSet == [plan : Plans, status : StripeStatuses, age : Ages] \cup {NotSubscribed}
WorkSet(n) == [phase : {"resolve", "write", "mark"}, event : 0..n, image : Images, customer : Subs]
              \cup {Idle}

\* The number of subscriptions is a natural number, and so are their ages.
LEMMA AgeFacts ==
    /\ Cardinality(Subs) \in Nat /\ Ages \subseteq Nat
    /\ \A T \in SUBSET Subs : IsFiniteSet(T) /\ Cardinality(T) \in Nat
    /\ \A T \in SUBSET Subs : \A s \in Subs \ T : Cardinality(T) + 1 \in Ages
<1>0. IsFiniteSet(Subs)
  BY BillingSyncAssumption
<1>1. Cardinality(Subs) \in Nat
  BY <1>0, FS_CardinalityType
<1>2. ASSUME NEW T \in SUBSET Subs
      PROVE  IsFiniteSet(T) /\ Cardinality(T) \in Nat
  BY <1>0, FS_Subset, FS_CardinalityType
<1>3. ASSUME NEW T \in SUBSET Subs, NEW s \in Subs \ T
      PROVE  Cardinality(T) + 1 \in Ages
  <2>1. Cardinality(T \cup {s}) = Cardinality(T) + 1
    BY <1>2, <1>3, FS_AddElement
  <2>2. Cardinality(T \cup {s}) <= Cardinality(Subs)
    BY <1>0, FS_Subset
  <2>. QED
    BY <1>1, <1>2, <2>1, <2>2 DEF Ages
<1>. QED
  BY <1>1, <1>2, <1>3 DEF Ages

\* A nonempty set of natural numbers has a least one.
LEMMA LeastNatural ==
    ASSUME NEW T \in SUBSET Nat, T # {}
    PROVE  \E x \in T : \A y \in T : x <= y
<1>. DEFINE R == OpToRel(<, Nat)
<1>1. \E x \in T : \A y \in T : <<y, x>> \notin R
  BY NatLessThanWellFounded, WFMin
<1>2. \A y, x \in Nat : y < x => <<y, x>> \in R
  BY DEF OpToRel
<1>. HIDE DEF R
<1>3. PICK x \in T : \A y \in T : <<y, x>> \notin R
  BY <1>1
<1>4. ASSUME NEW y \in T PROVE x <= y
  <2>1. x \in Nat /\ y \in Nat
    OBVIOUS
  <2>2. ~(y < x)
    BY <1>2, <1>3, <2>1, Zenon
  <2>. QED
    BY <2>1, <2>2
<1>. QED
  BY <1>4

\* Among the subscriptions of a customer there is one that is as good as any.
LEMMA BestExists ==
    ASSUME TypeOK, NEW candidates \in SUBSET Subscribed, candidates # {}
    PROVE  \E s \in candidates : \A t \in candidates : Better(s, t)
<1>. DEFINE N == Cardinality(Subs)
            Lack(s) == 100 - Rank(stripe[s].status)
            Youth(s) == N - stripe[s].age
<1>1. ASSUME NEW s \in candidates
      PROVE  /\ Lack(s) \in Nat /\ Youth(s) \in Nat /\ Rank(stripe[s].status) \in Int
             /\ stripe[s].age \in Int
  <2>1. s \in Subs /\ stripe[s].status # "none"
    BY <1>1 DEF Subscribed
  <2>2. stripe[s].status \in StripeStatuses /\ stripe[s].age \in Ages
    BY <2>1 DEF TypeOK, NotSubscribed
  <2>3. Rank(stripe[s].status) \in {100, 80, 20}
    BY <2>2 DEF Rank, StripeStatuses
  <2>. QED
    BY <2>2, <2>3, AgeFacts DEF Ages
<1>2. PICK s1 \in candidates : \A t \in candidates : Lack(s1) <= Lack(t)
  <2>1. {Lack(s) : s \in candidates} \in SUBSET Nat /\ {Lack(s) : s \in candidates} # {}
    BY <1>1
  <2>2. \E x \in {Lack(s) : s \in candidates} : \A y \in {Lack(s) : s \in candidates} : x <= y
    BY <2>1, LeastNatural
  <2>. HIDE DEF Lack
  <2>. QED
    BY <2>2
<1>3. PICK s2 \in {c \in candidates : Lack(c) = Lack(s1)} :
          \A t \in {c \in candidates : Lack(c) = Lack(s1)} : Youth(s2) <= Youth(t)
  <2>. DEFINE T == {c \in candidates : Lack(c) = Lack(s1)}
  <2>1. {Youth(s) : s \in T} \in SUBSET Nat /\ {Youth(s) : s \in T} # {}
    BY <1>1
  <2>2. \E x \in {Youth(s) : s \in T} : \A y \in {Youth(s) : s \in T} : x <= y
    BY <2>1, LeastNatural
  <2>. HIDE DEF Youth, Lack
  <2>. QED
    BY <2>2
<1>4. ASSUME NEW t \in candidates PROVE Better(s2, t)
  <2>1. Lack(s2) <= Lack(t) /\ (Lack(t) = Lack(s2) => Youth(s2) <= Youth(t))
    BY <1>1, <1>2, <1>3
  <2>2. Rank(stripe[s2].status) >= Rank(stripe[t].status)
    BY <1>1, <2>1
  <2>3. Rank(stripe[t].status) = Rank(stripe[s2].status) => stripe[s2].age >= stripe[t].age
    <3>1. N \in Nat
      BY AgeFacts
    <3>. QED
      BY <1>1, <2>1, <3>1
  <2>. QED
    BY <1>1, <2>2, <2>3 DEF Better
<1>. QED
  BY <1>3, <1>4

\* What Stripe tells of a subscription.
LEMMA ImageFacts ==
    ASSUME TypeOK, OfCheckouts, NEW s \in Subscribed
    PROVE  /\ s \in Subs /\ checkout[s].customer \in Subs
           /\ stripe[s].plan \in Plans /\ stripe[s].status \in StripeStatuses
           /\ ImageOf(s) \in Images /\ Genuine(ImageOf(s))
           /\ ImageOf(s).sub = s /\ ImageOf(s).customer = checkout[s].customer
<1>1. s \in Subs /\ checkout[s].customer \in Subs
  BY DEF Subscribed, OfCheckouts
<1>2. stripe[s].plan \in Plans /\ stripe[s].status \in StripeStatuses
  BY <1>1 DEF TypeOK, NotSubscribed, Subscribed
<1>3. PrismaStatus(stripe[s].status) \in {"ACTIVE", "PAST_DUE", "CANCELED"}
  BY <1>2 DEF PrismaStatus, StripeStatuses
<1>4. ImageOf(s) \in Images /\ ImageOf(s).sub = s /\ ImageOf(s).customer = checkout[s].customer
  BY <1>1, <1>2, <1>3 DEF ImageOf, Image, Images
<1>. QED
  BY <1>1, <1>2, <1>4 DEF Genuine

\* When a customer has a subscription, the current one is one of theirs.
LEMMA CurrentFacts ==
    ASSUME TypeOK, NEW customer, \E s \in Subscribed : checkout[s].customer = customer
    PROVE  CurrentOf(customer) \in Subscribed /\ checkout[CurrentOf(customer)].customer = customer
<1>. DEFINE candidates == {s \in Subscribed : checkout[s].customer = customer}
<1>1. \E s \in candidates : \A t \in candidates : Better(s, t)
  BY BestExists
<1>. QED
  BY <1>1 DEF CurrentOf

\* The events after some are emitted.
LEMMA EmitFacts ==
    ASSUME NEW S, events \in Seq(S), NEW new \in Seq(S), Emit(new)
    PROVE  /\ events' \in Seq(S) /\ Len(events') <= MaxEvents
           /\ Len(events') = Len(events) + Len(new) /\ Len(events) \in Nat /\ Len(new) \in Nat
           /\ \A e \in 1..Len(events) : events'[e] = events[e]
           /\ \A e \in 1..Len(events') \ 1..Len(events) :
                 e - Len(events) \in 1..Len(new) /\ events'[e] = new[e - Len(events)]
<1>1. events' = events \o new /\ Len(events) + Len(new) <= MaxEvents
  BY DEF Emit
<1>2. Len(events) \in Nat /\ Len(new) \in Nat /\ events' \in Seq(S)
  BY <1>1
<1>3. Len(events') = Len(events) + Len(new)
  BY <1>1
<1>4. \A e \in 1..Len(events) : events'[e] = events[e]
  BY <1>1
<1>5. \A e \in 1..Len(events') \ 1..Len(events) :
          e - Len(events) \in 1..Len(new) /\ events'[e] = new[e - Len(events)]
  BY <1>1, <1>2, <1>3
<1>. QED
  BY <1>1, <1>2, <1>3, <1>4, <1>5

\* An event about s carries an image of s.
LEMMA EventFacts ==
    ASSUME TypeOK, NEW s \in Subs, checkout[s].customer \in Subs,
           NEW type \in {"checkout", "subscription", "invoice"},
           NEW plan \in Plans, NEW status \in StripeStatuses
    PROVE  /\ Event(type, s, plan, status) \in EventSet
           /\ Event(type, s, plan, status).image.sub = s
           /\ Event(type, s, plan, status).image.customer = checkout[s].customer
<1>1. PrismaStatus(status) \in {"ACTIVE", "PAST_DUE", "CANCELED"}
  BY DEF PrismaStatus, StripeStatuses
<1>. QED
  BY <1>1 DEF Event, Image, EventSet, Images

\* What happens at Stripe leaves the workspace's side alone, emits events about
\* the subscription, and keeps those that exist.
AtStripe(s) ==
    Subscribe(s) \/ Invoice(s) \/ \E plan \in Plans, status \in StripeStatuses : Change(s, plan, status)
LEMMA StripeFacts ==
    ASSUME IInv, NEW s \in Subs, AtStripe(s)
    PROVE  /\ UNCHANGED <<checkout, row, processed, work, failures, outdated>>
           /\ stripe' \in [Subs -> StripeSet]
           /\ \A t \in Subs : t \in Subscribed \/ t = s => stripe'[t].status # "none"
           /\ \A t \in Subs : stripe'[t].status # "none" => t \in Subscribed \/ checkout[t].plan # NoPlan
           /\ events' \in Seq(EventSet) /\ Len(events) \in Nat /\ Len(events') \in Nat
           /\ Len(events) < Len(events') /\ Len(events') <= MaxEvents
           /\ \A e \in 1..Len(events) : events'[e] = events[e]
           /\ \A e \in 1..Len(events') \ 1..Len(events) :
                 /\ events'[e].image.sub = s
                 /\ events'[e].image.customer = checkout[s].customer
<1>0. /\ stripe \in [Subs -> StripeSet] /\ events \in Seq(EventSet) /\ TypeOK /\ OfCheckouts
      /\ \A t \in Subs : checkout[t].plan \in Plans \cup {NoPlan}
  BY DEF IInv, TypeOK, StripeSet, EventSet
<1>. DEFINE Emits(new) ==
               /\ new \in Seq(EventSet) /\ Len(new) > 0 /\ Emit(new)
               /\ \A i \in 1..Len(new) :
                     new[i].image.sub = s /\ new[i].image.customer = checkout[s].customer
<1>1. ASSUME NEW new, Emits(new)
      PROVE  /\ events' \in Seq(EventSet) /\ Len(events) \in Nat /\ Len(events') \in Nat
             /\ Len(events) < Len(events') /\ Len(events') <= MaxEvents
             /\ \A e \in 1..Len(events) : events'[e] = events[e]
             /\ \A e \in 1..Len(events') \ 1..Len(events) :
                   /\ events'[e].image.sub = s
                   /\ events'[e].image.customer = checkout[s].customer
  <2>1. /\ events' \in Seq(EventSet) /\ Len(events') <= MaxEvents
        /\ Len(events') = Len(events) + Len(new) /\ Len(events) \in Nat /\ Len(new) \in Nat
        /\ \A e \in 1..Len(events) : events'[e] = events[e]
        /\ \A e \in 1..Len(events') \ 1..Len(events) :
              e - Len(events) \in 1..Len(new) /\ events'[e] = new[e - Len(events)]
    BY <1>0, <1>1, EmitFacts
  <2>2. Len(events) < Len(events') /\ Len(events') \in Nat
    BY <1>1, <2>1
  <2>3. ASSUME NEW e \in 1..Len(events') \ 1..Len(events)
        PROVE  events'[e].image.sub = s /\ events'[e].image.customer = checkout[s].customer
    BY <1>1, <2>1, <2>3
  <2>. QED
    BY <2>1, <2>2, <2>3
<1>2. ASSUME NEW x \in EventSet, x.image.sub = s, x.image.customer = checkout[s].customer, Emit(<<x>>)
      PROVE  Emits(<<x>>)
  BY <1>2
<1>3. ASSUME NEW x \in EventSet, x.image.sub = s, x.image.customer = checkout[s].customer,
             NEW y \in EventSet, y.image.sub = s, y.image.customer = checkout[s].customer,
             Emit(<<x, y>>)
      PROVE  Emits(<<x, y>>)
  BY <1>3
<1>. HIDE DEF Emits
<1>4. CASE Subscribe(s)
  <2>. DEFINE plan == checkout[s].plan
              x == Event("checkout", s, plan, "active")
              y == Event("subscription", s, plan, "active")
              r == [plan |-> plan, status |-> "active", age |-> Cardinality(Subscribed) + 1]
  <2>1. plan \in Plans /\ checkout[s].customer \in Subs /\ "active" \in StripeStatuses
    BY <1>0, <1>4 DEF Subscribe, OfCheckouts, StripeStatuses
  <2>2. Emits(<<x, y>>)
    <3>1. /\ x \in EventSet /\ x.image.sub = s /\ x.image.customer = checkout[s].customer
          /\ y \in EventSet /\ y.image.sub = s /\ y.image.customer = checkout[s].customer
      BY <1>0, <2>1, EventFacts
    <3>2. Emit(<<x, y>>)
      BY <1>4 DEF Subscribe
    <3>. HIDE DEF x, y
    <3>. QED
      BY <1>3, <3>1, <3>2
  <2>3. r \in StripeSet /\ r.status = "active" /\ stripe' = [stripe EXCEPT ![s] = r]
    <3>1. Subscribed \in SUBSET Subs /\ s \in Subs \ Subscribed
      BY <1>4 DEF Subscribe, Subscribed
    <3>2. Cardinality(Subscribed) + 1 \in Ages
      BY <3>1, AgeFacts
    <3>. QED
      BY <1>4, <2>1, <3>2 DEF Subscribe, StripeSet
  <2>4. checkout[s].plan # NoPlan /\ UNCHANGED <<checkout, row, processed, work, failures, outdated>>
    BY <1>4 DEF Subscribe
  <2>5. /\ stripe' \in [Subs -> StripeSet]
        /\ \A t \in Subs : t # s => stripe'[t] = stripe[t]
        /\ stripe'[s].status = "active"
    <3>. HIDE DEF r
    <3>. QED
      BY <1>0, <2>3
  <2>6. /\ \A t \in Subs : t \in Subscribed \/ t = s => stripe'[t].status # "none"
        /\ \A t \in Subs : stripe'[t].status # "none" => t \in Subscribed \/ checkout[t].plan # NoPlan
    BY <2>4, <2>5 DEF Subscribed
  <2>. HIDE DEF x, y
  <2>. QED
    BY <1>1, <2>2, <2>4, <2>5, <2>6
<1>5. CASE Invoice(s)
  <2>. DEFINE x == Event("invoice", s, stripe[s].plan, stripe[s].status)
  <2>1. s \in Subscribed /\ UNCHANGED stripe /\ UNCHANGED <<checkout, row, processed, work, failures, outdated>>
        /\ Emit(<<x>>)
    BY <1>5 DEF Invoice
  <2>2. x \in EventSet /\ x.image.sub = s /\ x.image.customer = checkout[s].customer
    BY <1>0, <2>1, ImageFacts, EventFacts
  <2>. HIDE DEF x
  <2>3. Emits(<<x>>)
    BY <1>2, <2>1, <2>2
  <2>. QED
    BY <1>0, <1>1, <2>1, <2>3 DEF Subscribed
<1>6. ASSUME NEW plan \in Plans, NEW status \in StripeStatuses, Change(s, plan, status)
      PROVE  /\ \E x : Emits(<<x>>)
             /\ UNCHANGED <<checkout, row, processed, work, failures, outdated>>
             /\ s \in Subscribed
             /\ stripe' = [stripe EXCEPT ![s].plan = plan, ![s].status = status]
  <2>. DEFINE x == Event("subscription", s, plan, status)
  <2>1. s \in Subscribed
    BY <1>6 DEF Change, Subscribed
  <2>2. x \in EventSet /\ x.image.sub = s /\ x.image.customer = checkout[s].customer
    BY <1>0, <2>1, ImageFacts, EventFacts
  <2>3. Emit(<<x>>)
    BY <1>6 DEF Change
  <2>. HIDE DEF x
  <2>4. Emits(<<x>>)
    BY <1>2, <2>2, <2>3
  <2>. QED
    BY <1>6, <2>1, <2>4 DEF Change
<1>7. ASSUME NEW plan \in Plans, NEW status \in StripeStatuses, Change(s, plan, status)
      PROVE  /\ stripe' \in [Subs -> StripeSet]
             /\ \A t \in Subs : t \in Subscribed <=> stripe'[t].status # "none"
  <2>1. /\ stripe' = [stripe EXCEPT ![s].plan = plan, ![s].status = status] /\ s \in Subscribed
        /\ status # "none"
    BY <1>6, <1>7 DEF StripeStatuses
  <2>2. stripe[s] \in [plan : Plans, status : StripeStatuses, age : Ages]
    BY <1>0, <2>1 DEF StripeSet, Subscribed, NotSubscribed
  <2>3. /\ stripe'[s] = [stripe[s] EXCEPT !.plan = plan, !.status = status]
        /\ \A t \in Subs : t # s => stripe'[t] = stripe[t]
        /\ DOMAIN stripe' = Subs /\ stripe' = [t \in Subs |-> stripe'[t]]
    BY <1>0, <2>1
  <2>4. stripe'[s] \in StripeSet /\ stripe'[s].status = status
    BY <2>2, <2>3 DEF StripeSet
  <2>5. \A t \in Subs : stripe'[t] \in StripeSet
    BY <1>0, <2>3, <2>4
  <2>. QED
    BY <2>1, <2>3, <2>4, <2>5 DEF Subscribed
<1>8. CASE \E plan \in Plans, status \in StripeStatuses : Change(s, plan, status)
  <2>1. PICK plan \in Plans, status \in StripeStatuses : Change(s, plan, status)
    BY <1>8
  <2>2. PICK x : Emits(<<x>>)
    BY <1>6, <2>1
  <2>. QED
    BY <1>1, <1>6, <1>7, <2>1, <2>2
<1>. QED
  BY <1>4, <1>5, <1>8 DEF AtStripe

\* A request in flight.
LEMMA InFlight ==
    ASSUME IInv, NEW w \in Requests
    PROVE  /\ Idle.phase = "idle" /\ Idle.event = NoEvent
           /\ work[w].phase # "idle" => work[w] # Idle
           /\ work[w] # Idle =>
                 /\ work[w] \in [phase : {"resolve", "write", "mark"}, event : 0..Len(events),
                                 image : Images, customer : Subs]
                 /\ Genuine(work[w].image) /\ work[w].customer = work[w].image.customer
                 /\ work[w].phase = "mark" => work[w].event # NoEvent
                 /\ CurrentOf(work[w].customer) \in Subscribed
                 /\ checkout[CurrentOf(work[w].customer)].customer = work[w].customer
<1>1. Idle.phase = "idle" /\ Idle.event = NoEvent
  BY DEF Idle
<1>2. ASSUME work[w] # Idle
      PROVE  /\ work[w] \in [phase : {"resolve", "write", "mark"}, event : 0..Len(events),
                             image : Images, customer : Subs]
             /\ Genuine(work[w].image) /\ work[w].customer = work[w].image.customer
             /\ work[w].phase = "mark" => work[w].event # NoEvent
  BY <1>2 DEF IInv, TypeOK, AboutSubscriptions
<1>3. ASSUME work[w] # Idle
      PROVE  /\ CurrentOf(work[w].customer) \in Subscribed
             /\ checkout[CurrentOf(work[w].customer)].customer = work[w].customer
  BY <1>2, <1>3, CurrentFacts DEF IInv, Genuine
<1>. QED
  BY <1>1, <1>2, <1>3

\* What the requests write down.
LEMMA RequestAfter ==
    ASSUME IInv, NEW w \in Requests
    PROVE  /\ \A e \in EventIds : Receive(w, e) =>
                 /\ e \in 1..Len(events) /\ e \notin processed
                 /\ \E p \in {"resolve", "write"} :
                       work' = [work EXCEPT ![w] = [phase |-> p, event |-> e, image |-> events[e].image,
                                                    customer |-> events[e].image.customer]]
           /\ BeginSync(w) =>
                 row # NoRow /\
                 work' = [work EXCEPT ![w] = [phase |-> "resolve", event |-> NoEvent, image |-> row,
                                              customer |-> row.customer]]
           /\ ResolveCurrent(w) =>
                 /\ work[w] # Idle
                 /\ work' = [work EXCEPT ![w] =
                       [phase |-> "write", event |-> work[w].event,
                        image |-> ImageOf(CurrentOf(work[w].customer)), customer |-> work[w].customer]]
           /\ WriteRow(w) =>
                 /\ work[w] # Idle
                 /\ \/ work' = [work EXCEPT ![w] = Idle]
                    \/ work[w].event # NoEvent /\
                       work' = [work EXCEPT ![w] = [phase |-> "mark", event |-> work[w].event,
                                                    image |-> work[w].image, customer |-> work[w].customer]]
           /\ MarkProcessed(w) => work[w] # Idle /\ work' = [work EXCEPT ![w] = Idle]
           /\ Fail(w) => work' = [work EXCEPT ![w] = Idle]
<1>0. work \in [Requests -> WorkSet(Len(events))]
  BY DEF IInv, TypeOK, WorkSet
<1>1. ASSUME NEW e \in EventIds, Receive(w, e)
      PROVE  /\ e \in 1..Len(events) /\ e \notin processed
             /\ \E p \in {"resolve", "write"} :
                   work' = [work EXCEPT ![w] = [phase |-> p, event |-> e, image |-> events[e].image,
                                                customer |-> events[e].image.customer]]
  BY <1>1 DEF Receive
<1>2. ASSUME ResolveCurrent(w)
      PROVE  /\ work[w] # Idle
             /\ work' = [work EXCEPT ![w] =
                   [phase |-> "write", event |-> work[w].event,
                    image |-> ImageOf(CurrentOf(work[w].customer)), customer |-> work[w].customer]]
  <2>1. work[w] # Idle
    BY <1>2 DEF ResolveCurrent, Idle
  <2>2. work[w] \in [phase : {"resolve", "write", "mark"}, event : 0..Len(events),
                     image : Images, customer : Subs]
    BY <2>1, InFlight
  <2>3. work' = [work EXCEPT ![w] = [work[w] EXCEPT !.phase = "write",
                                                     !.image = ImageOf(CurrentOf(work[w].customer))]]
    BY <1>0, <1>2 DEF ResolveCurrent
  <2>4. ASSUME NEW i \in Images
        PROVE  [work[w] EXCEPT !.phase = "write", !.image = i]
                 = [phase |-> "write", event |-> work[w].event, image |-> i,
                    customer |-> work[w].customer]
    <3>. DEFINE q == [work[w] EXCEPT !.phase = "write", !.image = i]
    <3>1. q \in [phase : {"write"}, event : 0..Len(events), image : Images, customer : Subs]
      BY <2>2
    <3>2. q.image = i /\ q.event = work[w].event /\ q.customer = work[w].customer
      BY <2>2
    <3>. HIDE DEF q
    <3>3. q = [phase |-> "write", event |-> work[w].event, image |-> i, customer |-> work[w].customer]
      BY <3>1, <3>2
    <3>. QED
      BY <3>3 DEF q
  <2>5. ImageOf(CurrentOf(work[w].customer)) \in Images
    BY <2>1, InFlight, ImageFacts DEF IInv
  <2>. QED
    BY <2>1, <2>3, <2>4, <2>5
<1>3. ASSUME WriteRow(w)
      PROVE  /\ work[w] # Idle
             /\ \/ work' = [work EXCEPT ![w] = Idle]
                \/ work[w].event # NoEvent /\
                   work' = [work EXCEPT ![w] = [phase |-> "mark", event |-> work[w].event,
                                                image |-> work[w].image, customer |-> work[w].customer]]
  <2>1. work[w] # Idle
    BY <1>3 DEF WriteRow, Idle
  <2>2. work[w] \in [phase : {"resolve", "write", "mark"}, event : 0..Len(events),
                     image : Images, customer : Subs]
    BY <2>1, InFlight
  <2>3. CASE work[w].event # NoEvent
    <3>1. work' = [work EXCEPT ![w] = [work[w] EXCEPT !.phase = "mark"]]
      BY <1>0, <1>3, <2>3 DEF WriteRow
    <3>2. [work[w] EXCEPT !.phase = "mark"] =
             [phase |-> "mark", event |-> work[w].event, image |-> work[w].image,
              customer |-> work[w].customer]
      BY <2>2
    <3>. QED
      BY <2>1, <2>3, <3>1, <3>2
  <2>4. CASE work[w].event = NoEvent
    BY <1>3, <2>1, <2>4 DEF WriteRow
  <2>. QED
    BY <2>3, <2>4
<1>4. ASSUME MarkProcessed(w) PROVE work[w] # Idle /\ work' = [work EXCEPT ![w] = Idle]
  BY <1>4 DEF MarkProcessed, Idle
<1>. QED
  BY <1>1, <1>2, <1>3, <1>4 DEF BeginSync, Fail

\* Types.
LEMMA StepTypeOK == IInv /\ [Next]_vars => TypeOK'
<1>. SUFFICES ASSUME IInv, [Next]_vars PROVE TypeOK'
  OBVIOUS
<1>0. /\ TypeOK /\ OfCheckouts
      /\ checkout \in [Subs -> [plan : Plans \cup {NoPlan}, customer : Subs \cup {NoSub}]]
      /\ stripe \in [Subs -> StripeSet] /\ events \in Seq(EventSet) /\ Len(events) \in Nat
      /\ row \in Images \cup {NoRow} /\ processed \subseteq 1..Len(events)
      /\ Len(events) <= MaxEvents
      /\ work \in [Requests -> WorkSet(Len(events))]
      /\ failures \in 0..MaxFailures /\ outdated \in BOOLEAN
      /\ MaxFailures \in Nat
  BY BillingSyncAssumption DEF IInv, TypeOK, StripeSet, EventSet, WorkSet
<1>t. ASSUME /\ checkout' \in [Subs -> [plan : Plans \cup {NoPlan}, customer : Subs \cup {NoSub}]]
             /\ stripe' \in [Subs -> StripeSet] /\ events' \in Seq(EventSet)
             /\ row' \in Images \cup {NoRow} /\ processed' \subseteq 1..Len(events')
             /\ Len(events') <= MaxEvents
             /\ work' \in [Requests -> WorkSet(Len(events'))]
             /\ failures' \in 0..MaxFailures /\ outdated' \in BOOLEAN
      PROVE  TypeOK'
  BY <1>t DEF TypeOK, StripeSet, EventSet, WorkSet
<1>1. ASSUME NEW s \in Subs, AtStripe(s) PROVE TypeOK'
  <2>1. WorkSet(Len(events)) \subseteq WorkSet(Len(events'))
    BY <1>0, <1>1, StripeFacts DEF WorkSet
  <2>2. processed \subseteq 1..Len(events')
    BY <1>0, <1>1, StripeFacts
  <2>. QED
    BY <1>0, <1>1, <1>t, <2>1, <2>2, StripeFacts
<1>2. ASSUME NEW s \in Subs, NEW plan \in Plans, Checkout(s, plan) PROVE TypeOK'
  <2>1. row.customer \in Subs \cup {NoSub}
    BY <1>0 DEF Images, NoRow, Image
  <2>2. checkout' \in [Subs -> [plan : Plans \cup {NoPlan}, customer : Subs \cup {NoSub}]]
    BY <1>0, <1>2, <2>1 DEF Checkout
  <2>. QED
    BY <1>0, <1>2, <1>t, <2>2 DEF Checkout
\* The work of one request.
<1>w. ASSUME NEW w \in Requests, NEW r, work' = [work EXCEPT ![w] = r], Len(events') = Len(events),
             r = Idle \/ r \in [phase : {"resolve", "write", "mark"}, event : 0..Len(events),
                                image : Images, customer : Subs]
      PROVE  work' \in [Requests -> WorkSet(Len(events'))]
  BY <1>0, <1>w DEF WorkSet
<1>i. ASSUME NEW image \in Images PROVE image.customer \in Subs
  BY <1>i DEF Images
<1>3. ASSUME NEW w \in Requests, NEW e \in EventIds, Receive(w, e) PROVE TypeOK'
  <2>1. UNCHANGED <<checkout, stripe, events, row, processed, failures, outdated>>
    BY <1>3 DEF Receive
  <2>2. events[e].image \in Images
    <3>1. events[e] \in EventSet
      BY <1>0, <1>3, RequestAfter
    <3>. QED
      BY <3>1 DEF EventSet
  <2>3. work' \in [Requests -> WorkSet(Len(events'))]
    BY <1>0, <1>3, <1>w, <1>i, <2>1, <2>2, RequestAfter
  <2>. QED
    BY <1>0, <1>t, <2>1, <2>3
<1>4. ASSUME NEW w \in Requests, BeginSync(w) PROVE TypeOK'
  <2>1. UNCHANGED <<checkout, stripe, events, row, processed, failures, outdated>>
    BY <1>4 DEF BeginSync
  <2>2. row \in Images
    BY <1>0, <1>4, RequestAfter
  <2>3. work' \in [Requests -> WorkSet(Len(events'))]
    BY <1>0, <1>4, <1>w, <1>i, <2>1, <2>2, RequestAfter DEF NoEvent
  <2>. QED
    BY <1>0, <1>t, <2>1, <2>3
<1>5. ASSUME NEW w \in Requests, ResolveCurrent(w) PROVE TypeOK'
  <2>1. UNCHANGED <<checkout, stripe, events, row, processed, failures, outdated>>
    BY <1>5 DEF ResolveCurrent
  <2>2. work[w] # Idle /\ ImageOf(CurrentOf(work[w].customer)) \in Images
    BY <1>0, <1>5, RequestAfter, InFlight, ImageFacts
  <2>3. work' \in [Requests -> WorkSet(Len(events'))]
    BY <1>0, <1>5, <1>w, <2>1, <2>2, RequestAfter, InFlight
  <2>. QED
    BY <1>0, <1>t, <2>1, <2>3
<1>6. ASSUME NEW w \in Requests, WriteRow(w) PROVE TypeOK'
  <2>1. UNCHANGED <<checkout, stripe, events, processed, failures>> /\ outdated' \in BOOLEAN
        /\ row' = work[w].image /\ work[w] # Idle
    BY <1>6, RequestAfter DEF WriteRow
  <2>2. work[w].image \in Images
    BY <2>1, InFlight
  <2>3. work' \in [Requests -> WorkSet(Len(events'))]
    BY <1>0, <1>6, <1>w, <2>1, RequestAfter, InFlight
  <2>. QED
    BY <1>0, <1>t, <2>1, <2>2, <2>3
<1>7. ASSUME NEW w \in Requests, MarkProcessed(w) PROVE TypeOK'
  <2>1. /\ UNCHANGED <<checkout, stripe, events, row, failures, outdated>>
        /\ processed' = processed \cup {work[w].event} /\ work[w].phase = "mark"
    BY <1>7 DEF MarkProcessed
  <2>2. work[w].event \in 1..Len(events)
    BY <1>0, <1>7, <2>1, RequestAfter, InFlight DEF NoEvent
  <2>3. work' \in [Requests -> WorkSet(Len(events'))]
    BY <1>0, <1>7, <1>w, <2>1, RequestAfter
  <2>. QED
    BY <1>0, <1>t, <2>1, <2>2, <2>3
<1>8. ASSUME NEW w \in Requests, Fail(w) PROVE TypeOK'
  <2>1. /\ UNCHANGED <<checkout, stripe, events, row, processed, outdated>>
        /\ failures' \in 0..MaxFailures
    BY <1>0, <1>8 DEF Fail
  <2>2. work' \in [Requests -> WorkSet(Len(events'))]
    BY <1>0, <1>8, <1>w, <2>1, RequestAfter
  <2>. QED
    BY <1>0, <1>t, <2>1, <2>2
<1>9. CASE UNCHANGED vars
  BY <1>0, <1>9, <1>t DEF vars
<1>. QED
  BY <1>1, <1>2, <1>3, <1>4, <1>5, <1>6, <1>7, <1>8, <1>9 DEF Next, AtStripe, Deliver, Handle, Requests

\* What was said of a subscription stays true of it: it exists from then on, for
\* the same customer.
LEMMA GenuineKept ==
    ASSUME IInv, [Next]_vars
    PROVE  /\ \A s \in Subs : s \in Subscribed => stripe'[s].status # "none" /\ checkout'[s] = checkout[s]
           /\ \A image : Genuine(image) =>
                 /\ image.sub \in Subs /\ stripe'[image.sub].status # "none"
                 /\ checkout'[image.sub].customer = image.customer
           /\ OfCheckouts'
<1>0. /\ OfCheckouts
      /\ checkout \in [Subs -> [plan : Plans \cup {NoPlan}, customer : Subs \cup {NoSub}]]
      /\ row.customer \in Subs \cup {NoSub}
  BY DEF IInv, TypeOK, Images, NoRow, Image
<1>1. ASSUME NEW s \in Subs, AtStripe(s)
      PROVE  /\ \A t \in Subs : t \in Subscribed => stripe'[t].status # "none" /\ checkout'[t] = checkout[t]
             /\ OfCheckouts'
  <2>1. UNCHANGED checkout /\ \A t \in Subs : t \in Subscribed => stripe'[t].status # "none"
    BY <1>1, StripeFacts
  <2>2. \A t \in Subs : stripe'[t].status # "none" => checkout[t].plan # NoPlan
    BY <1>0, <1>1, StripeFacts DEF OfCheckouts
  <2>. QED
    BY <1>0, <2>1, <2>2 DEF OfCheckouts, Subscribed
<1>2. ASSUME NEW s \in Subs, NEW plan \in Plans, Checkout(s, plan)
      PROVE  /\ \A t \in Subs : t \in Subscribed => stripe'[t].status # "none" /\ checkout'[t] = checkout[t]
             /\ OfCheckouts'
  <2>1. /\ checkout[s].plan = NoPlan /\ UNCHANGED stripe
        /\ \A t \in Subs : t # s => checkout'[t] = checkout[t]
        /\ checkout'[s] = [plan |-> plan, customer |-> IF row.customer = NoSub THEN s ELSE row.customer]
    BY <1>0, <1>2 DEF Checkout
  <2>2. s \notin Subscribed
    BY <1>0, <2>1 DEF OfCheckouts
  <2>3. checkout'[s].customer \in Subs
    BY <1>0, <2>1
  <2>. QED
    BY <1>0, <2>1, <2>2, <2>3 DEF OfCheckouts, Subscribed
<1>3. ASSUME UNCHANGED <<checkout, stripe>>
      PROVE  /\ \A t \in Subs : t \in Subscribed => stripe'[t].status # "none" /\ checkout'[t] = checkout[t]
             /\ OfCheckouts'
  BY <1>0, <1>3 DEF OfCheckouts, Subscribed
<1>4. /\ \A t \in Subs : t \in Subscribed => stripe'[t].status # "none" /\ checkout'[t] = checkout[t]
      /\ OfCheckouts'
  <2>1. ASSUME NEW w \in Requests,
               (\E e \in EventIds : Receive(w, e)) \/ BeginSync(w) \/ Handle(w) \/ Fail(w)
        PROVE  UNCHANGED <<checkout, stripe>>
    BY <2>1 DEF Receive, BeginSync, Handle, ResolveCurrent, WriteRow, MarkProcessed, Fail
  <2>2. UNCHANGED vars => UNCHANGED <<checkout, stripe>>
    BY DEF vars
  <2>. QED
    BY <1>1, <1>2, <1>3, <2>1, <2>2 DEF Next, AtStripe, Deliver, Requests
<1>. QED
  BY <1>4 DEF Genuine, Subscribed

\* What is said of a subscription names one that exists.
LEMMA StepAbout == IInv /\ [Next]_vars => AboutSubscriptions'
<1>. SUFFICES ASSUME IInv, [Next]_vars PROVE AboutSubscriptions'
  OBVIOUS
<1>. DEFINE True(image) ==
               /\ image.sub \in Subs /\ stripe'[image.sub].status # "none"
               /\ checkout'[image.sub].customer = image.customer
            About(r) == r # Idle => /\ True(r.image) /\ r.customer = r.image.customer
                                    /\ r.phase = "mark" => r.event # NoEvent
<1>0. /\ TypeOK /\ OfCheckouts /\ AboutSubscriptions /\ DOMAIN work = Requests
      /\ Len(events) \in Nat
      /\ \A w \in Requests : Idle # work[w] => Genuine(work[w].image)
  BY DEF IInv, TypeOK, AboutSubscriptions
<1>1. \A image : Genuine(image) => True(image)
  BY GenuineKept
<1>2. ASSUME \A e \in 1..Len(events') : True(events'[e].image), row' # NoRow => True(row'),
             \A w \in Requests : About(work'[w])
      PROVE  AboutSubscriptions'
  BY <1>2 DEF AboutSubscriptions, Genuine, Subscribed
<1>3. /\ \A e \in 1..Len(events) : True(events[e].image)
      /\ row # NoRow => True(row)
      /\ \A w \in Requests : About(work[w])
  BY <1>0, <1>1 DEF AboutSubscriptions
<1>4. ASSUME NEW s \in Subs, AtStripe(s) PROVE AboutSubscriptions'
  <2>1. /\ UNCHANGED <<checkout, row, work>> /\ stripe'[s].status # "none"
        /\ \A e \in 1..Len(events) : events'[e] = events[e]
        /\ \A e \in 1..Len(events') \ 1..Len(events) :
              events'[e].image.sub = s /\ events'[e].image.customer = checkout[s].customer
    BY <1>4, StripeFacts
  <2>2. ASSUME NEW e \in 1..Len(events') PROVE True(events'[e].image)
    <3>1. CASE e \in 1..Len(events)
      BY <1>3, <2>1, <3>1
    <3>2. CASE e \notin 1..Len(events)
      BY <2>1, <3>2
    <3>. QED
      BY <3>1, <3>2
  <2>. HIDE DEF True
  <2>. QED
    BY <1>2, <1>3, <2>1, <2>2
<1>. HIDE DEF True
<1>5. ASSUME NEW w \in Requests, NEW r, work' = [work EXCEPT ![w] = r], About(r)
      PROVE  \A v \in Requests : About(work'[v])
  <2>1. ASSUME NEW v \in Requests PROVE About(work'[v])
    <3>1. work'[v] = IF v = w THEN r ELSE work[v]
      BY <1>0, <1>5
    <3>. HIDE DEF About
    <3>. QED
      BY <1>3, <1>5, <3>1
  <2>. QED
    BY <2>1
<1>6. ASSUME NEW w \in Requests, NEW e \in EventIds, Receive(w, e) PROVE AboutSubscriptions'
  <2>1. UNCHANGED <<events, row>> /\ e \in 1..Len(events)
    BY <1>6 DEF Receive
  <2>2. PICK p \in {"resolve", "write"} :
            work' = [work EXCEPT ![w] = [phase |-> p, event |-> e, image |-> events[e].image,
                                         customer |-> events[e].image.customer]]
    BY <1>6, RequestAfter
  <2>3. About([phase |-> p, event |-> e, image |-> events[e].image,
               customer |-> events[e].image.customer])
    BY <1>3, <2>1
  <2>. QED
    BY <1>2, <1>3, <1>5, <2>1, <2>2, <2>3
<1>7. ASSUME NEW w \in Requests, BeginSync(w) PROVE AboutSubscriptions'
  <2>1. UNCHANGED <<events, row>> /\ row # NoRow
    BY <1>7, RequestAfter DEF BeginSync
  <2>2. About([phase |-> "resolve", event |-> NoEvent, image |-> row, customer |-> row.customer])
    BY <1>3, <2>1
  <2>. QED
    BY <1>2, <1>3, <1>5, <1>7, <2>1, <2>2, RequestAfter
<1>8. ASSUME NEW w \in Requests, ResolveCurrent(w) PROVE AboutSubscriptions'
  <2>. DEFINE s == CurrentOf(work[w].customer)
  <2>1. UNCHANGED <<events, row>> /\ work[w] # Idle
    BY <1>8, RequestAfter DEF ResolveCurrent
  <2>2. s \in Subscribed /\ checkout[s].customer = work[w].customer
    BY <2>1, InFlight
  <2>3. Genuine(ImageOf(s)) /\ ImageOf(s).customer = work[w].customer
    BY <1>0, <2>2, ImageFacts
  <2>4. About([phase |-> "write", event |-> work[w].event, image |-> ImageOf(s),
               customer |-> work[w].customer])
    BY <1>1, <2>3
  <2>. QED
    BY <1>2, <1>3, <1>5, <1>8, <2>1, <2>4, RequestAfter
<1>9. ASSUME NEW w \in Requests, WriteRow(w) PROVE AboutSubscriptions'
  <2>1. UNCHANGED events /\ row' = work[w].image /\ work[w] # Idle
    BY <1>9, RequestAfter DEF WriteRow
  <2>2. True(row')
    BY <1>3, <2>1
  <2>3. About(Idle)
    OBVIOUS
  <2>4. work[w].event # NoEvent =>
           About([phase |-> "mark", event |-> work[w].event, image |-> work[w].image,
                  customer |-> work[w].customer])
    BY <1>3, <2>1
  <2>5. \A v \in Requests : About(work'[v])
    BY <1>5, <1>9, <2>3, <2>4, RequestAfter
  <2>. QED
    BY <1>2, <1>3, <2>1, <2>2, <2>5
<1>10. ASSUME NEW w \in Requests, MarkProcessed(w) \/ Fail(w) PROVE AboutSubscriptions'
  <2>1. UNCHANGED <<events, row>> /\ work' = [work EXCEPT ![w] = Idle]
    BY <1>10, RequestAfter DEF MarkProcessed, Fail
  <2>2. About(Idle)
    OBVIOUS
  <2>. QED
    BY <1>2, <1>3, <1>5, <2>1, <2>2
<1>11. CASE UNCHANGED <<events, row, work>>
  BY <1>2, <1>3, <1>11
<1>12. ASSUME NEW s \in Subs, NEW plan \in Plans, Checkout(s, plan) PROVE UNCHANGED <<events, row, work>>
  BY <1>12 DEF Checkout
<1>. QED
  BY <1>4, <1>6, <1>7, <1>8, <1>9, <1>10, <1>11, <1>12 DEF Next, AtStripe, Deliver, Handle, Requests, vars

\* The row shows the current subscription, seen by a state whose Stripe and
\* checkouts are the same.
LEMMA SameStripe ==
    ASSUME UNCHANGED <<checkout, stripe, row>>
    PROVE  RowIsCurrent' = RowIsCurrent /\ Subscribed' = Subscribed
<1>1. /\ Subscribed' = Subscribed /\ \A s : ImageOf(s)' = ImageOf(s)
      /\ \A s : IsCurrent(s)' = IsCurrent(s)
  BY DEF Subscribed, ImageOf, IsCurrent
<1>. QED
  BY <1>1 DEF RowIsCurrent

\* The change since the last write stays in an event that is not processed.
LEMMA StepPending == IInv /\ [Next]_vars => ChangePending'
<1>. SUFFICES ASSUME IInv, [Next]_vars PROVE ChangePending'
  OBVIOUS
<1>. DEFINE Waits(e) == \A w \in Requests : work[w].event = e => work[w].phase # "mark"
<1>0. /\ TypeOK /\ ChangePending /\ work \in [Requests -> WorkSet(Len(events))]
      /\ Len(events) \in Nat /\ processed \subseteq 1..Len(events)
  BY DEF IInv, TypeOK, WorkSet
<1>1. ASSUME NEW e \in 1..Len(events') \ processed', \A w \in Requests :
                 work'[w].event = e => work'[w].phase # "mark"
      PROVE  ChangePending'
  BY <1>1 DEF ChangePending
\* Stripe has changed: the event about it is new to everyone.
<1>2. ASSUME NEW s \in Subs, AtStripe(s) PROVE ChangePending'
  <2>1. /\ UNCHANGED <<processed, work>> /\ Len(events') \in Nat /\ Len(events) < Len(events')
    BY <1>2, StripeFacts
  <2>2. Len(events') \in 1..Len(events') \ processed'
    BY <1>0, <2>1
  <2>3. ASSUME NEW w \in Requests, work[w].event = Len(events') PROVE FALSE
    <3>1. work[w].event \in 0..Len(events)
      BY <1>0 DEF WorkSet, Idle, NoEvent
    <3>. QED
      BY <1>0, <2>1, <2>3, <3>1
  <2>. QED
    BY <1>1, <2>1, <2>2, <2>3
\* Otherwise the witness stays, unless it is processed or written down now.
<1>3. ASSUME UNCHANGED <<checkout, stripe, events, row, processed, outdated>>,
             NEW w \in Requests, NEW r, work' = [work EXCEPT ![w] = r], r.phase # "mark"
      PROVE  ChangePending'
  <2>1. CASE ~(Subscribed # {} /\ ~outdated /\ ~RowIsCurrent)
    BY <1>3, <2>1, SameStripe DEF ChangePending
  <2>2. CASE Subscribed # {} /\ ~outdated /\ ~RowIsCurrent
    <3>1. PICK e \in 1..Len(events) \ processed : Waits(e)
      BY <1>0, <2>2 DEF ChangePending
    <3>2. \A v \in Requests : work'[v] = IF v = w THEN r ELSE work[v]
      BY <1>0, <1>3
    <3>3. \A v \in Requests : work'[v].event = e => work'[v].phase # "mark"
      BY <1>3, <3>1, <3>2
    <3>4. e \in 1..Len(events') \ processed'
      BY <1>3
    <3>. QED
      BY <1>1, <3>3, <3>4
  <2>. QED
    BY <2>1, <2>2
<1>4. ASSUME NEW w \in Requests, NEW e \in EventIds, Receive(w, e) PROVE ChangePending'
  <2>1. UNCHANGED <<checkout, stripe, events, row, processed, outdated>>
    BY <1>4 DEF Receive
  <2>2. PICK p \in {"resolve", "write"} :
            work' = [work EXCEPT ![w] = [phase |-> p, event |-> e, image |-> events[e].image,
                                         customer |-> events[e].image.customer]]
    BY <1>4, RequestAfter
  <2>. DEFINE r == [phase |-> p, event |-> e, image |-> events[e].image,
                    customer |-> events[e].image.customer]
  <2>3. r.phase # "mark" /\ work' = [work EXCEPT ![w] = r]
    BY <2>2
  <2>. HIDE DEF r
  <2>. QED
    BY <1>3, <2>1, <2>3
<1>5. ASSUME NEW w \in Requests, BeginSync(w) PROVE ChangePending'
  <2>1. UNCHANGED <<checkout, stripe, events, row, processed, outdated>>
    BY <1>5 DEF BeginSync
  <2>. DEFINE r == [phase |-> "resolve", event |-> NoEvent, image |-> row, customer |-> row.customer]
  <2>2. r.phase # "mark" /\ work' = [work EXCEPT ![w] = r]
    BY <1>5, RequestAfter
  <2>. HIDE DEF r
  <2>. QED
    BY <1>3, <2>1, <2>2
<1>6. ASSUME NEW w \in Requests, ResolveCurrent(w) PROVE ChangePending'
  <2>1. UNCHANGED <<checkout, stripe, events, row, processed, outdated>>
    BY <1>6 DEF ResolveCurrent
  <2>. DEFINE r == [phase |-> "write", event |-> work[w].event,
                    image |-> ImageOf(CurrentOf(work[w].customer)), customer |-> work[w].customer]
  <2>2. r.phase # "mark" /\ work' = [work EXCEPT ![w] = r]
    BY <1>6, RequestAfter
  <2>. HIDE DEF r
  <2>. QED
    BY <1>3, <2>1, <2>2
\* The row is written: it is current now, or marked as outdated.
<1>7. ASSUME NEW w \in Requests, WriteRow(w) PROVE ChangePending'
  <2>1. /\ row' = work[w].image /\ UNCHANGED <<checkout, stripe>> /\ work[w] # Idle
        /\ outdated' = ~(IsCurrent(row'.sub) /\ row' = ImageOf(row'.sub))
    BY <1>7, RequestAfter DEF WriteRow
  <2>2. row'.sub \in Subs
    BY <2>1, InFlight DEF Images
  <2>3. \A s : IsCurrent(s)' = IsCurrent(s) /\ ImageOf(s)' = ImageOf(s)
    BY <2>1 DEF IsCurrent, ImageOf, Subscribed
  <2>4. ~outdated' => RowIsCurrent'
    BY <2>1, <2>2, <2>3 DEF RowIsCurrent
  <2>. QED
    BY <2>4 DEF ChangePending
\* The event that is marked had its row written, so it is not the witness.
<1>8. ASSUME NEW w \in Requests, MarkProcessed(w) PROVE ChangePending'
  <2>1. /\ UNCHANGED <<checkout, stripe, events, row, outdated>> /\ work[w].phase = "mark"
        /\ processed' = processed \cup {work[w].event} /\ work' = [work EXCEPT ![w] = Idle]
    BY <1>8 DEF MarkProcessed
  <2>2. CASE ~(Subscribed # {} /\ ~outdated /\ ~RowIsCurrent)
    BY <2>1, <2>2, SameStripe DEF ChangePending
  <2>3. CASE Subscribed # {} /\ ~outdated /\ ~RowIsCurrent
    <3>1. PICK e \in 1..Len(events) \ processed : Waits(e)
      BY <1>0, <2>3 DEF ChangePending
    <3>2. work[w].event # e
      BY <2>1, <3>1
    <3>3. \A v \in Requests : work'[v] = IF v = w THEN Idle ELSE work[v]
      BY <1>0, <2>1
    <3>4. \A v \in Requests : work'[v].event = e => work'[v].phase # "mark"
      BY <3>1, <3>3 DEF Idle
    <3>5. e \in 1..Len(events') \ processed'
      BY <2>1, <3>2
    <3>. QED
      BY <1>1, <3>4, <3>5
  <2>. QED
    BY <2>2, <2>3
<1>9. ASSUME NEW w \in Requests, Fail(w) PROVE ChangePending'
  <2>1. UNCHANGED <<checkout, stripe, events, row, processed, outdated>> /\ Idle.phase # "mark"
    BY <1>9 DEF Fail, Idle
  <2>. QED
    BY <1>3, <1>9, <2>1, RequestAfter
\* A new checkout session is of no subscription yet.
<1>10. ASSUME NEW s \in Subs, NEW plan \in Plans, Checkout(s, plan) PROVE ChangePending'
  <2>1. UNCHANGED <<stripe, events, row, processed, work, outdated>>
    BY <1>10 DEF Checkout
  <2>2. \A t \in Subs : t \in Subscribed => checkout'[t] = checkout[t]
    BY GenuineKept
  <2>3. Subscribed' = Subscribed /\ \A t : IsCurrent(t)' = IsCurrent(t)
    BY <2>1 DEF Subscribed, IsCurrent
  <2>4. \A t \in Subs : t \in Subscribed => ImageOf(t)' = ImageOf(t)
    BY <2>1, <2>2 DEF ImageOf
  <2>5. RowIsCurrent' <=> RowIsCurrent
    BY <2>1, <2>3, <2>4 DEF RowIsCurrent, IsCurrent
  <2>. QED
    BY <1>0, <2>1, <2>3, <2>5 DEF ChangePending
<1>11. CASE UNCHANGED vars
  <2>1. UNCHANGED <<checkout, stripe, events, row, processed, work, outdated>>
    BY <1>11 DEF vars
  <2>. QED
    BY <1>0, <2>1, SameStripe DEF ChangePending
<1>. QED
  BY <1>2, <1>4, <1>5, <1>6, <1>7, <1>8, <1>9, <1>10, <1>11 DEF Next, AtStripe, Deliver, Handle, Requests

\* Before anything has been bought.
LEMMA InitIInv == Init => IInv
<1>. SUFFICES ASSUME Init PROVE IInv
  OBVIOUS
<1>1. /\ events = <<>> /\ Len(events) = 0 /\ Subscribed = {} /\ row = NoRow
      /\ \A s \in Subs : checkout[s].plan = NoPlan
      /\ \A w \in Requests : work[w] = Idle
  BY DEF Init, Subscribed, NotSubscribed
<1>2. events \in Seq([type : {"checkout", "subscription", "invoice"}, image : Images])
  BY <1>1
<1>3. TypeOK
  <2>1. checkout \in [Subs -> [plan : Plans \cup {NoPlan}, customer : Subs \cup {NoSub}]]
    BY DEF Init
  <2>2. /\ stripe \in [Subs -> {NotSubscribed}] /\ work \in [Requests -> {Idle}]
        /\ processed = {} /\ failures = 0 /\ outdated = FALSE
    BY DEF Init
  <2>3. 0 <= MaxEvents /\ 0 \in 0..MaxFailures
    BY BillingSyncAssumption
  <2>. QED
    BY <1>1, <1>2, <2>1, <2>2, <2>3 DEF TypeOK
<1>4. OfCheckouts /\ AboutSubscriptions /\ ChangePending
  BY <1>1 DEF OfCheckouts, AboutSubscriptions, ChangePending
<1>. QED
  BY <1>3, <1>4 DEF IInv

\* Whatever is bought, changed, cancelled, delivered late, twice or by several
\* requests, and whatever request fails, the row, the events and the requests in
\* flight agree as the inductive invariant says.
THEOREM AlwaysIInv == Spec => []IInv
<1>1. Init => IInv
  BY InitIInv
<1>2. IInv /\ [Next]_vars => IInv'
  BY StepTypeOK, StepAbout, StepPending, GenuineKept DEF IInv
<1>. QED
  BY <1>1, <1>2, PTL DEF Spec

\* Failures, retries and duplicates lose no change: once every event is answered
\* and no request runs, the row shows the current subscription, unless its last
\* write came late.
THEOREM Current == Spec => []CurrentUnlessOutdated
<1>1. IInv => CurrentUnlessOutdated
  BY DEF IInv, ChangePending, CurrentUnlessOutdated, Settled
<1>. QED
  BY <1>1, AlwaysIInv, PTL
=============================================================================
