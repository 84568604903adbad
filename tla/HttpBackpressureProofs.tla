------------------------ MODULE HttpBackpressureProofs ------------------------
(***************************************************************************)
(* The safety properties of the admission control, for any identities,     *)
(* requests and ceilings.                                                  *)
(***************************************************************************)
EXTENDS HttpBackpressure, FiniteSetTheorems, SequenceTheorems,
        WellFoundedInduction, TLAPS

-----------------------------------------------------------------------------
(* The invariant of a controller. *)

WaitsIn(s) == {x \in Items : \E i \in Identities : \E k \in DOMAIN s.queue[i] : s.queue[i][k] = x}

Under(s, t) == {x \in s.leases : t \in TiersOf(x.class)}

UnderBy(s, i, t) == {x \in Under(s, t) : x.by = i}

Distinct(q) == \A k, l \in DOMAIN q : q[k] = q[l] => k = l

Lists(q, x) == \E k \in DOMAIN q : q[k] = x

(* Each item waits once, in the queue of its identity, and not when leased. *)
QueuesInv(s) ==
  /\ \A i \in Identities : \A k \in DOMAIN s.queue[i] :
       s.queue[i][k].by = i /\ s.queue[i][k] \notin s.leases
  /\ \A i \in Identities : \A k, l \in DOMAIN s.queue[i] :
       s.queue[i][k] = s.queue[i][l] => k = l
  /\ IsFiniteSet(WaitsIn(s)) /\ s.queued = Cardinality(WaitsIn(s))

(* The order lists each identity that waits once. *)
OrderInv(s) ==
  /\ Distinct(s.order)
  /\ \A i \in Identities : s.queue[i] # <<>> <=> Lists(s.order, i)

(* The counters count the leases and keep their ceilings. *)
CountsInv(s) ==
  /\ IsFiniteSet(s.leases)
  /\ \A t \in Tiers :
       /\ s.inFlight[t] = Cardinality(Under(s, t))
       /\ s.inFlight[t] <= Limit[t]
       /\ \A i \in Identities :
            /\ s.byIdentity[i][t] = Cardinality(UnderBy(s, i, t))
            /\ s.byIdentity[i][t] <= LimitPerIdentity[t]

Sound(s) == s \in ControllersOver(Nat) /\ QueuesInv(s) /\ OrderInv(s) /\ CountsInv(s)

(* The dispatch has nothing to do. *)
Idle(s) == \A i \in Identities : s.queue[i] # <<>> => ~CanGrant(s, Head(s.queue[i]))

Present(s) == s.leases \cup WaitsIn(s)

(* The items of the requests inside the middleware. *)
Active == {r \in Requests : phase[r] # "idle"}

AdmissionInv ==
  /\ TypeOK
  /\ Sound(ctl)
  /\ Idle(ctl)
  /\ Present(ctl) = {ItemOf(r) : r \in Active}

-----------------------------------------------------------------------------
(* The loop is a function of the number of turns. *)

LEMMA LeastNumber ==
  ASSUME NEW S \in SUBSET Nat, S # {}
  PROVE  \E m \in S : \A n \in S : m <= n
<1>. DEFINE R == {ss \in Nat \X Nat : ss[1] < ss[2]}
<1>1. IsWellFoundedOn(R, Nat)
  BY NatLessThanWellFounded DEF OpToRel
<1>2. PICK m \in S : \A n \in S : ~ (<<n, m>> \in R)
  BY <1>1, WFMin
<1>3. \A n \in S : ~ (n < m)
  BY <1>2
<1>. QED
  BY <1>3

(* The first m turns from s. *)
IsRun(s, g, m) == g = [n \in 0 .. m |-> IF n = 0 THEN Start(s) ELSE Turn[g[n - 1]]]

LEMMA RunsExist ==
  ASSUME NEW s, NEW m \in Nat
  PROVE  \E g : IsRun(s, g, m)
<1>. DEFINE S == {n \in Nat : ~ \E g : IsRun(s, g, n)}
<1>1. SUFFICES ASSUME S # {} PROVE FALSE
  OBVIOUS
<1>2. PICK k \in S : \A n \in S : k <= n
  BY <1>1, LeastNumber
<1>3. CASE k = 0
  <2>1. IsRun(s, [n \in 0 .. 0 |-> Start(s)], 0)
    BY DEF IsRun
  <2>. QED
    BY <1>2, <1>3, <2>1
<1>4. CASE k # 0
  <2>1. k - 1 \in Nat /\ ~(k <= k - 1)
    BY <1>2, <1>4
  <2>2. k - 1 \notin S
    BY <1>2, <2>1
  <2>3. PICK g : IsRun(s, g, k - 1)
    BY <2>1, <2>2
  <2>. DEFINE h == [n \in 0 .. k |-> IF n = k THEN Turn[g[k - 1]] ELSE g[n]]
  <2>4. ASSUME NEW n \in 0 .. k
        PROVE  h[n] = IF n = 0 THEN Start(s) ELSE Turn[h[n - 1]]
    <3>1. CASE n = k
      <4>1. n - 1 \in 0 .. k /\ n - 1 # k
        BY <2>1, <3>1
      <4>2. h[n - 1] = g[k - 1]
        BY <3>1, <4>1
      <4>. QED
        BY <1>4, <3>1, <4>2
    <3>2. CASE n # k /\ n # 0
      <4>1. n \in 0 .. k - 1 /\ n - 1 \in 0 .. k /\ n - 1 # k
        BY <2>1, <3>2
      <4>2. g[n] = Turn[g[n - 1]]
        BY <2>3, <3>2, <4>1 DEF IsRun
      <4>. QED
        BY <3>2, <4>1, <4>2
    <3>3. CASE n # k /\ n = 0
      <4>1. n \in 0 .. k - 1
        BY <2>1, <3>3
      <4>2. g[n] = Start(s)
        BY <2>3, <3>3, <4>1 DEF IsRun
      <4>. QED
        BY <3>3, <4>2
    <3>. QED
      BY <3>1, <3>2, <3>3
  <2>5. h = [n \in 0 .. k |-> IF n = 0 THEN Start(s) ELSE Turn[h[n - 1]]]
    <3>. HIDE DEF h
    <3>1. h = [n \in 0 .. k |-> h[n]]
      BY DEF h
    <3>. QED
      BY <2>4, <3>1
  <2>6. IsRun(s, h, k)
    BY <2>5 DEF IsRun
  <2>. QED
    BY <1>2, <2>6
<1>. QED
  BY <1>3, <1>4

LEMMA RunsAgree ==
  ASSUME NEW s, NEW g, NEW h, NEW m \in Nat, NEW n \in Nat,
         IsRun(s, g, m), IsRun(s, h, n), NEW k \in Nat, k <= m, k <= n
  PROVE  g[k] = h[k]
<1>. DEFINE S == {j \in Nat : j <= m /\ j <= n /\ g[j] # h[j]}
<1>1. SUFFICES ASSUME S # {} PROVE FALSE
  OBVIOUS
<1>2. PICK j \in S : \A i \in S : j <= i
  BY <1>1, LeastNumber
<1>3. j \in 0 .. m /\ j \in 0 .. n
  BY <1>2
<1>4. j # 0
  BY <1>2, <1>3 DEF IsRun
<1>5. g[j] = Turn[g[j - 1]] /\ h[j] = Turn[h[j - 1]]
  BY <1>3, <1>4 DEF IsRun
<1>6. j - 1 \in Nat /\ j - 1 <= m /\ j - 1 <= n /\ ~(j <= j - 1)
  BY <1>2, <1>4
<1>7. g[j - 1] = h[j - 1]
  BY <1>2, <1>6
<1>. QED
  BY <1>2, <1>5, <1>7

LEMMA TurnsAreDefined ==
  ASSUME NEW s
  PROVE  /\ TurnsOf(s)[0] = Start(s)
         /\ \A n \in Nat : TurnsOf(s)[n + 1] = Turn[TurnsOf(s)[n]]
<1>. DEFINE F == [n \in Nat |-> (CHOOSE g : IsRun(s, g, n))[n]]
            Defines(f) == f = [n \in Nat |-> IF n = 0 THEN Start(s) ELSE Turn[f[n - 1]]]
<1>1. ASSUME NEW n \in Nat
      PROVE  F[n] = IF n = 0 THEN Start(s) ELSE Turn[F[n - 1]]
  <2>. DEFINE g == CHOOSE x : IsRun(s, x, n)
  <2>1. IsRun(s, g, n)
    BY RunsExist
  <2>2. F[n] = g[n]
    OBVIOUS
  <2>3. n \in 0 .. n
    OBVIOUS
  <2>4. CASE n = 0
    <3>. HIDE DEF g, F
    <3>. QED
      BY <2>1, <2>2, <2>3, <2>4 DEF IsRun
  <2>5. CASE n # 0
    <3>. DEFINE h == CHOOSE x : IsRun(s, x, n - 1)
    <3>1. n - 1 \in Nat /\ n - 1 <= n
      BY <2>5
    <3>2. IsRun(s, h, n - 1)
      BY <3>1, RunsExist
    <3>3. F[n - 1] = h[n - 1]
      BY <3>1
    <3>. HIDE DEF g, h, F
    <3>4. g[n - 1] = h[n - 1]
      BY <2>1, <3>1, <3>2, RunsAgree
    <3>5. g[n] = Turn[g[n - 1]]
      BY <2>1, <2>3, <2>5 DEF IsRun
    <3>. QED
      BY <2>2, <2>5, <3>3, <3>4, <3>5
  <2>. QED
    BY <2>4, <2>5
<1>2. Defines(F)
  <2>. HIDE DEF F
  <2>1. F = [n \in Nat |-> F[n]]
    BY DEF F
  <2>. QED
    BY <1>1, <2>1
<1>3. Defines(TurnsOf(s))
  <2>1. TurnsOf(s) = CHOOSE f : Defines(f)
    BY DEF TurnsOf
  <2>. HIDE DEF F, Defines
  <2>. QED
    BY <1>2, <2>1
<1>4. TurnsOf(s)[0] = Start(s)
  BY <1>3
<1>5. ASSUME NEW n \in Nat
      PROVE  TurnsOf(s)[n + 1] = Turn[TurnsOf(s)[n]]
  <2>1. n + 1 \in Nat /\ n + 1 # 0 /\ (n + 1) - 1 = n
    OBVIOUS
  <2>. QED
    BY <1>3, <2>1
<1>. QED
  BY <1>4, <1>5

-----------------------------------------------------------------------------
(* Sequences. *)

LEMMA FrontAndRest ==
  ASSUME NEW S, NEW q \in Seq(S), q # <<>>
  PROVE  /\ Len(q) \in Nat \ {0} /\ Head(q) = q[1] /\ Head(q) \in S
         /\ Tail(q) \in Seq(S) /\ Len(Tail(q)) = Len(q) - 1
         /\ \A k \in 1 .. Len(q) - 1 : Tail(q)[k] = q[k + 1]
  BY HeadTailProperties, EmptySeq

LEMMA OneMore ==
  ASSUME NEW S, NEW q \in Seq(S), NEW x \in S
  PROVE  /\ Append(q, x) \in Seq(S) /\ Len(Append(q, x)) = Len(q) + 1
         /\ \A k \in 1 .. Len(q) : Append(q, x)[k] = q[k]
         /\ Append(q, x)[Len(q) + 1] = x
  BY AppendProperties, LenProperties

LEMMA Positions ==
  ASSUME NEW S, NEW q \in Seq(S)
  PROVE  Len(q) \in Nat /\ DOMAIN q = 1 .. Len(q) /\ \A k \in 1 .. Len(q) : q[k] \in S
  BY LenProperties, ElementOfSeq

(* An order of which the first was sent to the back. *)
LEMMA ToTheBack ==
  ASSUME NEW S, NEW q \in Seq(S), q # <<>>
  PROVE  LET r == Append(Tail(q), Head(q))
         IN  /\ r \in Seq(S) /\ Len(r) = Len(q)
             /\ \A k \in 1 .. Len(q) - 1 : r[k] = q[k + 1]
             /\ r[Len(q)] = q[1]
<1>1. /\ Len(q) \in Nat \ {0} /\ Head(q) = q[1] /\ Head(q) \in S
      /\ Tail(q) \in Seq(S) /\ Len(Tail(q)) = Len(q) - 1
      /\ \A k \in 1 .. Len(q) - 1 : Tail(q)[k] = q[k + 1]
  BY FrontAndRest
<1>. DEFINE r == Append(Tail(q), Head(q))
<1>2. /\ r \in Seq(S) /\ Len(r) = Len(Tail(q)) + 1
      /\ \A k \in 1 .. Len(Tail(q)) : r[k] = Tail(q)[k]
      /\ r[Len(Tail(q)) + 1] = Head(q)
  BY <1>1, OneMore
<1>. QED
  BY <1>1, <1>2

-----------------------------------------------------------------------------
(* Types and fields. *)

LEMMA ClassTiers ==
  ASSUME NEW x \in Items
  PROVE  /\ x.req \in Requests /\ x.by \in Identities /\ x.class \in Classes
         /\ TiersOf(x.class) \subseteq Tiers
  BY DEF Items, TiersOf, Tiers

LEMMA FieldTypes ==
  ASSUME NEW s \in ControllersOver(Nat)
  PROVE  /\ s.inFlight \in [Tiers -> Nat]
         /\ s.byIdentity \in [Identities -> [Tiers -> Nat]]
         /\ s.queue \in [Identities -> Seq(Items)]
         /\ s.order \in Seq(Identities)
         /\ s.queued \in Nat
         /\ s.leases \in SUBSET Items
  BY DEF ControllersOver

LEMMA IntControllers == ControllersOver(Nat) \subseteq ControllersOver(Int)
<1>1. /\ [Tiers -> Nat] \subseteq [Tiers -> Int]
      /\ [Identities -> [Tiers -> Nat]] \subseteq [Identities -> [Tiers -> Int]]
  OBVIOUS
<1>. QED
  BY <1>1 DEF ControllersOver

(* What a lease changes. *)
LEMMA GrantedFields ==
  ASSUME NEW s \in ControllersOver(Nat), NEW x \in Items
  PROVE  LET t == Granted(s, x)
         IN  /\ t \in ControllersOver(Nat)
             /\ t.inFlight = Raised(s.inFlight, x.class)
             /\ t.byIdentity = [s.byIdentity EXCEPT ![x.by] = Raised(@, x.class)]
             /\ t.leases = s.leases \cup {x}
             /\ t.queue = s.queue /\ t.order = s.order /\ t.queued = s.queued
<1>. DEFINE t == Granted(s, x)
<1>1. /\ t.inFlight = Raised(s.inFlight, x.class)
      /\ t.byIdentity = [s.byIdentity EXCEPT ![x.by] = Raised(@, x.class)]
      /\ t.leases = s.leases \cup {x}
      /\ t.queue = s.queue /\ t.order = s.order /\ t.queued = s.queued
  BY DEF ControllersOver, Granted
<1>2. x.by \in Identities
  BY ClassTiers
<1>3. Raised(s.inFlight, x.class) \in [Tiers -> Nat]
  BY FieldTypes DEF Raised
<1>4. [s.byIdentity EXCEPT ![x.by] = Raised(@, x.class)] \in [Identities -> [Tiers -> Nat]]
  BY <1>2, FieldTypes DEF Raised
<1>5. s.leases \cup {x} \in SUBSET Items
  BY FieldTypes
<1>6. t \in ControllersOver(Nat)
  BY <1>3, <1>4, <1>5 DEF ControllersOver, Granted
<1>. QED
  BY <1>1, <1>6

LEMMA ServedFields ==
  ASSUME NEW s \in ControllersOver(Nat), s.order # <<>>,
         s.queue[Head(s.order)] # <<>>, s.queued # 0
  PROVE  LET i == Head(s.order)
             x == Head(s.queue[i])
             t == ServedFirst(s)
         IN  /\ i \in Identities /\ x \in Items
             /\ t \in ControllersOver(Nat)
             /\ t.inFlight = Granted(s, x).inFlight
             /\ t.byIdentity = Granted(s, x).byIdentity
             /\ t.leases = s.leases \cup {x}
             /\ t.queue = [s.queue EXCEPT ![i] = Tail(@)]
             /\ t.order = IF Tail(s.queue[i]) = <<>> THEN Tail(s.order)
                          ELSE Append(Tail(s.order), i)
             /\ t.queued = s.queued - 1
<1>. DEFINE i == Head(s.order)
            x == Head(s.queue[i])
            g == Granted(s, x)
            t == ServedFirst(s)
<1>1. i \in Identities /\ Tail(s.order) \in Seq(Identities)
  BY FieldTypes, FrontAndRest
<1>2. x \in Items /\ Tail(s.queue[i]) \in Seq(Items)
  BY <1>1, FieldTypes, FrontAndRest
<1>3. /\ g \in ControllersOver(Nat) /\ g.leases = s.leases \cup {x}
      /\ g.queue = s.queue /\ g.order = s.order /\ g.queued = s.queued
  BY <1>2, GrantedFields
<1>4. t = [g EXCEPT !.queue = [s.queue EXCEPT ![i] = Tail(@)],
                    !.queued = s.queued - 1,
                    !.order = IF Tail(s.queue[i]) = <<>> THEN Tail(s.order)
                              ELSE Append(Tail(s.order), i)]
  <2>1. t = [g EXCEPT !.queue[i] = Tail(s.queue[i]), !.queued = @ - 1,
                      !.order = IF Tail(s.queue[i]) = <<>> THEN Tail(@) ELSE Append(Tail(@), i)]
    BY DEF ServedFirst
  <2>. HIDE DEF g, t, x
  <2>. QED
    BY <1>3, <2>1 DEF ControllersOver
<1>5. [s.queue EXCEPT ![i] = Tail(@)] \in [Identities -> Seq(Items)]
  BY <1>1, <1>2, FieldTypes
<1>6. s.queued - 1 \in Nat
  BY FieldTypes
<1>7. (IF Tail(s.queue[i]) = <<>> THEN Tail(s.order) ELSE Append(Tail(s.order), i)) \in Seq(Identities)
  BY <1>1, OneMore
<1>. HIDE DEF g, t, x
<1>8. t \in ControllersOver(Nat)
  BY <1>3, <1>4, <1>5, <1>6, <1>7 DEF ControllersOver
<1>9. /\ t.inFlight = g.inFlight /\ t.byIdentity = g.byIdentity /\ t.leases = g.leases
      /\ t.queue = [s.queue EXCEPT ![i] = Tail(@)] /\ t.queued = s.queued - 1
      /\ t.order = IF Tail(s.queue[i]) = <<>> THEN Tail(s.order)
                   ELSE Append(Tail(s.order), i)
  BY <1>3, <1>4 DEF ControllersOver
<1>. QED
  BY <1>1, <1>2, <1>3, <1>8, <1>9 DEF g, t, x

-----------------------------------------------------------------------------
(* Counting. *)

LEMMA GrantCounts ==
  ASSUME NEW s \in ControllersOver(Nat), CountsInv(s),
         NEW x \in Items, x \notin s.leases, CanGrant(s, x)
  PROVE  CountsInv(Granted(s, x))
<1>. DEFINE t == Granted(s, x)
<1>1. /\ t.inFlight = Raised(s.inFlight, x.class)
      /\ t.byIdentity = [s.byIdentity EXCEPT ![x.by] = Raised(@, x.class)]
      /\ t.leases = s.leases \cup {x}
  BY GrantedFields
<1>2. x.by \in Identities /\ IsFiniteSet(s.leases)
  BY ClassTiers DEF CountsInv
<1>. HIDE DEF t
<1>3. IsFiniteSet(t.leases)
  BY <1>1, <1>2, FS_AddElement
<1>4. ASSUME NEW T \in Tiers
      PROVE  /\ t.inFlight[T] = Cardinality(Under(t, T)) /\ t.inFlight[T] <= Limit[T]
             /\ \A i \in Identities :
                  /\ t.byIdentity[i][T] = Cardinality(UnderBy(t, i, T))
                  /\ t.byIdentity[i][T] <= LimitPerIdentity[T]
  <2>0. /\ Limit[T] \in Nat /\ LimitPerIdentity[T] \in Nat
        /\ s.inFlight[T] \in Nat /\ s.inFlight[T] = Cardinality(Under(s, T)) /\ s.inFlight[T] <= Limit[T]
        /\ s.inFlight \in [Tiers -> Nat]
        /\ s.byIdentity \in [Identities -> [Tiers -> Nat]]
    BY FieldTypes, LimitsAssumption DEF CountsInv
  <2>1. IsFiniteSet(Under(s, T)) /\ x \notin Under(s, T)
    BY <1>2, FS_Subset DEF Under
  <2>2. Under(t, T) = IF T \in TiersOf(x.class) THEN Under(s, T) \cup {x} ELSE Under(s, T)
    BY <1>1 DEF Under
  <2>3. t.inFlight[T] = IF T \in TiersOf(x.class) THEN s.inFlight[T] + 1 ELSE s.inFlight[T]
    BY <1>1, <2>0 DEF Raised
  <2>4. T \in TiersOf(x.class) =>
          s.inFlight[T] < Limit[T] /\ s.byIdentity[x.by][T] < LimitPerIdentity[T]
    BY DEF CanGrant
  <2>5. t.inFlight[T] = Cardinality(Under(t, T)) /\ t.inFlight[T] <= Limit[T]
    <3>1. Cardinality(Under(s, T) \cup {x}) = Cardinality(Under(s, T)) + 1
      BY <2>1, FS_AddElement
    <3>. QED
      BY <2>0, <2>2, <2>3, <2>4, <3>1
  <2>6. ASSUME NEW i \in Identities
        PROVE  /\ t.byIdentity[i][T] = Cardinality(UnderBy(t, i, T))
               /\ t.byIdentity[i][T] <= LimitPerIdentity[T]
    <3>1. /\ s.byIdentity[i][T] \in Nat /\ s.byIdentity[i][T] = Cardinality(UnderBy(s, i, T))
          /\ s.byIdentity[i][T] <= LimitPerIdentity[T]
      BY <2>0 DEF CountsInv
    <3>2. IsFiniteSet(UnderBy(s, i, T)) /\ x \notin UnderBy(s, i, T)
      BY <2>1, FS_Subset DEF UnderBy
    <3>3. UnderBy(t, i, T) = IF T \in TiersOf(x.class) /\ i = x.by THEN UnderBy(s, i, T) \cup {x}
                             ELSE UnderBy(s, i, T)
      BY <2>2 DEF UnderBy
    <3>4. t.byIdentity[i][T] = IF T \in TiersOf(x.class) /\ i = x.by THEN s.byIdentity[i][T] + 1
                               ELSE s.byIdentity[i][T]
      BY <1>1, <1>2, <2>0 DEF Raised
    <3>. QED
      <4>1. Cardinality(UnderBy(s, i, T) \cup {x}) = Cardinality(UnderBy(s, i, T)) + 1
        BY <3>2, FS_AddElement
      <4>. QED
        BY <2>0, <2>4, <3>1, <3>3, <3>4, <4>1
  <2>. QED
    BY <2>5, <2>6
<1>. QED
  BY <1>3, <1>4 DEF CountsInv, t

(* The invariant of the counters is about three fields. *)
LEMMA SameCounts ==
  ASSUME NEW s, NEW t, CountsInv(s), t.leases = s.leases,
         t.inFlight = s.inFlight, t.byIdentity = s.byIdentity
  PROVE  CountsInv(t)
  BY DEF CountsInv, Under, UnderBy

-----------------------------------------------------------------------------
(* Serving the first request of the identity in front. *)

LEMMA ServedQueues ==
  ASSUME NEW s \in ControllersOver(Nat), NEW t \in ControllersOver(Nat), QueuesInv(s),
         NEW i \in Identities, s.queue[i] # <<>>,
         t.leases = s.leases \cup {Head(s.queue[i])},
         t.queue = [s.queue EXCEPT ![i] = Tail(@)], t.queued = s.queued - 1
  PROVE  /\ QueuesInv(t) /\ Present(t) = Present(s)
<1>. DEFINE q == s.queue[i]
            x == Head(q)
<1>1. /\ s.queue \in [Identities -> Seq(Items)] /\ q \in Seq(Items)
      /\ t.queue \in [Identities -> Seq(Items)]
  BY FieldTypes
<1>2. /\ Len(q) \in Nat \ {0} /\ x = q[1] /\ x \in Items
      /\ Len(Tail(q)) = Len(q) - 1
      /\ \A k \in 1 .. Len(q) - 1 : Tail(q)[k] = q[k + 1]
      /\ DOMAIN q = 1 .. Len(q) /\ DOMAIN Tail(q) = 1 .. Len(q) - 1
  BY <1>1, FrontAndRest, Positions
<1>3. /\ t.queue[i] = Tail(q)
      /\ \A j \in Identities \ {i} : t.queue[j] = s.queue[j]
  BY <1>1
<1>4. x.by = i /\ x \notin s.leases
  BY <1>2 DEF QueuesInv
<1>. HIDE DEF x
(* What waits afterwards waited before, and is not x. *)
<1>5. ASSUME NEW j \in Identities, NEW k \in DOMAIN t.queue[j]
      PROVE  \E l \in DOMAIN s.queue[j] :
               /\ t.queue[j][k] = s.queue[j][l] /\ t.queue[j][k] # x
               /\ l = IF j = i THEN k + 1 ELSE k
  <2>1. CASE j = i
    <3>0. PICK n \in Nat \ {0} : n = Len(q)
      BY <1>2
    <3>a. k \in 1 .. n - 1
      BY <1>2, <1>3, <2>1, <3>0
    <3>b. k + 1 \in 1 .. n /\ 1 \in 1 .. n /\ k + 1 # 1
      BY <3>a
    <3>1. k \in 1 .. Len(q) - 1 /\ k + 1 \in DOMAIN q /\ 1 \in DOMAIN q /\ k + 1 # 1
      BY <1>2, <3>0, <3>a, <3>b
    <3>2. t.queue[j][k] = q[k + 1]
      BY <1>2, <1>3, <2>1, <3>1
    <3>3. q[k + 1] # q[1]
      BY <3>1 DEF QueuesInv
    <3>. QED
      BY <1>2, <2>1, <3>1, <3>2, <3>3
  <2>2. CASE j # i
    <3>1. t.queue[j] = s.queue[j]
      BY <1>3, <2>2
    <3>2. s.queue[j][k].by = j
      BY <3>1 DEF QueuesInv
    <3>. QED
      BY <1>4, <2>2, <3>1, <3>2
  <2>. QED
    BY <2>1, <2>2
<1>6. WaitsIn(t) = WaitsIn(s) \ {x}
  <2>1. ASSUME NEW y \in WaitsIn(t) PROVE y \in WaitsIn(s) \ {x}
    BY <1>5 DEF WaitsIn
  <2>2. ASSUME NEW y \in WaitsIn(s), y # x PROVE y \in WaitsIn(t)
    <3>0. PICK j \in Identities : \E l \in DOMAIN s.queue[j] : s.queue[j][l] = y
      BY DEF WaitsIn
    <3>1. PICK k \in DOMAIN s.queue[j] : s.queue[j][k] = y
      BY <3>0
    <3>2. CASE j = i
      <4>1. k \in 1 .. Len(q) /\ k # 1
        BY <1>2, <2>2, <3>1, <3>2
      <4>2. k - 1 \in 1 .. Len(q) - 1 /\ (k - 1) + 1 = k
        BY <1>2, <4>1
      <4>3. t.queue[i][k - 1] = y /\ k - 1 \in DOMAIN t.queue[i]
        BY <1>2, <1>3, <3>1, <3>2, <4>2
      <4>. QED
        BY <4>3 DEF WaitsIn
    <3>3. CASE j # i
      BY <1>3, <3>1, <3>3 DEF WaitsIn
    <3>. QED
      BY <3>2, <3>3
  <2>. QED
    BY <2>1, <2>2
<1>7. x \in WaitsIn(s)
  BY <1>2 DEF WaitsIn
<1>8. IsFiniteSet(WaitsIn(t)) /\ t.queued = Cardinality(WaitsIn(t))
  BY <1>6, <1>7, FS_RemoveElement DEF QueuesInv
<1>9. \A j \in Identities : \A k \in DOMAIN t.queue[j] :
        t.queue[j][k].by = j /\ t.queue[j][k] \notin t.leases
  BY <1>5 DEF QueuesInv, x
<1>10. ASSUME NEW j \in Identities, NEW k \in DOMAIN t.queue[j], NEW l \in DOMAIN t.queue[j],
              t.queue[j][k] = t.queue[j][l]
       PROVE  k = l
  <2>1. k \in Int /\ l \in Int
    BY <1>1, Positions
  <2>2. PICK k2 \in DOMAIN s.queue[j] :
          t.queue[j][k] = s.queue[j][k2] /\ k2 = IF j = i THEN k + 1 ELSE k
    BY <1>5
  <2>3. PICK l2 \in DOMAIN s.queue[j] :
          t.queue[j][l] = s.queue[j][l2] /\ l2 = IF j = i THEN l + 1 ELSE l
    BY <1>5
  <2>4. k2 = l2
    BY <1>10, <2>2, <2>3 DEF QueuesInv
  <2>. QED
    BY <2>1, <2>2, <2>3, <2>4
<1>11. QueuesInv(t)
  BY <1>8, <1>9, <1>10 DEF QueuesInv
<1>12. Present(t) = Present(s)
  BY <1>6, <1>7 DEF Present, x
<1>. QED
  BY <1>11, <1>12

(* Somebody in a queue is counted. *)
LEMMA SomebodyWaits ==
  ASSUME NEW s \in ControllersOver(Nat), QueuesInv(s), NEW i \in Identities, s.queue[i] # <<>>
  PROVE  s.queued # 0
<1>1. s.queue[i] \in Seq(Items)
  BY FieldTypes
<1>2. 1 \in DOMAIN s.queue[i] /\ s.queue[i][1] \in Items
  BY <1>1, FrontAndRest, Positions
<1>3. s.queue[i][1] \in WaitsIn(s)
  BY <1>2 DEF WaitsIn
<1>. QED
  BY <1>3, FS_EmptySet DEF QueuesInv

LEMMA TailOfOrder ==
  ASSUME NEW o \in Seq(Identities), o # <<>>, Distinct(o), NEW r, r = Tail(o)
  PROVE  /\ Distinct(r)
         /\ \A j \in Identities : Lists(r, j) <=> j # Head(o) /\ Lists(o, j)
<1>1. /\ Len(o) \in Nat \ {0} /\ Head(o) = o[1] /\ DOMAIN o = 1 .. Len(o)
      /\ DOMAIN r = 1 .. Len(o) - 1
      /\ \A k \in 1 .. Len(o) - 1 : r[k] = o[k + 1]
  BY FrontAndRest, Positions
<1>2. PICK n \in Nat \ {0} : n = Len(o)
  BY <1>1
<1>3. \A k \in 1 .. n - 1 : k + 1 \in 1 .. n /\ k + 1 # 1
  BY <1>2
<1>4. \A k \in 1 .. n : k # 1 => k - 1 \in 1 .. n - 1 /\ (k - 1) + 1 = k
  BY <1>2
<1>5. 1 \in 1 .. n
  BY <1>2
<1>6. DOMAIN o = 1 .. n /\ DOMAIN r = 1 .. n - 1 /\ \A k, l \in 1 .. n : o[k] = o[l] => k = l
  BY <1>1, <1>2 DEF Distinct
<1>7. ASSUME NEW k \in 1 .. n - 1, NEW l \in 1 .. n - 1, r[k] = r[l]
      PROVE  k = l
  <2>1. o[k + 1] = o[l + 1]
    BY <1>1, <1>2, <1>7
  <2>2. k + 1 = l + 1
    BY <1>3, <1>6, <2>1
  <2>. QED
    BY <2>2
<1>8. Distinct(r)
  BY <1>6, <1>7 DEF Distinct
<1>9. ASSUME NEW j \in Identities, Lists(r, j)
      PROVE  j # Head(o) /\ Lists(o, j)
  <2>1. PICK k \in 1 .. n - 1 : r[k] = j
    BY <1>6, <1>9 DEF Lists
  <2>2. o[k + 1] = j
    BY <1>1, <1>2, <2>1
  <2>3. k + 1 \in 1 .. n /\ k + 1 # 1
    BY <1>3
  <2>4. Lists(o, j)
    BY <1>6, <2>2, <2>3 DEF Lists
  <2>5. j # o[1]
    BY <1>5, <1>6, <2>2, <2>3
  <2>. QED
    BY <1>1, <2>4, <2>5
<1>10. ASSUME NEW j \in Identities, Lists(o, j), j # Head(o)
      PROVE  Lists(r, j)
  <2>1. PICK k \in 1 .. n : o[k] = j
    BY <1>6, <1>10 DEF Lists
  <2>2. k # 1
    BY <1>1, <1>10, <2>1
  <2>3. k - 1 \in 1 .. n - 1 /\ r[k - 1] = o[(k - 1) + 1] /\ (k - 1) + 1 = k
    BY <1>1, <1>2, <1>4, <2>2
  <2>. QED
    BY <1>6, <2>1, <2>3 DEF Lists
<1>. QED
  BY <1>8, <1>9, <1>10

LEMMA OneMoreInOrder ==
  ASSUME NEW S, NEW o \in Seq(S), NEW x \in S, Distinct(o), ~Lists(o, x),
         NEW r, r = Append(o, x)
  PROVE  /\ Distinct(r)
         /\ \A j \in S : Lists(r, j) <=> j = x \/ Lists(o, j)
<1>1. PICK n \in Nat : n = Len(o)
  BY Positions
<1>2. /\ r \in Seq(S) /\ DOMAIN o = 1 .. n /\ DOMAIN r = 1 .. n + 1 /\ r[n + 1] = x
      /\ \A k \in 1 .. n : r[k] = o[k]
  BY <1>1, OneMore, Positions
<1>3. /\ \A k \in 1 .. n + 1 : k \in 1 .. n \/ k = n + 1
      /\ \A k \in 1 .. n : k \in 1 .. n + 1
      /\ n + 1 \in 1 .. n + 1
  BY <1>1
<1>4. \A k \in 1 .. n : r[k] # x
  BY <1>2 DEF Lists
<1>5. ASSUME NEW k \in 1 .. n + 1, NEW l \in 1 .. n + 1, r[k] = r[l]
      PROVE  k = l
  BY <1>2, <1>3, <1>4, <1>5 DEF Distinct
<1>6. Distinct(r)
  BY <1>2, <1>5 DEF Distinct
<1>7. ASSUME NEW j \in S, Lists(r, j)
      PROVE  j = x \/ Lists(o, j)
  BY <1>2, <1>3, <1>7 DEF Lists
<1>8. Lists(r, x)
  BY <1>2, <1>3 DEF Lists
<1>9. ASSUME NEW j \in S, Lists(o, j)
      PROVE  Lists(r, j)
  BY <1>2, <1>3, <1>9 DEF Lists
<1>. QED
  BY <1>6, <1>7, <1>8, <1>9

LEMMA RotatedOrder ==
  ASSUME NEW o \in Seq(Identities), o # <<>>, Distinct(o),
         NEW r, r = Append(Tail(o), Head(o))
  PROVE  /\ Distinct(r)
         /\ \A j \in Identities : Lists(r, j) <=> Lists(o, j)
<1>1. PICK t : t = Tail(o)
  OBVIOUS
<1>2. /\ t \in Seq(Identities) /\ Head(o) \in Identities /\ Lists(o, Head(o))
  BY <1>1, FrontAndRest, Positions DEF Lists
<1>3. Distinct(t) /\ \A j \in Identities : Lists(t, j) <=> j # Head(o) /\ Lists(o, j)
  BY <1>1, TailOfOrder
<1>4. ~Lists(t, Head(o)) /\ r = Append(t, Head(o))
  BY <1>1, <1>2, <1>3
<1>5. Distinct(r) /\ \A j \in Identities : Lists(r, j) <=> j = Head(o) \/ Lists(t, j)
  BY <1>2, <1>3, <1>4, OneMoreInOrder
<1>. QED
  BY <1>2, <1>3, <1>5

LEMMA ServedOrder ==
  ASSUME NEW s \in ControllersOver(Nat), NEW t \in ControllersOver(Nat), OrderInv(s),
         s.order # <<>>, NEW i \in Identities, i = Head(s.order), s.queue[i] # <<>>,
         t.queue = [s.queue EXCEPT ![i] = Tail(@)],
         t.order = IF Tail(s.queue[i]) = <<>> THEN Tail(s.order) ELSE Append(Tail(s.order), i)
  PROVE  OrderInv(t) /\ Len(t.order) \in {Len(s.order), Len(s.order) - 1}
<1>1. s.queue \in [Identities -> Seq(Items)] /\ s.order \in Seq(Identities)
  BY FieldTypes
<1>2. /\ t.queue[i] = Tail(s.queue[i])
      /\ \A j \in Identities \ {i} : t.queue[j] = s.queue[j]
  BY <1>1
<1>3. /\ Distinct(s.order)
      /\ \A j \in Identities : s.queue[j] # <<>> <=> Lists(s.order, j)
  BY DEF OrderInv
<1>4. CASE Tail(s.queue[i]) = <<>>
  <2>1. t.order = Tail(s.order) /\ t.queue[i] = <<>>
    BY <1>2, <1>4
  <2>2. Len(t.order) = Len(s.order) - 1
    BY <1>1, <2>1, FrontAndRest
  <2>3. Distinct(t.order) /\ \A j \in Identities : Lists(t.order, j) <=> j # i /\ Lists(s.order, j)
    <3>1. PICK o \in Seq(Identities), r \in Seq(Identities) : o = s.order /\ r = t.order
      BY <1>1, FieldTypes
    <3>2. o # <<>> /\ Distinct(o) /\ r = Tail(o) /\ i = Head(o)
      BY <1>3, <2>1, <3>1
    <3>3. Distinct(r) /\ \A j \in Identities : Lists(r, j) <=> j # Head(o) /\ Lists(o, j)
      BY <3>2, TailOfOrder
    <3>. QED
      BY <3>1, <3>2, <3>3
  <2>4. OrderInv(t)
    BY <1>2, <1>3, <2>1, <2>3 DEF OrderInv
  <2>. QED
    BY <2>2, <2>4
<1>5. CASE Tail(s.queue[i]) # <<>>
  <2>1. t.order = Append(Tail(s.order), Head(s.order)) /\ t.queue[i] # <<>>
    BY <1>2, <1>5
  <2>2. Len(t.order) = Len(s.order)
    BY <1>1, <2>1, ToTheBack
  <2>3. Distinct(t.order) /\ \A j \in Identities : Lists(t.order, j) <=> Lists(s.order, j)
    BY <1>1, <1>3, <2>1, RotatedOrder
  <2>4. OrderInv(t)
    BY <1>2, <1>3, <2>1, <2>3 DEF OrderInv
  <2>. QED
    BY <2>2, <2>4
<1>. QED
  BY <1>4, <1>5

-----------------------------------------------------------------------------
(* The loop of dispatch(). *)

(* What is left of a queue that was served from the front. *)
IsRest(r, q) ==
  \E k \in Nat : Len(q) = Len(r) + k /\ \A j \in 1 .. Len(r) : r[j] = q[j + k]

Blocked(s, i) == ~CanGrant(s, Head(s.queue[i]))

(* A state of the loop that was started on s: those behind the turns that  *)
(* are left were found blocked.                                            *)
LoopInv(s, d) ==
  /\ d \in [ctl : ControllersOver(Nat), left : Nat]
  /\ Sound(d.ctl)
  /\ d.left <= Len(d.ctl.order) /\ Len(d.ctl.order) <= Len(s.order)
  /\ \A k \in d.left + 1 .. Len(d.ctl.order) : Blocked(d.ctl, d.ctl.order[k])
  /\ s.leases \subseteq d.ctl.leases /\ Present(d.ctl) = Present(s)
  /\ \A i \in Identities : IsRest(d.ctl.queue[i], s.queue[i])

(* Every turn brings the end of the loop nearer. *)
Due(s, d) == d.ctl.queued * (Len(s.order) + 1) + d.left

LEMMA RestOfRest ==
  ASSUME NEW r \in Seq(Items), NEW q \in Seq(Items), r # <<>>, IsRest(r, q)
  PROVE  IsRest(Tail(r), q)
<1>1. /\ Len(r) \in Nat \ {0} /\ Len(Tail(r)) = Len(r) - 1
      /\ \A k \in 1 .. Len(r) - 1 : Tail(r)[k] = r[k + 1]
  BY FrontAndRest
<1>2. PICK k \in Nat : Len(q) = Len(r) + k /\ \A j \in 1 .. Len(r) : r[j] = q[j + k]
  BY DEF IsRest
<1>3. PICK n \in Nat \ {0} : n = Len(r)
  BY <1>1
<1>4. Len(q) = (n - 1) + (k + 1) /\ k + 1 \in Nat
  BY <1>2, <1>3
<1>5. ASSUME NEW j \in 1 .. n - 1 PROVE Tail(r)[j] = q[j + (k + 1)]
  <2>1. j + 1 \in 1 .. n /\ (j + 1) + k = j + (k + 1)
    BY <1>3
  <2>2. r[j + 1] = q[(j + 1) + k]
    BY <1>2, <1>3, <2>1
  <2>. QED
    BY <1>1, <1>3, <2>1, <2>2
<1>. QED
  BY <1>1, <1>3, <1>4, <1>5 DEF IsRest

LEMMA RestOfItself ==
  ASSUME NEW q \in Seq(Items)
  PROVE  IsRest(q, q)
<1>1. Len(q) \in Nat
  BY Positions
<1>2. Len(q) = Len(q) + 0 /\ \A j \in 1 .. Len(q) : q[j] = q[j + 0]
  BY <1>1
<1>. QED
  BY <1>2 DEF IsRest

LEMMA LoopStarts ==
  ASSUME NEW s, Sound(s)
  PROVE  LoopInv(s, Start(s))
<1>1. s \in ControllersOver(Nat)
  BY DEF Sound
<1>2. /\ Start(s).ctl = s /\ Start(s).left = Len(s.order)
      /\ Start(s) \in [ctl : ControllersOver(Nat), left : Nat] /\ Len(s.order) \in Nat
  BY <1>1, FieldTypes, Positions DEF Start
<1>3. \A i \in Identities : IsRest(s.queue[i], s.queue[i])
  BY <1>1, FieldTypes, RestOfItself
<1>4. Len(s.order) + 1 .. Len(s.order) = {}
  BY <1>2
<1>. QED
  BY <1>2, <1>3, <1>4 DEF LoopInv

(* The identity in front waits. *)
LEMMA FrontWaits ==
  ASSUME NEW s, Sound(s), s.order # <<>>
  PROVE  /\ s \in ControllersOver(Nat) /\ Head(s.order) \in Identities
         /\ s.queue[Head(s.order)] # <<>> /\ s.queue[Head(s.order)] \in Seq(Items)
<1>1. s \in ControllersOver(Nat) /\ OrderInv(s)
  BY DEF Sound
<1>2. /\ Head(s.order) \in Identities /\ 1 \in DOMAIN s.order /\ s.order[1] = Head(s.order)
  BY <1>1, FieldTypes, FrontAndRest, Positions
<1>. QED
  BY <1>1, <1>2, FieldTypes DEF OrderInv, Lists

LEMMA RotatedTurn ==
  ASSUME NEW s, Sound(s), NEW d, LoopInv(s, d), ~Over(d),
         Blocked(d.ctl, Head(d.ctl.order)),
         NEW e, e = [ctl |-> Rotated(d.ctl), left |-> d.left - 1]
  PROVE  LoopInv(s, e) /\ e.ctl.queued = d.ctl.queued /\ e.left = d.left - 1
<1>. DEFINE c == d.ctl
            t == Rotated(c)
<1>1. /\ c \in ControllersOver(Nat) /\ Sound(c) /\ c.order # <<>> /\ d.left \in Nat \ {0}
      /\ d.left <= Len(c.order) /\ Len(c.order) <= Len(s.order)
  BY DEF LoopInv, Over
<1>2. /\ c.order \in Seq(Identities) /\ c.queue \in [Identities -> Seq(Items)]
  BY <1>1, FieldTypes
<1>3. PICK r : r = Append(Tail(c.order), Head(c.order))
  OBVIOUS
<1>4. PICK n \in Nat : n = Len(c.order)
  BY <1>2, Positions
<1>5. /\ r \in Seq(Identities) /\ Len(r) = n
      /\ \A k \in 1 .. n - 1 : r[k] = c.order[k + 1]
      /\ r[n] = c.order[1] /\ Head(c.order) = c.order[1]
  BY <1>1, <1>2, <1>3, <1>4, ToTheBack, FrontAndRest
<1>6. /\ t.inFlight = c.inFlight /\ t.byIdentity = c.byIdentity /\ t.queue = c.queue
      /\ t.order = r /\ t.queued = c.queued /\ t.leases = c.leases
      /\ t \in ControllersOver(Nat)
  BY <1>1, <1>3, <1>5 DEF Rotated, ControllersOver
<1>7. e.ctl = t /\ e.left = d.left - 1 /\ e \in [ctl : ControllersOver(Nat), left : Nat]
  BY <1>1, <1>6
<1>. HIDE DEF t
<1>8. OrderInv(t)
  <2>1. OrderInv(c)
    BY <1>1 DEF Sound
  <2>2. Distinct(r) /\ \A j \in Identities : Lists(r, j) <=> Lists(c.order, j)
    BY <1>1, <1>2, <1>3, <2>1, RotatedOrder DEF OrderInv
  <2>. QED
    BY <1>6, <2>1, <2>2 DEF OrderInv
<1>9. Sound(t)
  <2>1. QueuesInv(c) /\ CountsInv(c)
    BY <1>1 DEF Sound
  <2>2. CountsInv(t)
    BY <1>6, <2>1, SameCounts
  <2>3. WaitsIn(t) = WaitsIn(c)
    BY <1>6 DEF WaitsIn
  <2>4. QueuesInv(t)
    BY <1>6, <2>1, <2>3 DEF QueuesInv
  <2>. QED
    BY <1>6, <1>8, <2>2, <2>4 DEF Sound
<1>10. ASSUME NEW k \in (d.left - 1) + 1 .. n
       PROVE  Blocked(t, r[k])
  <2>1. \A i : Blocked(t, i) <=> Blocked(c, i)
    BY <1>6 DEF Blocked, CanGrant
  <2>2. CASE k = n
    BY <1>5, <2>1, <2>2
  <2>3. CASE k # n
    <3>1. k \in 1 .. n - 1 /\ k + 1 \in d.left + 1 .. n
      BY <1>1, <1>4, <2>3
    <3>2. Blocked(c, c.order[k + 1])
      BY <1>4, <3>1 DEF LoopInv
    <3>. QED
      BY <1>5, <2>1, <3>1, <3>2
  <2>. QED
    BY <2>2, <2>3
<1>11. d.left - 1 <= n
  BY <1>1, <1>4
<1>12. WaitsIn(t) = WaitsIn(c)
  BY <1>6 DEF WaitsIn
<1>13. /\ s.leases \subseteq t.leases /\ Present(t) = Present(s)
       /\ \A i \in Identities : IsRest(t.queue[i], s.queue[i])
  BY <1>6, <1>12 DEF LoopInv, Present
<1>14. LoopInv(s, e)
  BY <1>1, <1>4, <1>5, <1>6, <1>7, <1>9, <1>10, <1>11, <1>13 DEF LoopInv
<1>. QED
  BY <1>6, <1>7, <1>14

LEMMA ServedTurn ==
  ASSUME NEW s, Sound(s), NEW d, LoopInv(s, d), ~Over(d),
         ~Blocked(d.ctl, Head(d.ctl.order)),
         NEW e, e = Start(ServedFirst(d.ctl))
  PROVE  /\ LoopInv(s, e)
         /\ d.ctl.queued \in Nat \ {0} /\ e.ctl.queued = d.ctl.queued - 1
         /\ e.left <= Len(s.order)
<1>. DEFINE c == d.ctl
            i == Head(c.order)
            x == Head(c.queue[i])
            t == ServedFirst(c)
<1>1. /\ c \in ControllersOver(Nat) /\ Sound(c) /\ c.order # <<>>
      /\ Len(c.order) <= Len(s.order)
      /\ QueuesInv(c) /\ OrderInv(c) /\ CountsInv(c)
  BY DEF LoopInv, Over, Sound
<1>2. /\ i \in Identities /\ c.queue[i] # <<>> /\ c.queue[i] \in Seq(Items)
      /\ c.queue \in [Identities -> Seq(Items)]
  BY <1>1, FrontWaits, FieldTypes
<1>3. c.queued \in Nat \ {0}
  BY <1>1, <1>2, SomebodyWaits, FieldTypes
<1>4. /\ x \in Items
      /\ t \in ControllersOver(Nat)
      /\ t.inFlight = Granted(c, x).inFlight
      /\ t.byIdentity = Granted(c, x).byIdentity
      /\ t.leases = c.leases \cup {x}
      /\ t.queue = [c.queue EXCEPT ![i] = Tail(@)]
      /\ t.order = IF Tail(c.queue[i]) = <<>> THEN Tail(c.order) ELSE Append(Tail(c.order), i)
      /\ t.queued = c.queued - 1
  BY <1>1, <1>2, <1>3, ServedFields
<1>5. CanGrant(c, x)
  BY DEF Blocked
<1>6. x \notin c.leases
  <2>1. x = c.queue[i][1] /\ 1 \in DOMAIN c.queue[i]
    BY <1>2, FrontAndRest, Positions
  <2>. QED
    BY <1>1, <1>2, <2>1 DEF QueuesInv
<1>. HIDE DEF i, x, t
<1>7. CountsInv(t)
  <2>1. CountsInv(Granted(c, x)) /\ Granted(c, x).leases = c.leases \cup {x}
    BY <1>1, <1>4, <1>5, <1>6, GrantCounts, GrantedFields
  <2>. QED
    BY <1>4, <2>1, SameCounts
<1>8. QueuesInv(t) /\ Present(t) = Present(c)
  BY <1>1, <1>2, <1>4, ServedQueues DEF x
<1>9. OrderInv(t) /\ Len(t.order) \in {Len(c.order), Len(c.order) - 1}
  BY <1>1, <1>2, <1>4, ServedOrder DEF i
<1>10. Sound(t)
  BY <1>4, <1>7, <1>8, <1>9 DEF Sound
<1>11. e = Start(t)
  BY DEF t
<1>12. e.ctl = t /\ e.left = Len(t.order) /\ LoopInv(t, e)
  BY <1>10, <1>11, LoopStarts DEF Start
<1>13. Len(t.order) \in Nat /\ Len(c.order) \in Nat /\ Len(s.order) \in Nat
  <2>1. s \in ControllersOver(Nat)
    BY DEF Sound
  <2>. QED
    BY <1>1, <1>4, <2>1, FieldTypes, Positions
<1>14. Len(t.order) <= Len(s.order)
  BY <1>1, <1>9, <1>13
<1>15. ASSUME NEW j \in Identities
       PROVE  IsRest(t.queue[j], s.queue[j])
  <2>1. IsRest(c.queue[j], s.queue[j])
    BY DEF LoopInv
  <2>2. s.queue[j] \in Seq(Items)
    BY FieldTypes DEF Sound
  <2>3. CASE j = i
    BY <1>2, <1>4, <2>1, <2>2, <2>3, RestOfRest
  <2>4. CASE j # i
    BY <1>2, <1>4, <2>1, <2>4
  <2>. QED
    BY <2>3, <2>4
<1>16. s.leases \subseteq t.leases /\ Present(t) = Present(s)
  BY <1>4, <1>8 DEF LoopInv
<1>17. LoopInv(s, e)
  BY <1>12, <1>14, <1>15, <1>16 DEF LoopInv
<1>. QED
  BY <1>3, <1>4, <1>12, <1>14, <1>17

LEMMA TurnStep ==
  ASSUME NEW s, Sound(s), NEW d, LoopInv(s, d), ~Over(d)
  PROVE  LoopInv(s, Turn[d]) /\ Due(s, Turn[d]) <= Due(s, d) - 1
<1>. DEFINE c == d.ctl
            q == c.queue[Head(c.order)]
<1>1. /\ d \in [ctl : ControllersOver(Nat), left : Nat] /\ Sound(c) /\ c.order # <<>>
  BY DEF LoopInv, Over
<1>2. d \in [ctl : ControllersOver(Int), left : Nat]
  BY <1>1, IntControllers
<1>3. q # <<>>
  BY <1>1, FrontWaits
<1>4. Turn[d] = IF CanGrant(c, Head(q)) THEN Start(ServedFirst(c))
                ELSE [ctl |-> Rotated(c), left |-> d.left - 1]
  <2>. DEFINE e == Turn[d]
  <2>. QED
    BY <1>2, <1>3 DEF Turn
<1>5. /\ Len(s.order) \in Nat /\ c.queued \in Nat /\ d.left \in Nat
  <2>1. s \in ControllersOver(Nat)
    BY DEF Sound
  <2>. QED
    BY <1>1, <2>1, FieldTypes, Positions
<1>6. CASE CanGrant(c, Head(q))
  <2>1. Turn[d] = Start(ServedFirst(c)) /\ ~Blocked(c, Head(c.order))
    BY <1>4, <1>6 DEF Blocked
  <2>2. /\ LoopInv(s, Turn[d])
        /\ c.queued \in Nat \ {0} /\ Turn[d].ctl.queued = c.queued - 1
        /\ Turn[d].left <= Len(s.order)
    BY <2>1, ServedTurn
  <2>3. Turn[d].left \in Nat
    BY <2>2 DEF LoopInv
  <2>4. Due(s, Turn[d]) <= Due(s, d) - 1
    <3>1. PICK m \in Nat, n \in Nat \ {0}, l \in Nat, l2 \in Nat :
            m = Len(s.order) /\ n = c.queued /\ l = d.left /\ l2 = Turn[d].left
      BY <1>5, <2>2, <2>3
    <3>2. (n - 1) * (m + 1) = n * (m + 1) - (m + 1) /\ n * (m + 1) \in Nat
      OBVIOUS
    <3>3. l2 <= m
      BY <2>2, <3>1
    <3>4. (n - 1) * (m + 1) + l2 <= n * (m + 1) + l - 1
      BY <3>2, <3>3
    <3>5. Due(s, Turn[d]) = (n - 1) * (m + 1) + l2 /\ Due(s, d) = n * (m + 1) + l
      BY <2>2, <3>1 DEF Due
    <3>. QED
      BY <3>4, <3>5
  <2>. QED
    BY <2>2, <2>4
<1>7. CASE ~CanGrant(c, Head(q))
  <2>1. Turn[d] = [ctl |-> Rotated(c), left |-> d.left - 1] /\ Blocked(c, Head(c.order))
    BY <1>4, <1>7 DEF Blocked
  <2>2. LoopInv(s, Turn[d]) /\ Turn[d].ctl.queued = c.queued /\ Turn[d].left = d.left - 1
    BY <2>1, RotatedTurn
  <2>3. Due(s, Turn[d]) <= Due(s, d) - 1
    <3>1. PICK n \in Int : n = c.queued * (Len(s.order) + 1)
      BY <1>5
    <3>2. Due(s, Turn[d]) = n + (d.left - 1) /\ Due(s, d) = n + d.left
      BY <2>2, <3>1 DEF Due
    <3>. QED
      BY <1>5, <3>1, <3>2
  <2>. QED
    BY <2>2, <2>3
<1>. QED
  BY <1>6, <1>7

(* What dispatch() makes of s: it serves from the front, loses nobody and  *)
(* leaves nothing that it could serve.                                     *)
Serves(s, t) ==
  /\ Sound(t) /\ Idle(t)
  /\ s.leases \subseteq t.leases /\ Present(t) = Present(s)
  /\ \A i \in Identities : IsRest(t.queue[i], s.queue[i])

LEMMA LoopEnds ==
  ASSUME NEW s, NEW d, LoopInv(s, d), Over(d)
  PROVE  Serves(s, d.ctl)
<1>. DEFINE c == d.ctl
<1>1. /\ Sound(c) /\ c \in ControllersOver(Nat) /\ OrderInv(c) /\ d.left \in Nat
  BY DEF LoopInv, Sound
<1>2. c.order \in Seq(Identities)
  BY <1>1, FieldTypes
<1>3. ASSUME NEW i \in Identities, c.queue[i] # <<>>
      PROVE  ~CanGrant(c, Head(c.queue[i]))
  <2>1. Lists(c.order, i)
    BY <1>1, <1>3 DEF OrderInv
  <2>2. PICK k \in DOMAIN c.order : c.order[k] = i
    BY <2>1 DEF Lists
  <2>3. k \in 1 .. Len(c.order) /\ Len(c.order) \in Nat
    BY <1>2, Positions
  <2>4. c.order # <<>>
    BY <1>2, <2>3, EmptySeq
  <2>5. d.left = 0
    BY <2>4 DEF Over
  <2>6. Blocked(c, c.order[k])
    BY <2>3, <2>5 DEF LoopInv
  <2>. QED
    BY <2>2, <2>6 DEF Blocked
<1>4. Idle(c)
  BY <1>3 DEF Idle
<1>. QED
  BY <1>1, <1>4 DEF Serves, LoopInv

LEMMA DispatchServes ==
  ASSUME NEW s, Sound(s)
  PROVE  Serves(s, Dispatched(s))
<1>. DEFINE F == TurnsOf(s)
            Goes(n) == /\ LoopInv(s, F[n])
                       /\ Over(F[n]) \/ Due(s, F[n]) + n <= Due(s, F[0])
            S == {n \in Nat : ~Goes(n)}
<1>1. F[0] = Start(s) /\ \A n \in Nat : F[n + 1] = Turn[F[n]]
  BY TurnsAreDefined
<1>2. LoopInv(s, F[0])
  BY <1>1, LoopStarts
<1>3. s \in ControllersOver(Nat) /\ Len(s.order) \in Nat /\ s.queued \in Nat
  BY FieldTypes, Positions DEF Sound
<1>4. ASSUME NEW d, LoopInv(s, d) PROVE Due(s, d) \in Nat
  <2>1. d.left \in Nat /\ d.ctl.queued \in Nat
    BY <1>4, FieldTypes DEF LoopInv
  <2>2. PICK m \in Nat, q \in Nat : m = Len(s.order) + 1 /\ q = d.ctl.queued
    BY <1>3, <2>1
  <2>3. q * m \in Nat
    OBVIOUS
  <2>. QED
    BY <2>1, <2>2, <2>3 DEF Due
<1>. HIDE DEF F
<1>5. S = {}
  <2>1. SUFFICES ASSUME S # {} PROVE FALSE
    OBVIOUS
  <2>2. PICK n \in S : \A k \in S : n <= k
    <3>1. S \in SUBSET Nat
      OBVIOUS
    <3>. HIDE DEF S
    <3>. QED
      BY <2>1, <3>1, LeastNumber
  <2>3. n # 0
    <3>1. Due(s, F[0]) + 0 <= Due(s, F[0])
      BY <1>2, <1>4
    <3>. QED
      BY <1>2, <2>2, <3>1
  <2>4. PICK p \in Nat : n = p + 1
    <3>1. n - 1 \in Nat /\ n = (n - 1) + 1
      BY <2>2, <2>3
    <3>. QED
      BY <3>1
  <2>5. Goes(p)
    <3>1. ~(n <= p)
      BY <2>4
    <3>2. p \notin S
      BY <2>2, <3>1
    <3>. QED
      BY <3>2
  <2>6. F[n] = Turn[F[p]] /\ LoopInv(s, F[p])
    BY <1>1, <2>4, <2>5
  <2>7. CASE Over(F[p])
    <3>1. F[p] \in [ctl : ControllersOver(Int), left : Nat]
      BY <2>6, IntControllers DEF LoopInv
    <3>2. Turn[F[p]] = F[p]
      BY <2>7, <3>1 DEF Turn
    <3>. QED
      BY <2>2, <2>6, <2>7, <3>2
  <2>8. CASE ~Over(F[p])
    <3>1. LoopInv(s, F[n]) /\ Due(s, F[n]) <= Due(s, F[p]) - 1
      BY <2>6, <2>8, TurnStep
    <3>2. Due(s, F[p]) + p <= Due(s, F[0])
      BY <2>5, <2>8
    <3>3. Due(s, F[n]) \in Nat /\ Due(s, F[p]) \in Nat /\ Due(s, F[0]) \in Nat
      BY <1>2, <1>4, <2>6, <3>1
    <3>4. Due(s, F[n]) + n <= Due(s, F[0])
      BY <2>4, <3>1, <3>2, <3>3
    <3>. QED
      BY <2>2, <3>1, <3>4
  <2>. QED
    BY <2>7, <2>8
<1>. DEFINE N == MaxTurns(s)
<1>6. N \in Nat /\ Due(s, F[0]) < N
  <2>1. PICK m \in Nat, q \in Nat : m = Len(s.order) /\ q = s.queued
    BY <1>3
  <2>2. (q + 1) * (m + 1) = q * (m + 1) + m + 1 /\ q * (m + 1) \in Nat
    OBVIOUS
  <2>3. N = (q + 1) * (m + 1)
    BY <2>1 DEF MaxTurns
  <2>4. Due(s, F[0]) = q * (m + 1) + m
    BY <1>1, <2>1 DEF Due, Start
  <2>. QED
    BY <2>2, <2>3, <2>4
<1>. HIDE DEF N
<1>7. Goes(N)
  BY <1>5, <1>6
<1>8. Due(s, F[N]) \in Nat /\ Due(s, F[0]) \in Nat
  BY <1>2, <1>4, <1>7
<1>9. Over(F[N])
  BY <1>6, <1>7, <1>8
<1>10. Serves(s, F[N].ctl)
  BY <1>7, <1>9, LoopEnds
<1>. QED
  BY <1>10 DEF Dispatched, F, N

-----------------------------------------------------------------------------
(* The methods: what each hands to dispatch(). *)

LEMMA WaitsInQueue ==
  ASSUME NEW s \in ControllersOver(Nat), QueuesInv(s), NEW y
  PROVE  y \in WaitsIn(s) <=> y \in Items /\ Lists(s.queue[y.by], y)
<1>1. s.queue \in [Identities -> Seq(Items)]
  BY FieldTypes
<1>2. ASSUME y \in WaitsIn(s)
      PROVE  y \in Items /\ Lists(s.queue[y.by], y)
  <2>1. PICK i \in Identities : \E k \in DOMAIN s.queue[i] : s.queue[i][k] = y
    BY <1>2 DEF WaitsIn
  <2>2. y.by = i
    BY <2>1 DEF QueuesInv
  <2>. QED
    BY <1>2, <2>1, <2>2 DEF Lists, WaitsIn
<1>3. ASSUME y \in Items, Lists(s.queue[y.by], y)
      PROVE  y \in WaitsIn(s)
  BY <1>3, ClassTiers DEF WaitsIn, Lists
<1>. QED
  BY <1>2, <1>3

LEMMA QueuesAreDistinct ==
  ASSUME NEW s, QueuesInv(s), NEW i \in Identities
  PROVE  Distinct(s.queue[i])
  BY DEF QueuesInv, Distinct

LEMMA NobodyQueued ==
  ASSUME NEW s \in ControllersOver(Nat), QueuesInv(s), s.queued = 0
  PROVE  \A i \in Identities : s.queue[i] = <<>>
  BY SomebodyWaits

LEMMA EnqueuedFields ==
  ASSUME NEW s \in ControllersOver(Nat), NEW x \in Items
  PROVE  LET t == Enqueued(s, x)
         IN  /\ t \in ControllersOver(Nat)
             /\ t.inFlight = s.inFlight /\ t.byIdentity = s.byIdentity /\ t.leases = s.leases
             /\ t.queue = [s.queue EXCEPT ![x.by] = Append(@, x)]
             /\ t.order = IF s.queue[x.by] = <<>> THEN Append(s.order, x.by) ELSE s.order
             /\ t.queued = s.queued + 1
<1>. DEFINE t == Enqueued(s, x)
<1>1. /\ x.by \in Identities /\ s.queue \in [Identities -> Seq(Items)]
      /\ s.order \in Seq(Identities) /\ s.queued \in Nat
  BY ClassTiers, FieldTypes
<1>2. [s.queue EXCEPT ![x.by] = Append(@, x)] \in [Identities -> Seq(Items)]
  BY <1>1, OneMore
<1>3. (IF s.queue[x.by] = <<>> THEN Append(s.order, x.by) ELSE s.order) \in Seq(Identities)
  BY <1>1, OneMore
<1>4. /\ t.inFlight = s.inFlight /\ t.byIdentity = s.byIdentity /\ t.leases = s.leases
      /\ t.queue = [s.queue EXCEPT ![x.by] = Append(@, x)]
      /\ t.order = IF s.queue[x.by] = <<>> THEN Append(s.order, x.by) ELSE s.order
      /\ t.queued = s.queued + 1
  BY DEF ControllersOver, Enqueued
<1>5. t \in ControllersOver(Nat)
  <2>1. t = [s EXCEPT !.queue = t.queue, !.order = t.order, !.queued = t.queued]
    BY <1>4 DEF ControllersOver, Enqueued
  <2>2. t.queue \in [Identities -> Seq(Items)] /\ t.order \in Seq(Identities) /\ t.queued \in Nat
    BY <1>1, <1>2, <1>3, <1>4
  <2>. HIDE DEF t
  <2>. QED
    BY <2>1, <2>2 DEF ControllersOver
<1>. QED
  BY <1>4, <1>5

LEMMA EnqueuedSound ==
  ASSUME NEW s, Sound(s), NEW x \in Items, x \notin Present(s)
  PROVE  LET t == Enqueued(s, x)
         IN  /\ Sound(t)
             /\ Present(t) = Present(s) \cup {x} /\ t.leases = s.leases
             /\ t.queue = [s.queue EXCEPT ![x.by] = Append(@, x)]
<1>. DEFINE t == Enqueued(s, x)
            i == x.by
<1>1. /\ s \in ControllersOver(Nat) /\ QueuesInv(s) /\ OrderInv(s) /\ CountsInv(s)
      /\ i \in Identities
  BY ClassTiers DEF Sound
<1>2. /\ t \in ControllersOver(Nat)
      /\ t.inFlight = s.inFlight /\ t.byIdentity = s.byIdentity /\ t.leases = s.leases
      /\ t.queue = [s.queue EXCEPT ![i] = Append(@, x)]
      /\ t.order = IF s.queue[i] = <<>> THEN Append(s.order, i) ELSE s.order
      /\ t.queued = s.queued + 1
  BY <1>1, EnqueuedFields
<1>. HIDE DEF t
<1>3. /\ s.queue \in [Identities -> Seq(Items)] /\ t.queue \in [Identities -> Seq(Items)]
      /\ s.order \in Seq(Identities)
  BY <1>1, <1>2, FieldTypes
<1>4. /\ t.queue[i] = Append(s.queue[i], x)
      /\ \A j \in Identities \ {i} : t.queue[j] = s.queue[j]
  BY <1>1, <1>2, <1>3
<1>5. x \notin WaitsIn(s) /\ x \notin s.leases /\ ~Lists(s.queue[i], x)
  BY <1>1, WaitsInQueue DEF Present
<1>6. /\ Distinct(t.queue[i])
      /\ \A y \in Items : Lists(t.queue[i], y) <=> y = x \/ Lists(s.queue[i], y)
  <2>1. PICK o \in Seq(Items), r \in Seq(Items) : o = s.queue[i] /\ r = t.queue[i]
    BY <1>1, <1>3
  <2>2. Distinct(o) /\ ~Lists(o, x) /\ r = Append(o, x)
    BY <1>1, <1>4, <1>5, <2>1, QueuesAreDistinct
  <2>3. Distinct(r) /\ \A y \in Items : Lists(r, y) <=> y = x \/ Lists(o, y)
    BY <2>2, OneMoreInOrder
  <2>. QED
    BY <2>1, <2>3
<1>7. ASSUME NEW y \in Items
      PROVE  y \in WaitsIn(t) <=> y = x \/ y \in WaitsIn(s)
  <2>1. y \in WaitsIn(t) <=> \E j \in Identities : Lists(t.queue[j], y)
    BY DEF WaitsIn, Lists
  <2>2. y \in WaitsIn(s) <=> \E j \in Identities : Lists(s.queue[j], y)
    BY DEF WaitsIn, Lists
  <2>. QED
    BY <1>1, <1>4, <1>6, <2>1, <2>2
<1>8. WaitsIn(t) = WaitsIn(s) \cup {x}
  <2>1. WaitsIn(t) \subseteq Items /\ WaitsIn(s) \subseteq Items
    BY DEF WaitsIn
  <2>. QED
    BY <1>7, <2>1
<1>9. QueuesInv(t)
  <2>1. ASSUME NEW j \in Identities, NEW k \in DOMAIN t.queue[j]
        PROVE  t.queue[j][k].by = j /\ t.queue[j][k] \notin t.leases
    <3>1. CASE j = i
      <4>1. t.queue[i][k] \in Items
        BY <1>3, <3>1, Positions
      <4>2. Lists(t.queue[i], t.queue[i][k])
        BY <3>1 DEF Lists
      <4>3. t.queue[i][k] = x \/ Lists(s.queue[i], t.queue[i][k])
        BY <1>6, <4>1, <4>2
      <4>. QED
        BY <1>1, <1>2, <1>5, <3>1, <4>3 DEF QueuesInv, Lists
    <3>2. CASE j # i
      BY <1>1, <1>2, <1>4, <3>2 DEF QueuesInv
    <3>. QED
      BY <3>1, <3>2
  <2>2. ASSUME NEW j \in Identities PROVE Distinct(t.queue[j])
    BY <1>1, <1>4, <1>6, QueuesAreDistinct
  <2>3. IsFiniteSet(WaitsIn(t)) /\ t.queued = Cardinality(WaitsIn(t))
    BY <1>1, <1>2, <1>5, <1>8, FS_AddElement DEF QueuesInv
  <2>. QED
    BY <2>1, <2>2, <2>3 DEF QueuesInv, Distinct
<1>10. OrderInv(t)
  <2>1. t.queue[i] # <<>>
    <3>1. Lists(t.queue[i], x)
      BY <1>6
    <3>. QED
      BY <3>1 DEF Lists
  <2>2. CASE s.queue[i] = <<>>
    <3>1. ~Lists(s.order, i) /\ Distinct(s.order) /\ t.order = Append(s.order, i)
      BY <1>1, <1>2, <2>2 DEF OrderInv
    <3>2. /\ Distinct(t.order)
          /\ \A j \in Identities : Lists(t.order, j) <=> j = i \/ Lists(s.order, j)
      BY <1>1, <1>3, <3>1, OneMoreInOrder
    <3>. QED
      BY <1>1, <1>4, <2>1, <3>2 DEF OrderInv
  <2>3. CASE s.queue[i] # <<>>
    BY <1>1, <1>2, <1>4, <2>1, <2>3 DEF OrderInv
  <2>. QED
    BY <2>2, <2>3
<1>11. CountsInv(t)
  BY <1>1, <1>2, SameCounts
<1>12. Sound(t)
  BY <1>2, <1>9, <1>10, <1>11 DEF Sound
<1>13. Present(t) = Present(s) \cup {x}
  BY <1>2, <1>8 DEF Present
<1>. QED
  BY <1>2, <1>12, <1>13 DEF t

(* The first part of release(). *)
Freed(s, x) ==
  [s EXCEPT !.inFlight = Lowered(@, x.class),
            !.byIdentity[x.by] = LoweredToZero(@, x.class),
            !.leases = @ \ {x}]

LEMMA FreedSound ==
  ASSUME NEW s, Sound(s), NEW x \in s.leases
  PROVE  LET t == Freed(s, x)
         IN  /\ Sound(t)
             /\ Present(t) = Present(s) \ {x} /\ t.leases = s.leases \ {x} /\ t.queue = s.queue
<1>. DEFINE t == Freed(s, x)
<1>1. /\ s \in ControllersOver(Nat) /\ QueuesInv(s) /\ OrderInv(s) /\ CountsInv(s)
      /\ x \in Items
  BY FieldTypes DEF Sound
<1>2. /\ x.by \in Identities /\ IsFiniteSet(s.leases)
      /\ s.inFlight \in [Tiers -> Nat] /\ s.byIdentity \in [Identities -> [Tiers -> Nat]]
  BY <1>1, ClassTiers, FieldTypes DEF CountsInv
<1>3. /\ t.inFlight = Lowered(s.inFlight, x.class)
      /\ t.byIdentity = [s.byIdentity EXCEPT ![x.by] = LoweredToZero(@, x.class)]
      /\ t.leases = s.leases \ {x}
      /\ t.queue = s.queue /\ t.order = s.order /\ t.queued = s.queued
  BY <1>1 DEF ControllersOver, Freed
<1>4. t = [s EXCEPT !.inFlight = t.inFlight, !.byIdentity = t.byIdentity, !.leases = t.leases]
  BY <1>1, <1>3 DEF ControllersOver, Freed
<1>. HIDE DEF t
<1>5. ASSUME NEW T \in Tiers
      PROVE  /\ t.inFlight[T] = Cardinality(Under(t, T)) /\ t.inFlight[T] <= Limit[T]
             /\ t.inFlight[T] \in Nat
             /\ \A i \in Identities :
                  /\ t.byIdentity[i][T] = Cardinality(UnderBy(t, i, T))
                  /\ t.byIdentity[i][T] <= LimitPerIdentity[T]
                  /\ t.byIdentity[i][T] \in Nat
  <2>0. /\ Limit[T] \in Nat /\ LimitPerIdentity[T] \in Nat
        /\ s.inFlight[T] \in Nat /\ s.inFlight[T] = Cardinality(Under(s, T)) /\ s.inFlight[T] <= Limit[T]
    BY <1>1, <1>2, LimitsAssumption DEF CountsInv
  <2>1. IsFiniteSet(Under(s, T)) /\ (x \in Under(s, T) <=> T \in TiersOf(x.class))
    BY <1>2, FS_Subset DEF Under
  <2>2. Under(t, T) = Under(s, T) \ {x}
    BY <1>3 DEF Under
  <2>3. t.inFlight[T] = IF T \in TiersOf(x.class) THEN s.inFlight[T] - 1 ELSE s.inFlight[T]
    BY <1>2, <1>3 DEF Lowered
  <2>4. /\ IsFiniteSet(Under(t, T)) /\ Cardinality(Under(t, T)) \in Nat
        /\ Cardinality(Under(t, T)) = IF T \in TiersOf(x.class) THEN Cardinality(Under(s, T)) - 1
                                      ELSE Cardinality(Under(s, T))
    <3>1. IsFiniteSet(Under(t, T))
      BY <2>1, <2>2, FS_RemoveElement
    <3>2. Cardinality(Under(t, T)) = IF x \in Under(s, T) THEN Cardinality(Under(s, T)) - 1
                                      ELSE Cardinality(Under(s, T))
      BY <2>1, <2>2, FS_RemoveElement
    <3>. QED
      BY <2>1, <3>1, <3>2, FS_CardinalityType
  <2>5. /\ t.inFlight[T] = Cardinality(Under(t, T)) /\ t.inFlight[T] <= Limit[T]
        /\ t.inFlight[T] \in Nat
    BY <2>0, <2>3, <2>4
  <2>6. ASSUME NEW i \in Identities
        PROVE  /\ t.byIdentity[i][T] = Cardinality(UnderBy(t, i, T))
               /\ t.byIdentity[i][T] <= LimitPerIdentity[T]
               /\ t.byIdentity[i][T] \in Nat
    <3>1. /\ s.byIdentity[i][T] \in Nat /\ s.byIdentity[i][T] = Cardinality(UnderBy(s, i, T))
          /\ s.byIdentity[i][T] <= LimitPerIdentity[T]
      BY <1>1, <1>2 DEF CountsInv
    <3>2. /\ IsFiniteSet(UnderBy(s, i, T))
          /\ x \in UnderBy(s, i, T) <=> T \in TiersOf(x.class) /\ i = x.by
      BY <2>1, FS_Subset DEF UnderBy
    <3>3. UnderBy(t, i, T) = UnderBy(s, i, T) \ {x}
      BY <2>2 DEF UnderBy
    <3>4. IsFiniteSet(UnderBy(t, i, T)) /\ Cardinality(UnderBy(t, i, T)) \in Nat
      BY <3>2, <3>3, FS_RemoveElement, FS_CardinalityType
    <3>5. CASE T \in TiersOf(x.class) /\ i = x.by
      <4>1. Cardinality(UnderBy(t, i, T)) = Cardinality(UnderBy(s, i, T)) - 1
        BY <3>2, <3>3, <3>5, FS_RemoveElement
      <4>2. s.byIdentity[i][T] > 0
        BY <3>1, <3>4, <4>1
      <4>3. t.byIdentity[i][T] = s.byIdentity[i][T] - 1
        BY <1>2, <1>3, <3>5, <4>2 DEF LoweredToZero
      <4>. QED
        BY <2>0, <3>1, <3>4, <4>1, <4>3
    <3>6. CASE ~(T \in TiersOf(x.class) /\ i = x.by)
      <4>1. UnderBy(t, i, T) = UnderBy(s, i, T)
        BY <3>2, <3>3, <3>6
      <4>2. t.byIdentity[i][T] = s.byIdentity[i][T]
        BY <1>2, <1>3, <3>6 DEF LoweredToZero
      <4>. QED
        BY <3>1, <4>1, <4>2
    <3>. QED
      BY <3>5, <3>6
  <2>. QED
    BY <2>5, <2>6
<1>6. t \in ControllersOver(Nat)
  <2>1. t.inFlight \in [Tiers -> Nat]
    BY <1>3, <1>5 DEF Lowered
  <2>2. t.byIdentity \in [Identities -> [Tiers -> Nat]]
    <3>1. \A i \in Identities : DOMAIN t.byIdentity[i] = Tiers /\ t.byIdentity[i] = [T \in Tiers |-> t.byIdentity[i][T]]
      BY <1>2, <1>3 DEF LoweredToZero
    <3>2. t.byIdentity = [i \in Identities |-> t.byIdentity[i]]
      BY <1>2, <1>3
    <3>. QED
      BY <1>5, <3>1, <3>2
  <2>3. t.leases \in SUBSET Items
    BY <1>1, <1>3, FieldTypes
  <2>. QED
    BY <1>1, <1>4, <2>1, <2>2, <2>3 DEF ControllersOver
<1>7. CountsInv(t)
  <2>1. IsFiniteSet(t.leases)
    BY <1>2, <1>3, FS_RemoveElement
  <2>. QED
    BY <1>5, <2>1 DEF CountsInv
<1>8. WaitsIn(t) = WaitsIn(s)
  BY <1>3 DEF WaitsIn
<1>9. QueuesInv(t) /\ OrderInv(t)
  BY <1>1, <1>3, <1>8 DEF QueuesInv, OrderInv
<1>10. x \notin WaitsIn(s)
  BY <1>1 DEF WaitsIn, QueuesInv
<1>11. Present(t) = Present(s) \ {x}
  BY <1>3, <1>8, <1>10 DEF Present
<1>. QED
  BY <1>3, <1>6, <1>7, <1>9, <1>11 DEF t, Sound

(* indexOf() and splice(). *)
LEMMA RemovedOnce ==
  ASSUME NEW S, NEW q \in Seq(S), NEW x, Distinct(q), Lists(q, x)
  PROVE  \E p \in 1 .. Len(q) :
           /\ q[p] = x
           /\ RemoveFirst(q, x) \in Seq(S) /\ Len(RemoveFirst(q, x)) = Len(q) - 1
           /\ \A j \in 1 .. Len(q) - 1 :
                RemoveFirst(q, x)[j] = IF j < p THEN q[j] ELSE q[j + 1]
<1>1. PICK n \in Nat : n = Len(q)
  BY Positions
<1>2. DOMAIN q = 1 .. n /\ \A k \in 1 .. n : q[k] \in S
  BY <1>1, Positions
<1>3. PICK p \in 1 .. n : q[p] = x
  BY <1>2 DEF Lists
<1>4. {i \in 1 .. Len(q) : q[i] = x} = {p}
  BY <1>1, <1>2, <1>3 DEF Distinct
<1>5. SelectInSeq(q, LAMBDA v : v = x) = p
  <2>1. Min({p}) = p
    BY DEF Min
  <2>. QED
    BY <1>4, <2>1 DEF SelectInSeq
<1>6. RemoveFirst(q, x) = RemoveAt(q, p)
  BY <1>1, <1>3, <1>5 DEF RemoveFirst
<1>. DEFINE a == SubSeq(q, 1, p - 1)
            b == SubSeq(q, p + 1, n)
<1>7. /\ a \in Seq(S) /\ Len(a) = p - 1 /\ \A j \in 1 .. p - 1 : a[j] = q[j]
  <2>1. \A j \in 1 .. p - 1 : q[j] \in S
    BY <1>2
  <2>2. /\ a \in Seq(S) /\ Len(a) = (IF 1 <= p - 1 THEN (p - 1) - 1 + 1 ELSE 0)
        /\ \A j \in 1 .. (p - 1) - 1 + 1 : a[j] = q[1 + j - 1]
    BY <2>1, SubSeqProperties
  <2>. QED
    BY <2>2
<1>8. /\ b \in Seq(S) /\ Len(b) = n - p /\ \A j \in 1 .. n - p : b[j] = q[p + j]
  <2>1. \A j \in p + 1 .. n : q[j] \in S
    BY <1>2
  <2>2. /\ b \in Seq(S) /\ Len(b) = (IF p + 1 <= n THEN n - (p + 1) + 1 ELSE 0)
        /\ \A j \in 1 .. n - (p + 1) + 1 : b[j] = q[(p + 1) + j - 1]
    BY <2>1, SubSeqProperties
  <2>. QED
    BY <2>2
<1>9. RemoveFirst(q, x) = a \o b
  BY <1>1, <1>6 DEF RemoveAt
<1>. HIDE DEF a, b
<1>10. PICK r : r = RemoveFirst(q, x)
  OBVIOUS
<1>11. /\ r \in Seq(S) /\ Len(r) = (p - 1) + (n - p)
       /\ \A j \in 1 .. (p - 1) + (n - p) : r[j] = IF j <= p - 1 THEN a[j] ELSE b[j - (p - 1)]
  <2>1. r = a \o b
    BY <1>9, <1>10
  <2>2. /\ r \in Seq(S) /\ Len(r) = Len(a) + Len(b)
        /\ \A j \in 1 .. Len(a) + Len(b) : r[j] = IF j <= Len(a) THEN a[j] ELSE b[j - Len(a)]
    BY <1>7, <1>8, <2>1, ConcatProperties
  <2>. QED
    BY <1>7, <1>8, <2>2
<1>12. Len(r) = n - 1
  BY <1>11
<1>13. ASSUME NEW j \in 1 .. n - 1
       PROVE  r[j] = IF j < p THEN q[j] ELSE q[j + 1]
  <2>1. CASE j < p
    <3>1. j \in 1 .. p - 1 /\ j \in 1 .. (p - 1) + (n - p)
      BY <2>1
    <3>. QED
      BY <1>7, <1>11, <2>1, <3>1
  <2>2. CASE ~(j < p)
    <3>1. j \in 1 .. (p - 1) + (n - p) /\ ~(j <= p - 1)
      BY <2>2
    <3>2. j - (p - 1) \in 1 .. n - p /\ p + (j - (p - 1)) = j + 1
      BY <2>2
    <3>3. r[j] = b[j - (p - 1)]
      BY <1>11, <3>1
    <3>4. b[j - (p - 1)] = q[p + (j - (p - 1))]
      BY <1>8, <3>2
    <3>. QED
      BY <2>2, <3>2, <3>3, <3>4
  <2>. QED
    BY <2>1, <2>2
<1>. QED
  BY <1>1, <1>3, <1>10, <1>11, <1>12, <1>13

LEMMA OneLess ==
  ASSUME NEW S, NEW q \in Seq(S), NEW x \in S, Distinct(q), Lists(q, x),
         NEW r, r = RemoveFirst(q, x)
  PROVE  /\ r \in Seq(S) /\ Distinct(r)
         /\ \A y \in S : Lists(r, y) <=> y # x /\ Lists(q, y)
<1>1. PICK n \in Nat : n = Len(q)
  BY Positions
<1>2. PICK p \in 1 .. n :
        /\ q[p] = x /\ r \in Seq(S) /\ Len(r) = n - 1
        /\ \A j \in 1 .. n - 1 : r[j] = IF j < p THEN q[j] ELSE q[j + 1]
  BY <1>1, RemovedOnce
<1>3. DOMAIN q = 1 .. n /\ DOMAIN r = 1 .. n - 1 /\ \A k, l \in 1 .. n : q[k] = q[l] => k = l
  BY <1>1, <1>2, Positions DEF Distinct
<1>4. ASSUME NEW j \in 1 .. n - 1
      PROVE  \E k \in 1 .. n : r[j] = q[k] /\ k # p /\ k = IF j < p THEN j ELSE j + 1
  BY <1>2
<1>5. ASSUME NEW j \in 1 .. n - 1, NEW i \in 1 .. n - 1, r[j] = r[i]
      PROVE  i = j
  <2>1. PICK k \in 1 .. n : r[j] = q[k] /\ k # p /\ k = IF j < p THEN j ELSE j + 1
    BY <1>4
  <2>2. PICK l \in 1 .. n : r[i] = q[l] /\ l # p /\ l = IF i < p THEN i ELSE i + 1
    BY <1>4
  <2>3. k = l
    BY <1>3, <1>5, <2>1, <2>2
  <2>. QED
    BY <2>1, <2>2, <2>3
<1>6. ASSUME NEW y \in S, Lists(r, y) PROVE y # x /\ Lists(q, y)
  <2>1. PICK j \in 1 .. n - 1 : r[j] = y
    BY <1>3, <1>6 DEF Lists
  <2>2. PICK k \in 1 .. n : r[j] = q[k] /\ k # p
    BY <1>4
  <2>. QED
    BY <1>2, <1>3, <2>1, <2>2 DEF Lists
<1>7. ASSUME NEW y \in S, y # x, Lists(q, y) PROVE Lists(r, y)
  <2>1. PICK k \in 1 .. n : q[k] = y
    BY <1>3, <1>7 DEF Lists
  <2>2. k # p
    BY <1>2, <1>7, <2>1
  <2>3. CASE k < p
    <3>1. k \in 1 .. n - 1
      BY <2>3
    <3>. QED
      BY <1>2, <1>3, <2>1, <2>3, <3>1 DEF Lists
  <2>4. CASE k > p
    <3>1. k - 1 \in 1 .. n - 1 /\ ~(k - 1 < p) /\ (k - 1) + 1 = k
      BY <2>4
    <3>2. r[k - 1] = q[(k - 1) + 1]
      BY <1>2, <3>1
    <3>. QED
      BY <1>3, <2>1, <3>1, <3>2 DEF Lists
  <2>. QED
    BY <2>2, <2>3, <2>4
<1>8. Distinct(r)
  BY <1>3, <1>5 DEF Distinct
<1>. QED
  BY <1>2, <1>6, <1>7, <1>8

(* removeQueuedItem(). *)
Dropped(s, x) ==
  LET rest == RemoveFirst(s.queue[x.by], x)
  IN  [s EXCEPT !.queue[x.by] = rest,
                !.queued = @ - 1,
                !.order = IF rest = <<>> THEN RemoveFirst(@, x.by) ELSE @]

LEMMA DroppedSound ==
  ASSUME NEW s, Sound(s), NEW x \in WaitsIn(s)
  PROVE  LET t == Dropped(s, x)
         IN  /\ Sound(t)
             /\ Present(t) = Present(s) \ {x} /\ t.leases = s.leases
             /\ t.queue = [s.queue EXCEPT ![x.by] = RemoveFirst(@, x)]
<1>. DEFINE t == Dropped(s, x)
            i == x.by
            rest == RemoveFirst(s.queue[i], x)
<1>1. /\ s \in ControllersOver(Nat) /\ QueuesInv(s) /\ OrderInv(s) /\ CountsInv(s)
      /\ x \in Items /\ i \in Identities /\ Lists(s.queue[i], x)
  BY WaitsInQueue, ClassTiers DEF Sound
<1>2. /\ s.queue \in [Identities -> Seq(Items)] /\ s.order \in Seq(Identities) /\ s.queued \in Nat
  BY <1>1, FieldTypes
<1>3. /\ t.inFlight = s.inFlight /\ t.byIdentity = s.byIdentity /\ t.leases = s.leases
      /\ t.queue = [s.queue EXCEPT ![i] = rest]
      /\ t.order = IF rest = <<>> THEN RemoveFirst(s.order, i) ELSE s.order
      /\ t.queued = s.queued - 1
      /\ t = [s EXCEPT !.queue = t.queue, !.order = t.order, !.queued = t.queued]
  BY <1>1 DEF ControllersOver, Dropped
<1>. HIDE DEF t, rest
<1>4. /\ rest \in Seq(Items) /\ Distinct(rest)
      /\ \A y \in Items : Lists(rest, y) <=> y # x /\ Lists(s.queue[i], y)
  <2>1. PICK o \in Seq(Items) : o = s.queue[i]
    BY <1>1, <1>2
  <2>2. Distinct(o) /\ Lists(o, x) /\ rest = RemoveFirst(o, x)
    BY <1>1, <2>1, QueuesAreDistinct DEF rest
  <2>. QED
    BY <1>1, <2>1, <2>2, OneLess
<1>5. s.queue[i] # <<>> /\ Lists(s.order, i) /\ Distinct(s.order)
  BY <1>1 DEF Lists, OrderInv
<1>6. s.queued # 0
  BY <1>1, <1>5, SomebodyWaits
<1>7. /\ RemoveFirst(s.order, i) \in Seq(Identities) /\ Distinct(RemoveFirst(s.order, i))
      /\ \A j \in Identities : Lists(RemoveFirst(s.order, i), j) <=> j # i /\ Lists(s.order, j)
  <2>1. PICK r : r = RemoveFirst(s.order, i)
    OBVIOUS
  <2>. QED
    BY <1>1, <1>2, <1>5, <2>1, OneLess
<1>8. t \in ControllersOver(Nat)
  <2>1. t.queue \in [Identities -> Seq(Items)] /\ t.order \in Seq(Identities) /\ t.queued \in Nat
    BY <1>1, <1>2, <1>3, <1>4, <1>6, <1>7
  <2>. QED
    BY <1>1, <1>3, <2>1 DEF ControllersOver
<1>9. /\ t.queue[i] = rest
      /\ \A j \in Identities \ {i} : t.queue[j] = s.queue[j]
  BY <1>1, <1>2, <1>3
<1>10. ASSUME NEW y \in Items
       PROVE  y \in WaitsIn(t) <=> y # x /\ y \in WaitsIn(s)
  <2>1. y \in WaitsIn(t) <=> \E j \in Identities : Lists(t.queue[j], y)
    BY DEF WaitsIn, Lists
  <2>2. y \in WaitsIn(s) <=> \E j \in Identities : Lists(s.queue[j], y)
    BY DEF WaitsIn, Lists
  <2>3. \A j \in Identities \ {i} : ~Lists(s.queue[j], x)
    BY <1>1 DEF QueuesInv, Lists
  <2>. QED
    BY <1>1, <1>4, <1>9, <2>1, <2>2, <2>3
<1>11. WaitsIn(t) = WaitsIn(s) \ {x}
  <2>1. WaitsIn(t) \subseteq Items /\ WaitsIn(s) \subseteq Items
    BY DEF WaitsIn
  <2>. QED
    BY <1>10, <2>1
<1>12. QueuesInv(t)
  <2>1. ASSUME NEW j \in Identities, NEW k \in DOMAIN t.queue[j]
        PROVE  t.queue[j][k].by = j /\ t.queue[j][k] \notin t.leases
    <3>1. CASE j = i
      <4>1. rest[k] \in Items /\ Lists(rest, rest[k])
        BY <1>4, <1>9, <3>1, Positions DEF Lists
      <4>2. Lists(s.queue[i], rest[k])
        BY <1>4, <4>1
      <4>. QED
        BY <1>1, <1>3, <1>9, <3>1, <4>2 DEF QueuesInv, Lists
    <3>2. CASE j # i
      BY <1>1, <1>3, <1>9, <3>2 DEF QueuesInv
    <3>. QED
      BY <3>1, <3>2
  <2>2. ASSUME NEW j \in Identities PROVE Distinct(t.queue[j])
    BY <1>1, <1>4, <1>9, QueuesAreDistinct
  <2>3. IsFiniteSet(WaitsIn(t)) /\ t.queued = Cardinality(WaitsIn(t))
    BY <1>1, <1>3, <1>11, FS_RemoveElement DEF QueuesInv
  <2>. QED
    BY <2>1, <2>2, <2>3 DEF QueuesInv, Distinct
<1>13. OrderInv(t)
  <2>1. CASE rest = <<>>
    BY <1>1, <1>3, <1>7, <1>9, <2>1 DEF OrderInv
  <2>2. CASE rest # <<>>
    BY <1>1, <1>3, <1>5, <1>9, <2>2 DEF OrderInv
  <2>. QED
    BY <2>1, <2>2
<1>14. CountsInv(t)
  BY <1>1, <1>3, SameCounts
<1>15. Sound(t)
  BY <1>8, <1>12, <1>13, <1>14 DEF Sound
<1>16. x \notin s.leases
  BY <1>1 DEF QueuesInv, Lists
<1>17. Present(t) = Present(s) \ {x}
  BY <1>3, <1>11, <1>16 DEF Present
<1>. QED
  BY <1>3, <1>15, <1>17 DEF t, rest

-----------------------------------------------------------------------------
(* The order inside a queue: z stands in q, and y not before it. *)

Before(q, z, y) == \E a \in DOMAIN q : q[a] = z /\ \A k \in 1 .. a : q[k] # y

LEMMA BeforeIsAhead ==
  ASSUME NEW q \in Seq(Items), NEW z, NEW y, z \in AheadOf(y, q)
  PROVE  Before(q, z, y)
  BY DEF AheadOf, Before

(* Whoever is taken from the front leaves none behind that stood before.    *)
LEMMA RestIsBehind ==
  ASSUME NEW r \in Seq(Items), NEW q \in Seq(Items), IsRest(r, q), Distinct(q),
         NEW y, NEW z, Lists(q, y), ~Lists(r, y), Before(q, z, y)
  PROVE  ~Lists(r, z)
<1>1. PICK n \in Nat, m \in Nat :
        n = Len(r) /\ m = Len(q) /\ DOMAIN r = 1 .. n /\ DOMAIN q = 1 .. m
  BY Positions
<1>2. PICK k \in Nat : m = n + k /\ \A j \in 1 .. n : r[j] = q[j + k]
  BY <1>1 DEF IsRest
<1>3. PICK b \in 1 .. m : q[b] = y
  BY <1>1 DEF Lists
<1>4. PICK a \in 1 .. m : q[a] = z /\ \A l \in 1 .. a : q[l] # y
  BY <1>1 DEF Before
<1>5. a < b
  <2>1. b \notin 1 .. a
    BY <1>3, <1>4
  <2>. QED
    BY <2>1
<1>6. b <= k
  <2>1. SUFFICES ASSUME b > k PROVE FALSE
    OBVIOUS
  <2>2. b - k \in 1 .. n /\ (b - k) + k = b
    BY <1>2, <2>1
  <2>3. r[b - k] = y
    BY <1>2, <1>3, <2>2
  <2>. QED
    BY <1>1, <2>2, <2>3 DEF Lists
<1>7. SUFFICES ASSUME NEW j \in 1 .. n, r[j] = z PROVE FALSE
  BY <1>1 DEF Lists
<1>8. q[j + k] = z /\ j + k \in 1 .. m
  BY <1>2, <1>7
<1>9. j + k = a
  BY <1>1, <1>4, <1>8 DEF Distinct
<1>. QED
  BY <1>5, <1>6, <1>9

LEMMA RestKeepsBefore ==
  ASSUME NEW r \in Seq(Items), NEW q \in Seq(Items), IsRest(r, q), Distinct(q),
         NEW y, NEW z, Lists(r, z), Before(q, z, y)
  PROVE  Before(r, z, y)
<1>1. PICK n \in Nat, m \in Nat :
        n = Len(r) /\ m = Len(q) /\ DOMAIN r = 1 .. n /\ DOMAIN q = 1 .. m
  BY Positions
<1>2. PICK k \in Nat : m = n + k /\ \A j \in 1 .. n : r[j] = q[j + k]
  BY <1>1 DEF IsRest
<1>3. PICK a \in 1 .. m : q[a] = z /\ \A l \in 1 .. a : q[l] # y
  BY <1>1 DEF Before
<1>4. PICK j \in 1 .. n : r[j] = z
  BY <1>1 DEF Lists
<1>5. q[j + k] = z /\ j + k \in 1 .. m
  BY <1>2, <1>4
<1>6. j + k = a
  BY <1>1, <1>3, <1>5 DEF Distinct
<1>7. ASSUME NEW l \in 1 .. j PROVE r[l] # y
  <2>1. l \in 1 .. n /\ l + k \in 1 .. a
    BY <1>6
  <2>. QED
    BY <1>2, <1>3, <2>1
<1>. QED
  BY <1>1, <1>4, <1>7 DEF Before

LEMMA RestLists ==
  ASSUME NEW r \in Seq(Items), NEW q \in Seq(Items), IsRest(r, q), NEW z, Lists(r, z)
  PROVE  Lists(q, z)
<1>1. PICK n \in Nat, m \in Nat :
        n = Len(r) /\ m = Len(q) /\ DOMAIN r = 1 .. n /\ DOMAIN q = 1 .. m
  BY Positions
<1>2. PICK k \in Nat : m = n + k /\ \A j \in 1 .. n : r[j] = q[j + k]
  BY <1>1 DEF IsRest
<1>3. PICK j \in 1 .. n : r[j] = z
  BY <1>1 DEF Lists
<1>4. j + k \in 1 .. m /\ q[j + k] = z
  BY <1>2, <1>3
<1>. QED
  BY <1>1, <1>4 DEF Lists

LEMMA AppendKeepsBefore ==
  ASSUME NEW q \in Seq(Items), NEW x \in Items, NEW r, r = Append(q, x),
         NEW y, NEW z, Before(q, z, y)
  PROVE  Before(r, z, y)
<1>1. PICK m \in Nat : m = Len(q) /\ DOMAIN q = 1 .. m
  BY Positions
<1>2. DOMAIN r = 1 .. m + 1 /\ \A k \in 1 .. m : r[k] = q[k]
  BY <1>1, OneMore, Positions
<1>3. PICK a \in 1 .. m : q[a] = z /\ \A l \in 1 .. a : q[l] # y
  BY <1>1 DEF Before
<1>4. a \in 1 .. m + 1 /\ \A l \in 1 .. a : l \in 1 .. m
  OBVIOUS
<1>5. r[a] = z /\ \A l \in 1 .. a : r[l] # y
  BY <1>2, <1>3, <1>4
<1>. QED
  BY <1>2, <1>4, <1>5 DEF Before

LEMMA RemoveKeepsBefore ==
  ASSUME NEW q \in Seq(Items), NEW x, Distinct(q), Lists(q, x), NEW r, r = RemoveFirst(q, x),
         NEW y, NEW z, z # x, Before(q, z, y)
  PROVE  Before(r, z, y)
<1>1. PICK n \in Nat : n = Len(q) /\ DOMAIN q = 1 .. n
  BY Positions
<1>2. PICK p \in 1 .. n :
        /\ q[p] = x /\ r \in Seq(Items) /\ Len(r) = n - 1
        /\ \A j \in 1 .. n - 1 : r[j] = IF j < p THEN q[j] ELSE q[j + 1]
  BY <1>1, RemovedOnce
<1>3. DOMAIN r = 1 .. n - 1
  BY <1>2, Positions
<1>4. PICK a \in 1 .. n : q[a] = z /\ \A l \in 1 .. a : q[l] # y
  BY <1>1 DEF Before
<1>5. a # p
  BY <1>2, <1>4
<1>6. PICK b \in 1 .. n - 1 : b = IF a < p THEN a ELSE a - 1
  <2>1. CASE a < p
    BY <2>1
  <2>2. CASE p < a
    BY <2>2
  <2>. QED
    BY <1>5, <2>1, <2>2
<1>7. r[b] = z
  BY <1>2, <1>4, <1>5, <1>6
<1>8. ASSUME NEW l \in 1 .. b PROVE r[l] # y
  <2>1. l \in 1 .. n - 1 /\ l \in 1 .. a /\ (~(l < p) => l + 1 \in 1 .. a)
    BY <1>5, <1>6
  <2>. QED
    BY <1>2, <1>4, <2>1
<1>. QED
  BY <1>3, <1>7, <1>8 DEF Before

-----------------------------------------------------------------------------
(* The methods: what each makes of the controller. *)

(* Whoever was admitted left none behind that stood before. *)
InOrder(s, t) ==
  \A y \in t.leases \ s.leases : \A z :
    Before(s.queue[y.by], z, y) => ~Lists(t.queue[y.by], z)

Acquires(s, t, x) ==
  /\ Sound(t) /\ Idle(t) /\ InOrder(s, t)
  /\ s.leases \subseteq t.leases
  /\ Present(s) \subseteq Present(t) /\ Present(t) \subseteq Present(s) \cup {x}
  /\ \A i \in Identities : \A z : Lists(t.queue[i], z) => z = x \/ Lists(s.queue[i], z)

Takes(s, t, x) ==
  /\ Sound(t) /\ Idle(t) /\ InOrder(s, t)
  /\ Present(t) = Present(s) \ {x}

LEMMA ServesInOrder ==
  ASSUME NEW s, Sound(s), NEW u, Sound(u), NEW t, Serves(u, t),
         u.leases \subseteq s.leases,
         \A i \in Identities : \A y, z :
           Before(s.queue[i], z, y) /\ Lists(u.queue[i], z) => Before(u.queue[i], z, y)
  PROVE  InOrder(s, t)
<1>1. /\ u \in ControllersOver(Nat) /\ t \in ControllersOver(Nat)
      /\ QueuesInv(u) /\ QueuesInv(t) /\ u.queue \in [Identities -> Seq(Items)]
      /\ t.queue \in [Identities -> Seq(Items)] /\ t.leases \in SUBSET Items
  BY FieldTypes DEF Serves, Sound
<1>2. SUFFICES ASSUME NEW y \in t.leases \ s.leases, NEW z,
                      Before(s.queue[y.by], z, y), Lists(t.queue[y.by], z)
               PROVE  FALSE
  BY DEF InOrder
<1>3. y \in Items /\ y.by \in Identities
  BY <1>1, ClassTiers
<1>4. Lists(u.queue[y.by], y)
  <2>1. y \in WaitsIn(u)
    BY DEF Serves, Present
  <2>. QED
    BY <1>1, <2>1, WaitsInQueue
<1>5. ~Lists(t.queue[y.by], y)
  BY <1>1, <1>3 DEF QueuesInv, Lists
<1>6. PICK q \in Seq(Items), r \in Seq(Items) : q = u.queue[y.by] /\ r = t.queue[y.by]
  BY <1>1, <1>3
<1>7. IsRest(r, q) /\ Distinct(q)
  BY <1>1, <1>3, <1>6, QueuesAreDistinct DEF Serves
<1>8. Lists(q, z)
  BY <1>2, <1>6, <1>7, RestLists
<1>9. Before(q, z, y)
  BY <1>2, <1>3, <1>6, <1>8
<1>. QED
  BY <1>2, <1>4, <1>5, <1>6, <1>7, <1>9, RestIsBehind

LEMMA AcquiredServes ==
  ASSUME NEW s, Sound(s), Idle(s), NEW x \in Items, x \notin Present(s)
  PROVE  Acquires(s, Acquired(s, x), x)
<1>. DEFINE t == Acquired(s, x)
<1>1. /\ s \in ControllersOver(Nat) /\ QueuesInv(s) /\ OrderInv(s) /\ CountsInv(s)
      /\ s.queue \in [Identities -> Seq(Items)] /\ x.by \in Identities
      /\ s.leases \in SUBSET Items
  BY FieldTypes, ClassTiers DEF Sound
<1>2. CASE s.queued = 0 /\ CanGrant(s, x)
  <2>1. t = Granted(s, x)
    BY <1>2 DEF Acquired
  <2>. HIDE DEF t
  <2>2. /\ t \in ControllersOver(Nat) /\ t.leases = s.leases \cup {x}
        /\ t.queue = s.queue /\ t.order = s.order /\ t.queued = s.queued
    BY <1>1, <2>1, GrantedFields
  <2>3. \A i \in Identities : s.queue[i] = <<>>
    BY <1>1, <1>2, NobodyQueued
  <2>4. x \notin s.leases
    BY DEF Present
  <2>5. CountsInv(t)
    BY <1>1, <1>2, <2>1, <2>4, GrantCounts
  <2>6. WaitsIn(t) = WaitsIn(s)
    BY <2>2 DEF WaitsIn
  <2>7. QueuesInv(t)
    BY <1>1, <2>2, <2>3, <2>6 DEF QueuesInv
  <2>8. OrderInv(t)
    BY <1>1, <2>2 DEF OrderInv
  <2>9. Sound(t) /\ Idle(t)
    BY <2>2, <2>3, <2>5, <2>7, <2>8 DEF Sound, Idle
  <2>10. \A i \in Identities : \A z : ~Lists(t.queue[i], z)
    BY <2>2, <2>3 DEF Lists
  <2>11. InOrder(s, t)
    BY <1>1, <2>2, <2>10 DEF InOrder, Items
  <2>12. Present(t) = Present(s) \cup {x}
    BY <2>2, <2>6 DEF Present
  <2>. QED
    BY <2>2, <2>9, <2>10, <2>11, <2>12 DEF Acquires, t
<1>3. CASE ~(s.queued = 0 /\ CanGrant(s, x)) /\ QueueIsFull(s, x)
  <2>1. t = s
    BY <1>3 DEF Acquired
  <2>. QED
    BY <2>1 DEF Acquires, InOrder
<1>4. CASE ~(s.queued = 0 /\ CanGrant(s, x)) /\ ~QueueIsFull(s, x)
  <2>. DEFINE u == Enqueued(s, x)
  <2>1. /\ Sound(u) /\ Present(u) = Present(s) \cup {x} /\ u.leases = s.leases
        /\ u.queue = [s.queue EXCEPT ![x.by] = Append(@, x)]
    BY EnqueuedSound
  <2>2. t = Dispatched(u)
    BY <1>4 DEF Acquired
  <2>. HIDE DEF u, t
  <2>3. Serves(u, t)
    BY <2>1, <2>2, DispatchServes
  <2>4. /\ u.queue[x.by] = Append(s.queue[x.by], x)
        /\ \A i \in Identities \ {x.by} : u.queue[i] = s.queue[i]
    BY <1>1, <2>1
  <2>5. u.queue \in [Identities -> Seq(Items)] /\ t.queue \in [Identities -> Seq(Items)]
    BY <2>1, <2>3, FieldTypes DEF Serves, Sound
  <2>6. PICK q \in Seq(Items) : q = s.queue[x.by]
    BY <1>1
  <2>7. ASSUME NEW i \in Identities, NEW y, NEW z, Before(s.queue[i], z, y)
        PROVE  Before(u.queue[i], z, y)
    <3>1. CASE i = x.by
      BY <2>4, <2>6, <2>7, <3>1, AppendKeepsBefore
    <3>2. CASE i # x.by
      BY <2>4, <2>7, <3>2
    <3>. QED
      BY <3>1, <3>2
  <2>8. InOrder(s, t)
    BY <2>1, <2>3, <2>7, ServesInOrder
  <2>9. ASSUME NEW i \in Identities, NEW z, Lists(t.queue[i], z)
        PROVE  z = x \/ Lists(s.queue[i], z)
    <3>1. Lists(u.queue[i], z)
      <4>1. PICK r \in Seq(Items), o \in Seq(Items) : r = t.queue[i] /\ o = u.queue[i]
        BY <2>5
      <4>. QED
        BY <2>3, <2>9, <4>1, RestLists DEF Serves
    <3>2. CASE i = x.by
      <4>1. PICK m \in Nat : m = Len(q) /\ DOMAIN q = 1 .. m
        BY Positions
      <4>2. PICK o \in Seq(Items) : o = Append(q, x)
        BY OneMore
      <4>3. /\ DOMAIN o = 1 .. m + 1 /\ o[m + 1] = x
            /\ \A k \in 1 .. m : o[k] = q[k]
        BY <4>1, <4>2, OneMore, Positions
      <4>4. PICK k \in 1 .. m + 1 : o[k] = z
        BY <2>4, <2>6, <3>1, <3>2, <4>2, <4>3 DEF Lists
      <4>5. k = m + 1 \/ k \in 1 .. m
        OBVIOUS
      <4>6. k \in 1 .. m => Lists(q, z)
        BY <4>1, <4>3, <4>4 DEF Lists
      <4>. QED
        BY <2>6, <3>2, <4>3, <4>4, <4>5, <4>6
    <3>3. CASE i # x.by
      BY <2>4, <3>1, <3>3
    <3>. QED
      BY <3>2, <3>3
  <2>10. /\ Sound(t) /\ Idle(t) /\ s.leases \subseteq t.leases
         /\ Present(t) = Present(s) \cup {x}
    BY <2>1, <2>3 DEF Serves
  <2>. QED
    BY <2>8, <2>9, <2>10 DEF Acquires, t
<1>. QED
  BY <1>2, <1>3, <1>4

LEMMA ReleasedServes ==
  ASSUME NEW s, Sound(s), NEW x \in s.leases
  PROVE  LET t == Released(s, x)
         IN  /\ Takes(s, t, x)
             /\ \A i \in Identities : IsRest(t.queue[i], s.queue[i])
<1>. DEFINE t == Released(s, x)
            u == Freed(s, x)
<1>1. /\ Sound(u) /\ Present(u) = Present(s) \ {x}
      /\ u.leases = s.leases \ {x} /\ u.queue = s.queue
  BY FreedSound
<1>2. t = Dispatched(u)
  BY DEF Released, Freed
<1>. HIDE DEF t, u
<1>3. Serves(u, t)
  BY <1>1, <1>2, DispatchServes
<1>4. InOrder(s, t)
  BY <1>1, <1>3, ServesInOrder
<1>. QED
  BY <1>1, <1>3, <1>4 DEF Serves, Takes, t

LEMMA RemovedServes ==
  ASSUME NEW s, Sound(s), NEW x \in WaitsIn(s)
  PROVE  Takes(s, Removed(s, x), x)
<1>. DEFINE t == Removed(s, x)
            u == Dropped(s, x)
<1>1. /\ Sound(u) /\ Present(u) = Present(s) \ {x} /\ u.leases = s.leases
      /\ u.queue = [s.queue EXCEPT ![x.by] = RemoveFirst(@, x)]
  BY DroppedSound
<1>2. t = Dispatched(u)
  BY DEF Removed, Dropped
<1>. HIDE DEF t, u
<1>3. Serves(u, t)
  BY <1>1, <1>2, DispatchServes
<1>4. /\ s \in ControllersOver(Nat) /\ QueuesInv(s) /\ s.queue \in [Identities -> Seq(Items)]
      /\ x \in Items /\ x.by \in Identities /\ Lists(s.queue[x.by], x)
  BY FieldTypes, WaitsInQueue, ClassTiers DEF Sound
<1>5. /\ u.queue[x.by] = RemoveFirst(s.queue[x.by], x)
      /\ \A i \in Identities \ {x.by} : u.queue[i] = s.queue[i]
  BY <1>1, <1>4
<1>6. x \notin WaitsIn(u)
  BY <1>1, <1>4 DEF Present
<1>7. ASSUME NEW i \in Identities, NEW y, NEW z,
             Before(s.queue[i], z, y), Lists(u.queue[i], z)
      PROVE  Before(u.queue[i], z, y)
  <2>1. CASE i = x.by
    <3>1. PICK q \in Seq(Items) : q = s.queue[x.by]
      BY <1>4
    <3>2. z # x
      BY <1>4, <1>6, <1>7, <2>1 DEF WaitsIn, Lists
    <3>. QED
      BY <1>4, <1>5, <1>7, <2>1, <3>1, <3>2, QueuesAreDistinct, RemoveKeepsBefore
  <2>2. CASE i # x.by
    BY <1>5, <1>7, <2>2
  <2>. QED
    BY <2>1, <2>2
<1>8. InOrder(s, t)
  BY <1>1, <1>3, <1>7, ServesInOrder
<1>. QED
  BY <1>1, <1>3, <1>8 DEF Serves, Takes, t

(* Giving a slot back and asking for another, in one stretch. *)
LEMMA ChangedSlotInOrder ==
  ASSUME NEW s, Sound(s), NEW u, Sound(u), NEW t, Sound(t), NEW x,
         InOrder(s, u), InOrder(u, t), x \notin Present(s),
         \A i \in Identities : IsRest(u.queue[i], s.queue[i]),
         \A i \in Identities : \A z : Lists(t.queue[i], z) => z = x \/ Lists(u.queue[i], z)
  PROVE  InOrder(s, t)
<1>1. /\ s.queue \in [Identities -> Seq(Items)] /\ u.queue \in [Identities -> Seq(Items)]
      /\ t.leases \in SUBSET Items /\ QueuesInv(s)
  BY FieldTypes DEF Sound
<1>2. SUFFICES ASSUME NEW y \in t.leases \ s.leases, NEW z,
                      Before(s.queue[y.by], z, y), Lists(t.queue[y.by], z)
               PROVE  FALSE
  BY DEF InOrder
<1>3. y \in Items /\ y.by \in Identities
  BY <1>1, ClassTiers
<1>4. PICK q \in Seq(Items), r \in Seq(Items) : q = s.queue[y.by] /\ r = u.queue[y.by]
  BY <1>1, <1>3
<1>5. z # x
  <2>1. PICK a \in DOMAIN s.queue[y.by] : s.queue[y.by][a] = z
    BY <1>2 DEF Before
  <2>2. z \in Items
    BY <1>1, <1>3, <2>1, Positions
  <2>3. z \in WaitsIn(s)
    BY <1>3, <2>1, <2>2 DEF WaitsIn
  <2>. QED
    BY <2>3 DEF Present
<1>6. Lists(r, z) /\ IsRest(r, q) /\ Distinct(q) /\ Before(q, z, y)
  BY <1>1, <1>2, <1>3, <1>4, <1>5, QueuesAreDistinct
<1>7. CASE y \in u.leases
  BY <1>2, <1>4, <1>6, <1>7 DEF InOrder
<1>8. CASE y \notin u.leases
  <2>1. Before(r, z, y)
    BY <1>6, RestKeepsBefore
  <2>. QED
    BY <1>2, <1>4, <1>8, <2>1 DEF InOrder
<1>. QED
  BY <1>7, <1>8

-----------------------------------------------------------------------------
(* The requests inside the middleware and their items. *)

LEMMA ItemsOfRequests ==
  ASSUME TypeOK, NEW r \in Requests, NEW class \in Classes
  PROVE  /\ ItemFor(r, class) \in Items /\ ItemFor(r, class).req = r
         /\ ItemFor(r, class).class = class /\ ItemFor(r, class).by = Owner[r]
         /\ ItemOf(r) \in Items /\ ItemOf(r).req = r /\ ItemOf(r).by = Owner[r]
<1>1. Owner[r] \in Identities /\ want[r] \in Classes /\ "standard" \in Classes
  BY RequestsAssumption DEF TypeOK, Classes
<1>. QED
  BY <1>1 DEF ItemFor, ItemOf, Items

LEMMA HeldIsPresent ==
  ASSUME NEW s, Sound(s), NEW x \in Items
  PROVE  /\ Holds(s, x) <=> x \in Present(s)
         /\ x \in ToSet(s.queue[x.by]) <=> x \in WaitsIn(s)
         /\ ~(x \in s.leases /\ x \in WaitsIn(s))
<1>1. x \in WaitsIn(s) <=> Lists(s.queue[x.by], x)
  BY WaitsInQueue DEF Sound
<1>2. x \in ToSet(s.queue[x.by]) <=> Lists(s.queue[x.by], x)
  BY DEF ToSet, Lists
<1>3. x \in WaitsIn(s) => x \notin s.leases
  BY DEF WaitsIn, Sound, QueuesInv
<1>. QED
  BY <1>1, <1>2, <1>3 DEF Holds, Present

LEMMA InitAdmission ==
  ASSUME Init
  PROVE  AdmissionInv
<1>. DEFINE s == NewController
<1>1. /\ s.inFlight = [t \in Tiers |-> 0]
      /\ s.byIdentity = [i \in Identities |-> [t \in Tiers |-> 0]]
      /\ s.queue = [i \in Identities |-> <<>>]
      /\ s.order = <<>> /\ s.queued = 0 /\ s.leases = {}
  BY DEF NewController
<1>2. s \in ControllersOver(Nat)
  <2>1. <<>> \in Seq(Items) /\ <<>> \in Seq(Identities)
    BY EmptySeq
  <2>. QED
    BY <2>1 DEF NewController, ControllersOver
<1>. HIDE DEF s
<1>3. WaitsIn(s) = {}
  BY <1>1 DEF WaitsIn
<1>4. QueuesInv(s)
  BY <1>1, <1>3, FS_EmptySet DEF QueuesInv
<1>5. OrderInv(s) /\ Idle(s)
  BY <1>1 DEF OrderInv, Idle, Distinct, Lists
<1>6. CountsInv(s)
  <2>1. ASSUME NEW t \in Tiers
        PROVE  /\ Under(s, t) = {} /\ Limit[t] \in Nat /\ LimitPerIdentity[t] \in Nat
               /\ \A i \in Identities : UnderBy(s, i, t) = {}
    BY <1>1, LimitsAssumption DEF Under, UnderBy
  <2>2. IsFiniteSet({}) /\ Cardinality({}) = 0
    BY FS_EmptySet
  <2>3. ASSUME NEW t \in Tiers
        PROVE  /\ s.inFlight[t] = Cardinality(Under(s, t)) /\ s.inFlight[t] <= Limit[t]
               /\ \A i \in Identities :
                    /\ s.byIdentity[i][t] = Cardinality(UnderBy(s, i, t))
                    /\ s.byIdentity[i][t] <= LimitPerIdentity[t]
    <3>1. s.inFlight[t] = 0 /\ \A i \in Identities : s.byIdentity[i][t] = 0
      BY <1>1
    <3>2. 0 <= Limit[t] /\ 0 <= LimitPerIdentity[t]
      BY <2>1
    <3>. QED
      BY <2>1, <2>2, <3>1, <3>2
  <2>. QED
    BY <1>1, <2>2, <2>3 DEF CountsInv
<1>7. Present(s) = {}
  BY <1>1, <1>3 DEF Present
<1>8. Active = {}
  BY DEF Init, Active
<1>9. TypeOK
  BY <1>2 DEF Init, TypeOK, Classes, s
<1>. QED
  BY <1>2, <1>4, <1>5, <1>6, <1>7, <1>8, <1>9 DEF Init, AdmissionInv, Sound, s

(* A request leaves, and its item with it. *)
LEMMA EndsAdmission ==
  ASSUME AdmissionInv, NEW r \in Requests, Ends(r), Sound(ctl'), Idle(ctl'),
         Present(ctl') = Present(ctl) \ {ItemOf(r)}
  PROVE  AdmissionInv'
<1>1. TypeOK'
  BY DEF AdmissionInv, Sound, TypeOK, Ends, Classes
<1>2. Active' = Active \ {r} /\ \A q \in Active' : ItemOf(q)' = ItemOf(q)
  BY DEF AdmissionInv, TypeOK, Ends, Active, ItemOf, ItemFor
<1>3. \A q \in Requests : ItemOf(q).req = q
  BY DEF ItemOf, ItemFor
<1>4. {ItemOf(q) : q \in Active'} = {ItemOf(q) : q \in Active} \ {ItemOf(r)}
  BY <1>2, <1>3 DEF Active
<1>5. Present(ctl') = {ItemOf(q)' : q \in Active'}
  BY <1>2, <1>4 DEF AdmissionInv
<1>. QED
  BY <1>1, <1>5 DEF AdmissionInv

LEMMA ArriveAdmission ==
  ASSUME AdmissionInv, NEW r \in Requests, NEW call \in Calls[r], Arrive(r, call)
  PROVE  AdmissionInv' /\ InOrder(ctl, ctl')
<1>. DEFINE x == ItemFor(r, IF call.first = "parse" THEN "standard" ELSE call.class)
<1>1. call.first \in {"parse", "run"} /\ call.class \in Classes /\ "standard" \in Classes
  BY RequestsAssumption DEF Kinds, Classes
<1>2. x \in Items /\ x.req = r
  BY <1>1, ItemsOfRequests DEF AdmissionInv
<1>3. ctl' = Acquired(ctl, x) /\ phase[r] = "idle"
  BY DEF Arrive
<1>4. \A q \in Requests : ItemOf(q).req = q
  BY DEF ItemOf, ItemFor
<1>5. r \notin Active /\ Active \subseteq Requests
  BY <1>3 DEF Active
<1>6. CASE Holds(ctl', x)
  <2>1. /\ phase' = [phase EXCEPT ![r] = call.first]
        /\ want' = [want EXCEPT ![r] = call.class]
    BY <1>6 DEF Arrive
  <2>2. ItemOf(r)' = x
    BY <1>1, <2>1 DEF ItemOf, ItemFor, AdmissionInv, TypeOK
  <2>3. \A q \in Active : ItemOf(q)' = ItemOf(q)
    BY <1>5, <2>1 DEF ItemOf, ItemFor
  <2>4. Active' = Active \cup {r}
    BY <1>1, <2>1 DEF Active, AdmissionInv, TypeOK
  <2>. HIDE DEF x
  <2>5. x \notin Present(ctl)
    BY <1>2, <1>4, <1>5 DEF AdmissionInv
  <2>6. Acquires(ctl, ctl', x)
    BY <1>2, <1>3, <2>5, AcquiredServes DEF AdmissionInv
  <2>7. x \in Present(ctl')
    BY <1>2, <1>6, <2>6, HeldIsPresent DEF Acquires
  <2>8. Present(ctl') = {ItemOf(q)' : q \in Active'}
    BY <2>2, <2>3, <2>4, <2>6, <2>7 DEF Acquires, AdmissionInv
  <2>9. TypeOK'
    BY <1>1, <2>1, <2>6 DEF AdmissionInv, TypeOK, Acquires, Sound
  <2>. QED
    BY <2>6, <2>8, <2>9 DEF Acquires, AdmissionInv
<1>7. CASE ~Holds(ctl', x)
  <2>1. phase' = phase /\ want' = want
    BY <1>7 DEF Arrive
  <2>. HIDE DEF x
  <2>2. x \notin Present(ctl)
    BY <1>2, <1>4, <1>5 DEF AdmissionInv
  <2>3. Acquires(ctl, ctl', x)
    BY <1>2, <1>3, <2>2, AcquiredServes DEF AdmissionInv
  <2>4. x \notin Present(ctl')
    BY <1>2, <1>7, <2>3, HeldIsPresent DEF Acquires
  <2>5. Present(ctl') = Present(ctl)
    BY <2>3, <2>4 DEF Acquires
  <2>6. {ItemOf(q)' : q \in Active'} = {ItemOf(q) : q \in Active}
    BY <2>1 DEF ItemOf, Active
  <2>7. TypeOK'
    BY <2>1, <2>3 DEF AdmissionInv, TypeOK, Acquires, Sound
  <2>. QED
    BY <2>3, <2>5, <2>6, <2>7 DEF Acquires, AdmissionInv
<1>. QED
  BY <1>6, <1>7

LEMMA KeepSlotAdmission ==
  ASSUME AdmissionInv, NEW r \in Requests, KeepSlot(r)
  PROVE  AdmissionInv' /\ InOrder(ctl, ctl')
<1>1. /\ ctl' = ctl /\ want' = want /\ phase' = [phase EXCEPT ![r] = "run"]
      /\ phase[r] = "parse" /\ want[r] = "standard"
  BY DEF KeepSlot
<1>2. \A q \in Requests : ItemOf(q)' = ItemOf(q)
  BY <1>1 DEF ItemOf, ItemFor, AdmissionInv, TypeOK
<1>3. Active' = Active
  BY <1>1 DEF Active, AdmissionInv, TypeOK
<1>4. Active \subseteq Requests
  BY DEF Active
<1>5. {ItemOf(q)' : q \in Active'} = {ItemOf(q) : q \in Active}
  BY <1>2, <1>3, <1>4
<1>6. TypeOK'
  BY <1>1 DEF AdmissionInv, TypeOK
<1>. QED
  BY <1>1, <1>5, <1>6 DEF AdmissionInv, InOrder

(* Others queue under other items, and this one under another class.       *)
LEMMA ReclassifyAdmission ==
  ASSUME AdmissionInv, NEW r \in Requests, Reclassify(r)
  PROVE  AdmissionInv' /\ InOrder(ctl, ctl')
<1>. DEFINE old == ItemOf(r)
            new == ItemFor(r, want[r])
            u   == Released(ctl, old)
<1>1. /\ ctl' = Acquired(u, new) /\ phase[r] = "parse" /\ want[r] # "standard"
      /\ old \in ctl.leases /\ r \in Active /\ Active \subseteq Requests
  BY DEF Reclassify, Leased, Active
<1>2. /\ want[r] \in Classes /\ "standard" \in Classes /\ Sound(ctl)
      /\ Present(ctl) = {ItemOf(q) : q \in Active}
  BY DEF AdmissionInv, TypeOK, Classes
<1>3. /\ new \in Items /\ new.req = r /\ new.class = want[r] /\ old.class = "standard"
      /\ \A q \in Requests : ItemOf(q).req = q
  BY <1>1, <1>2, ItemsOfRequests DEF AdmissionInv, ItemOf, ItemFor
<1>4. /\ Holds(ctl', new) => phase' = [phase EXCEPT ![r] = "run"] /\ want' = want
      /\ ~Holds(ctl', new) => Ends(r)
  BY DEF Reclassify
<1>5. ItemFor(r, want[r])= new
  OBVIOUS
<1>. HIDE DEF new, old, u
<1>6. /\ Takes(ctl, u, old)
      /\ \A i \in Identities : IsRest(u.queue[i], ctl.queue[i])
  BY <1>1, <1>2, ReleasedServes DEF u
<1>7. new \notin Present(ctl)
  BY <1>1, <1>2, <1>3 DEF old
<1>8. Acquires(u, ctl', new)
  BY <1>1, <1>3, <1>6, <1>7, AcquiredServes DEF Takes
<1>9. InOrder(ctl, ctl')
  BY <1>2, <1>6, <1>7, <1>8, ChangedSlotInOrder DEF Takes, Acquires
<1>10. CASE Holds(ctl', new)
  <2>1. phase' = [phase EXCEPT ![r] = "run"] /\ want' = want
    BY <1>4, <1>10
  <2>2. ItemOf(r)' = new
    BY <2>1, <1>5 DEF ItemOf, ItemFor, AdmissionInv, TypeOK
  <2>3. \A q \in Active \ {r} : ItemOf(q)' = ItemOf(q)
    BY <1>1, <2>1 DEF ItemOf, ItemFor, AdmissionInv, TypeOK
  <2>4. Active' = Active
    BY <1>1, <2>1 DEF Active, AdmissionInv, TypeOK
  <2>5. new \in Present(ctl')
    BY <1>3, <1>8, <1>10, HeldIsPresent DEF Acquires
  <2>6. Present(u) = {ItemOf(q) : q \in Active \ {r}}
    BY <1>1, <1>2, <1>3, <1>6 DEF Takes, old
  <2>7. Present(ctl') = Present(u) \cup {new}
    BY <1>8, <2>5 DEF Acquires
  <2>8. Present(ctl') = {ItemOf(q)' : q \in Active'}
    BY <1>1, <2>2, <2>3, <2>4, <2>6, <2>7
  <2>9. TypeOK'
    BY <1>8, <2>1 DEF AdmissionInv, TypeOK, Acquires, Sound
  <2>. QED
    BY <1>8, <1>9, <2>8, <2>9 DEF Acquires, AdmissionInv
<1>11. CASE ~Holds(ctl', new)
  <2>1. new \notin Present(ctl')
    BY <1>3, <1>8, <1>11, HeldIsPresent DEF Acquires
  <2>2. Present(ctl') = Present(ctl) \ {old}
    BY <1>6, <1>8, <2>1 DEF Acquires, Takes
  <2>3. Ends(r)
    BY <1>4, <1>11
  <2>. QED
    BY <1>8, <1>9, <2>2, <2>3, EndsAdmission DEF Acquires, old
<1>. QED
  BY <1>10, <1>11

LEMMA FinishAdmission ==
  ASSUME AdmissionInv, NEW r \in Requests, Finish(r)
  PROVE  AdmissionInv' /\ InOrder(ctl, ctl')
<1>. DEFINE x    == ItemOf(r)
            once == Released(ctl, x)
<1>1. /\ x \in ctl.leases /\ Ends(r)
      /\ ctl' = once \/ ctl' = Released(once, x)
  BY DEF Finish, Leased
<1>. HIDE DEF x, once
<1>2. Takes(ctl, once, x)
  BY <1>1, ReleasedServes DEF AdmissionInv, once
<1>3. x \notin once.leases
  BY <1>2 DEF Takes, Present
<1>4. ctl' = once
  BY <1>1, <1>3 DEF Released
<1>. QED
  BY <1>1, <1>2, <1>4, EndsAdmission DEF Takes, x

LEMMA GiveUpAdmission ==
  ASSUME AdmissionInv, NEW r \in Requests, GiveUp(r)
  PROVE  AdmissionInv' /\ InOrder(ctl, ctl')
<1>1. /\ ItemOf(r) \in ToSet(ctl.queue[Owner[r]]) /\ ctl' = Removed(ctl, ItemOf(r)) /\ Ends(r)
  BY DEF GiveUp, Waiting
<1>2. ItemOf(r) \in Items /\ ItemOf(r).by = Owner[r] /\ Sound(ctl)
  BY ItemsOfRequests DEF AdmissionInv, Classes
<1>3. ItemOf(r) \in WaitsIn(ctl)
  BY <1>1, <1>2, HeldIsPresent
<1>4. Takes(ctl, ctl', ItemOf(r))
  BY <1>1, <1>2, <1>3, RemovedServes
<1>. QED
  BY <1>1, <1>4, EndsAdmission DEF Takes

LEMMA NextAdmission ==
  ASSUME AdmissionInv, [Next]_vars
  PROVE  AdmissionInv' /\ InOrder(ctl, ctl')
<1>1. CASE \E r \in Requests : \E call \in Calls[r] : Arrive(r, call)
  BY <1>1, ArriveAdmission
<1>2. CASE \E r \in Requests : KeepSlot(r)
  BY <1>2, KeepSlotAdmission
<1>3. CASE \E r \in Requests : Reclassify(r)
  BY <1>3, ReclassifyAdmission
<1>4. CASE \E r \in Requests : Finish(r)
  BY <1>4, FinishAdmission
<1>5. CASE \E r \in Requests : GiveUp(r)
  BY <1>5, GiveUpAdmission
<1>6. CASE UNCHANGED vars
  <2>1. ctl' = ctl /\ phase' = phase /\ want' = want
    BY <1>6 DEF vars
  <2>2. {ItemOf(q)' : q \in Active'} = {ItemOf(q) : q \in Active}
    BY <2>1 DEF ItemOf, Active
  <2>3. TypeOK'
    BY <2>1 DEF AdmissionInv, TypeOK
  <2>. QED
    BY <2>1, <2>2, <2>3 DEF AdmissionInv, InOrder
<1>. QED
  BY <1>1, <1>2, <1>3, <1>4, <1>5, <1>6 DEF Next

-----------------------------------------------------------------------------
(* The theorems. *)

(* In every reachable state the counters count the leases, each item waits *)
(* or is leased, and the dispatch has nothing left to do.                  *)
THEOREM AdmissionInvariant == Spec => []AdmissionInv
<1>1. AdmissionInv /\ [Next]_vars => AdmissionInv'
  BY NextAdmission
<1>. QED
  BY <1>1, InitAdmission, PTL DEF Spec

(* No path of a response takes a counter of the controller below zero.     *)
THEOREM CountersAreTyped == Spec => []TypeOK
<1>1. AdmissionInv => TypeOK
  BY DEF AdmissionInv
<1>. QED
  BY <1>1, AdmissionInvariant, PTL

(* The operations in flight stay under the ceilings of the server and of   *)
(* each identity, for any ceilings that the schema accepts.                *)
THEOREM CeilingsHold == Spec => []LeasesFit
<1>1. AdmissionInv => LeasesFit
  <2>1. \A t : Consuming(t) = Under(ctl, t)
    BY DEF Consuming, Under
  <2>2. \A i, t : ConsumingBy(i, t) = UnderBy(ctl, i, t)
    BY <2>1 DEF ConsumingBy, UnderBy
  <2>. QED
    BY <2>1, <2>2 DEF AdmissionInv, Sound, CountsInv, LeasesFit
<1>. QED
  BY <1>1, AdmissionInvariant, PTL

(* Whatever frees capacity or changes the head of a queue is followed by a *)
(* dispatch that serves all it can.                                        *)
THEOREM CapacityIsUsed == Spec => []NoIdleCapacity
<1>1. ASSUME AdmissionInv
      PROVE  NoIdleCapacity
  <2>1. /\ ctl \in ControllersOver(Nat) /\ QueuesInv(ctl) /\ CountsInv(ctl) /\ Idle(ctl)
        /\ ctl.queue \in [Identities -> Seq(Items)]
    BY <1>1, FieldTypes DEF AdmissionInv, Sound
  <2>2. ASSUME NEW i \in Identities, ctl.queue[i] # <<>>
        PROVE  \E t \in TiersOf(Head(ctl.queue[i]).class) :
                 \/ Cardinality(Consuming(t)) >= Limit[t]
                 \/ Cardinality(ConsumingBy(i, t)) >= LimitPerIdentity[t]
    <3>. DEFINE x == Head(ctl.queue[i])
    <3>1. PICK q \in Seq(Items) : q = ctl.queue[i]
      BY <2>1
    <3>2. x = q[1] /\ x \in Items /\ 1 \in DOMAIN q
      BY <2>2, <3>1, FrontAndRest, Positions
    <3>3. x.by = i
      BY <2>1, <3>1, <3>2 DEF QueuesInv
    <3>. HIDE DEF x
    <3>4. ~CanGrant(ctl, x)
      BY <2>1, <2>2 DEF Idle, x
    <3>5. PICK t \in TiersOf(x.class) :
            ~(ctl.inFlight[t] < Limit[t]) \/ ~(ctl.byIdentity[i][t] < LimitPerIdentity[t])
      BY <3>3, <3>4 DEF CanGrant
    <3>6. t \in Tiers
      BY <3>2, ClassTiers
    <3>7. /\ ctl.inFlight[t] = Cardinality(Consuming(t)) /\ ctl.inFlight[t] \in Nat
          /\ ctl.byIdentity[i][t] = Cardinality(ConsumingBy(i, t)) /\ ctl.byIdentity[i][t] \in Nat
          /\ Limit[t] \in Nat /\ LimitPerIdentity[t] \in Nat
      <4>1. Consuming(t) = Under(ctl, t) /\ ConsumingBy(i, t) = UnderBy(ctl, i, t)
        BY DEF Consuming, ConsumingBy, Under, UnderBy
      <4>. QED
        BY <2>1, <3>6, <4>1, FieldTypes, LimitsAssumption DEF CountsInv
    <3>8. Cardinality(Consuming(t)) >= Limit[t] \/ Cardinality(ConsumingBy(i, t)) >= LimitPerIdentity[t]
      BY <3>5, <3>7
    <3>. QED
      BY <3>8 DEF x
  <2>. QED
    BY <2>2 DEF NoIdleCapacity
<1>. QED
  BY <1>1, AdmissionInvariant, PTL

(* A request inside the middleware waits or holds a lease, and nothing     *)
(* else does: a promise that nobody would settle does not exist.           *)
THEOREM NobodyIsLost == Spec => []NoRequestIsLost
<1>1. ASSUME AdmissionInv
      PROVE  NoRequestIsLost
  <2>1. /\ Sound(ctl) /\ ctl \in ControllersOver(Nat) /\ QueuesInv(ctl) /\ OrderInv(ctl)
        /\ ctl.order \in Seq(Identities)
        /\ Present(ctl) = {ItemOf(r) : r \in Active}
    BY <1>1, FieldTypes DEF AdmissionInv, Sound
  <2>2. ASSUME NEW r \in Requests, phase[r] # "idle"
        PROVE  Waiting(r) <=> ~Leased(r)
    <3>1. ItemOf(r) \in Items /\ ItemOf(r).by = Owner[r]
      BY <1>1, ItemsOfRequests DEF AdmissionInv, Classes
    <3>2. ItemOf(r) \in Present(ctl)
      BY <2>1, <2>2 DEF Active
    <3>3. Waiting(r) <=> ItemOf(r) \in WaitsIn(ctl)
      BY <2>1, <2>2, <3>1, HeldIsPresent DEF Waiting
    <3>4. Leased(r) <=> ItemOf(r) \in ctl.leases
      BY <2>2 DEF Leased
    <3>. QED
      BY <2>1, <3>1, <3>2, <3>3, <3>4, HeldIsPresent DEF Present
  <2>3. WaitsIn(ctl) = UNION {ToSet(ctl.queue[i]) : i \in Identities}
    <3>1. ASSUME NEW i \in Identities, NEW x, x \in ToSet(ctl.queue[i])
          PROVE  x \in WaitsIn(ctl)
      <4>1. PICK k \in DOMAIN ctl.queue[i] : ctl.queue[i][k] = x
        BY <3>1 DEF ToSet
      <4>2. x \in Items
        <5>1. PICK q \in Seq(Items) : q = ctl.queue[i]
          BY <2>1, FieldTypes
        <5>. QED
          BY <4>1, <5>1, Positions
      <4>. QED
        BY <4>1, <4>2 DEF WaitsIn
    <3>2. ASSUME NEW x \in WaitsIn(ctl)
          PROVE  \E i \in Identities : x \in ToSet(ctl.queue[i])
      BY DEF WaitsIn, ToSet
    <3>. QED
      BY <3>1, <3>2
  <2>4. IsInjective(ctl.order)
    BY <2>1 DEF OrderInv, Distinct, IsInjective
  <2>5. ToSet(ctl.order) = {i \in Identities : ctl.queue[i] # <<>>}
    <3>1. \A i : i \in ToSet(ctl.order) <=> Lists(ctl.order, i)
      BY DEF ToSet, Lists
    <3>2. \A i : Lists(ctl.order, i) => i \in Identities
      BY <2>1, Positions DEF Lists
    <3>. QED
      BY <2>1, <3>1, <3>2 DEF OrderInv
  <2>. QED
    BY <2>1, <2>2, <2>3, <2>4, <2>5 DEF NoRequestIsLost, Present, Active
<1>. QED
  BY <1>1, AdmissionInvariant, PTL

(* No step admits a request and leaves one waiting that queued before it   *)
(* in the same identity, the step that gives back a slot and asks for      *)
(* another class included.                                                 *)
THEOREM QueuesKeepTheirOrder == Spec => ServedInOrder
<1>1. ASSUME AdmissionInv, [Next]_vars
      PROVE  \A y \in ctl'.leases \ ctl.leases :
               AheadOf(y, ctl.queue[y.by]) \cap ToSet(ctl'.queue[y.by]) = {}
  <2>1. AdmissionInv' /\ InOrder(ctl, ctl')
    BY <1>1, NextAdmission
  <2>2. /\ ctl.queue \in [Identities -> Seq(Items)] /\ ctl'.leases \in SUBSET Items
    BY <1>1, <2>1, FieldTypes DEF AdmissionInv, Sound
  <2>3. ASSUME NEW y \in ctl'.leases \ ctl.leases, NEW z \in AheadOf(y, ctl.queue[y.by]),
               z \in ToSet(ctl'.queue[y.by])
        PROVE  FALSE
    <3>1. y.by \in Identities
      BY <2>2, ClassTiers
    <3>2. PICK q \in Seq(Items) : q = ctl.queue[y.by]
      BY <2>2, <3>1
    <3>3. Before(ctl.queue[y.by], z, y)
      BY <2>3, <3>2, BeforeIsAhead
    <3>4. Lists(ctl'.queue[y.by], z)
      BY <2>3 DEF ToSet, Lists
    <3>. QED
      BY <2>1, <3>3, <3>4 DEF InOrder
  <2>. QED
    BY <2>3
<1>. QED
  BY <1>1, AdmissionInvariant, PTL DEF Spec, ServedInOrder

=============================================================================
