-------------------------- MODULE MCHttpBackpressure --------------------------
(* Three identities, the first with one request, the others with two. *)
EXTENDS HttpBackpressure

CONSTANTS i1, i2, i3, r1, r2, r3, r4, r5

Owners == [r \in Requests |-> IF r = r1 THEN i1 ELSE IF r \in {r2, r3} THEN i2 ELSE i3]

(* Two operations at once, one mutation at once. *)
Ceilings == [t \in Tiers |-> IF t = "mutation" THEN 1 ELSE 2]

CeilingsPerIdentity == [t \in Tiers |-> IF t = "any" THEN 2 ELSE 1]

(* The first identity calls standard operations, the others anything. *)
MixedCalls ==
  [r \in Requests |-> IF Owners[r] = i1 THEN {k \in Kinds : k.class = "standard"} ELSE Kinds]

(* One identity calls a standard operation, the other two a mutation. *)
MutationCalls ==
  [r \in Requests |->
     {IF Owners[r] = i2 THEN [class |-> "standard", first |-> "run"]
      ELSE [class |-> "mutation", first |-> "parse"]}]

=============================================================================
