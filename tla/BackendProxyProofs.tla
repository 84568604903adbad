-------------------------- MODULE BackendProxyProofs --------------------------
(***************************************************************************)
(* Proofs about BackendProxy, for any number of calls, connections and     *)
(* builds of the backend: what changed something is not sent again, and    *)
(* what the caller is told is true.                                        *)
(***************************************************************************)
EXTENDS BackendProxy, TLAPS

-----------------------------------------------------------------------------
(* The invariant. *)

Types ==
  /\ backend \in Generations
  /\ conn \in [Generations -> {"none", "open", "closed"}]
  /\ retired \subseteq Generations
  /\ reads \in [Generations -> SUBSET Calls]
  /\ meta \in [gen : 0 .. MaxGenerations, reads : SUBSET Calls]
  /\ dialling \in {None, backend}
  /\ call \in [Calls -> CallStates]
  /\ entries \in [Calls -> 0 .. 2]
  /\ changed \subseteq Calls
  /\ cut \subseteq Calls

(* The handler of the call's tool was entered in this execution.           *)
ToolRan(k) == k.op = "tool" /\ k.ran

(* The call holds a proof for its tool. *)
Proved(k) == k.op = "tool" /\ k.pc \in {"bind", "send", "run", "reconnect"}

(* The proof is the truth about the connection it was made for; a replay   *)
(* after a network failure is of a read-only tool.                         *)
ProofIsTrue(c) ==
  Proved(call[c]) =>
    /\ call[c].gen \in Generations /\ call[c].gen <= backend
    /\ call[c].auth <=> c \in reads[call[c].gen]
    /\ call[c].why = "network" => call[c].auth

(* Shape of a call that runs or waits. *)
CallIsSound(c) ==
  /\ ToolRan(call[c]) => call[c].pc \in {"run", "reconnect"}
  /\ call[c].pc \in {"send", "run"} => call[c].gen \in Generations
  /\ call[c].pc # "done" => call[c].answer = "none"
  /\ call[c].pc = "reconnect" =>
       /\ call[c].lost # "none"
       /\ call[c].lost = "session-invalid" => ~call[c].ran
       /\ call[c].op = "tool" => call[c].why = "first"

(* What happened to the tool of a call under way. *)
HistoryIsTrue(c) ==
  call[c].pc # "done" =>
    /\ call[c].why # "network" => entries[c] = IF ToolRan(call[c]) THEN 1 ELSE 0
    /\ call[c].why = "network" =>
         c \notin changed /\ entries[c] <= IF ToolRan(call[c]) THEN 2 ELSE 1
    /\ c \in changed => ToolRan(call[c]) /\ ~call[c].auth

(* What happened to it in the end. *)
EndIsTrue(c) ==
  /\ c \in changed => entries[c] = 1
  /\ c \in changed \ (cut \ Governed) => call[c].answer \notin {"rejected", "unreachable"}

Good(c) == ProofIsTrue(c) /\ CallIsSound(c) /\ HistoryIsTrue(c) /\ EndIsTrue(c)

ProxyInv == Types /\ MetadataIsCurrent /\ \A c \in Calls : Good(c)

-----------------------------------------------------------------------------
LEMMA NewCallIsCallState == NewCall \in CallStates
  BY ProxyAssumption DEF NewCall, CallStates, Answers, None

LEMMA EndedIs ==
  ASSUME NEW c \in Calls, call[c] \in CallStates, NEW a \in Answers
  PROVE  /\ Ended(c, a) \in CallStates
         /\ Ended(c, a).pc = "done" /\ Ended(c, a).answer = Told(c, a)
         /\ ~Ended(c, a).ran /\ Ended(c, a).op = "tool"
<1>1. NewCall \in CallStates
  BY NewCallIsCallState
<1>2. call[c].why \in {"first", "network", "session-invalid"} /\ Told(c, a) \in Answers
  BY DEF CallStates, Told, Answers
<1>3. Ended(c, a) = [NewCall EXCEPT !.pc = "done", !.answer = Told(c, a), !.why = call[c].why]
  BY DEF Ended
<1>4. Ended(c, a) \in CallStates
  BY <1>1, <1>2, <1>3 DEF CallStates
<1>5. /\ Ended(c, a).pc = "done" /\ Ended(c, a).answer = Told(c, a)
      /\ ~Ended(c, a).ran /\ Ended(c, a).op = "tool"
  BY <1>3 DEF NewCall
<1>. QED
  BY <1>4, <1>5

LEMMA ListingIs ==
  ASSUME NEW k \in CallStates, NEW goal \in {"expose", "prove"}
  PROVE  /\ Listing(k, goal) \in CallStates
         /\ Listing(k, goal).op = "list" /\ Listing(k, goal).pc = "bind"
         /\ Listing(k, goal).why = k.why /\ Listing(k, goal).ran = FALSE
         /\ Listing(k, goal).answer = k.answer
  BY DEF Listing, CallStates

(* A call that a step does not touch stays good: proofs are of generations *)
(* that exist, and those never change their annotations.                   *)
LEMMA Untouched ==
  ASSUME ProxyInv, NEW d \in Calls,
         call'[d] = call[d], entries'[d] = entries[d],
         d \in changed' <=> d \in changed, d \in cut => d \in cut',
         backend' \in Generations, backend <= backend',
         \A g \in Generations : g <= backend => reads'[g] = reads[g]
  PROVE  Good(d)'
<1>1. Good(d) /\ Types
  BY DEF ProxyInv
<1>2. ProofIsTrue(d)'
  <2>. SUFFICES ASSUME Proved(call[d])
                PROVE  /\ call[d].gen \in Generations /\ call[d].gen <= backend'
                       /\ call[d].auth <=> d \in reads'[call[d].gen]
                       /\ call[d].why = "network" => call[d].auth
    BY DEF ProofIsTrue
  <2>1. /\ call[d].gen \in Generations /\ call[d].gen <= backend
        /\ call[d].auth <=> d \in reads[call[d].gen]
        /\ call[d].why = "network" => call[d].auth
    BY <1>1 DEF Good, ProofIsTrue
  <2>2. call[d].gen <= backend'
    BY <1>1, <2>1, ProxyAssumption DEF Types, Generations
  <2>. QED
    BY <2>1, <2>2
<1>3. CallIsSound(d)' /\ HistoryIsTrue(d)' /\ EndIsTrue(d)'
  BY <1>1 DEF Good, CallIsSound, HistoryIsTrue, EndIsTrue, ToolRan
<1>. QED
  BY <1>2, <1>3 DEF Good

(* A step that changes one call only. *)
LEMMA OneCall ==
  ASSUME ProxyInv, NEW c \in Calls, NEW state \in CallStates,
         call' = [call EXCEPT ![c] = state],
         UNCHANGED <<backend, reads>>,
         \A d \in Calls \ {c} : /\ entries'[d] = entries[d]
                                /\ d \in changed' <=> d \in changed
                                /\ d \in cut => d \in cut'
  PROVE  /\ call' \in [Calls -> CallStates] /\ call'[c] = state
         /\ \A d \in Calls \ {c} : Good(d)'
<1>1. /\ call \in [Calls -> CallStates]
      /\ backend' \in Generations /\ backend <= backend'
  BY ProxyAssumption DEF ProxyInv, Types, Generations
<1>2. call' \in [Calls -> CallStates] /\ call'[c] = state
      /\ \A d \in Calls \ {c} : call'[d] = call[d]
  BY <1>1
<1>3. ASSUME NEW d \in Calls \ {c} PROVE Good(d)'
  BY <1>1, <1>2, Untouched
<1>. QED
  BY <1>2, <1>3

(* A call that ends without an effect of its own, or that abandoned it:    *)
(* what a governed apply is told never denies an effect, since its handler *)
(* can only have run in the tool's own request.                            *)
LEMMA EndsGood ==
  ASSUME ProxyInv, NEW c \in Calls, NEW a \in Answers,
         call[c].pc # "done", call'[c] = Ended(c, a),
         UNCHANGED <<entries, changed>>, cut \subseteq cut',
         c \in changed /\ c \notin cut' => a \notin {"rejected", "unreachable"}
  PROVE  Good(c)'
<1>1. call[c] \in CallStates /\ Good(c)
  BY DEF ProxyInv, Types
<1>2. /\ Ended(c, a).pc = "done" /\ Ended(c, a).answer = Told(c, a)
      /\ ~Ended(c, a).ran /\ Ended(c, a).op = "tool"
  BY <1>1, EndedIs
<1>3. ProofIsTrue(c)' /\ CallIsSound(c)' /\ HistoryIsTrue(c)'
  BY <1>2 DEF ProofIsTrue, CallIsSound, HistoryIsTrue, ToolRan, Proved
<1>4. ASSUME c \in changed \ (cut' \ Governed)
      PROVE  Told(c, a) \notin {"rejected", "unreachable"}
  <2>1. CASE c \in Governed
    <3>1. ~Exposing(call[c])
      BY <1>1, <1>4 DEF Good, HistoryIsTrue, ToolRan, Exposing
    <3>. QED
      BY <2>1, <3>1 DEF Told
  <2>2. CASE c \notin Governed
    BY <1>4, <2>2 DEF Told
  <2>. QED
    BY <2>1, <2>2
<1>5. EndIsTrue(c)'
  BY <1>1, <1>2, <1>4 DEF Good, EndIsTrue
<1>. QED
  BY <1>3, <1>5 DEF Good

(* A call that goes on to a state in which its tool has not run.           *)
LEMMA GoesOnGood ==
  ASSUME ProxyInv, NEW c \in Calls, NEW state \in CallStates,
         call'[c] = state, UNCHANGED <<entries, changed, cut>>,
         ProofIsTrue(c)', ~ToolRan(state), c \notin changed,
         state.pc \notin {"reconnect", "done"}, state.answer = "none",
         state.pc \in {"send", "run"} => state.gen \in Generations,
         state.why # "network" => entries[c] = 0,
         state.why = "network" => entries[c] <= 1
  PROVE  Good(c)'
<1>1. Good(c)
  BY DEF ProxyInv
<1>2. CallIsSound(c)' /\ HistoryIsTrue(c)'
  BY DEF CallIsSound, HistoryIsTrue
<1>3. EndIsTrue(c)'
  BY <1>1 DEF Good, EndIsTrue
<1>. QED
  BY <1>2, <1>3 DEF Good

(* What is known of a call whose tool has not run. *)
LEMMA NotRun ==
  ASSUME ProxyInv, NEW c \in Calls, call[c].pc # "done", ~ToolRan(call[c])
  PROVE  /\ c \notin changed /\ call[c].answer = "none"
         /\ call[c].why # "network" => entries[c] = 0
         /\ call[c].why = "network" => entries[c] <= 1
  BY DEF ProxyInv, Good, CallIsSound, HistoryIsTrue

LEMMA DrainedIs ==
  ASSUME Types, NEW calls, NEW R
  PROVE  Drained(calls, R) \in [Generations -> {"none", "open", "closed"}]
  BY DEF Drained, Types

-----------------------------------------------------------------------------
(* The steps of one call.                                                  *)

LEMMA StepOfOneCall ==
  ASSUME ProxyInv, NEW c \in Calls, NEW state \in CallStates,
         call' = [call EXCEPT ![c] = state], Good(c)',
         UNCHANGED <<backend, reads, retired>>,
         conn' \in [Generations -> {"none", "open", "closed"}],
         meta' = meta \/ meta' = [gen |-> backend, reads |-> reads[backend]],
         dialling' \in {None, backend},
         entries' \in [Calls -> 0 .. 2], changed' \subseteq Calls, cut' \subseteq Calls,
         \A d \in Calls \ {c} : /\ entries'[d] = entries[d]
                                /\ d \in changed' <=> d \in changed
                                /\ d \in cut => d \in cut'
  PROVE  ProxyInv'
<1>1. Types /\ MetadataIsCurrent
  BY DEF ProxyInv
<1>2. call' \in [Calls -> CallStates] /\ \A d \in Calls \ {c} : Good(d)'
  BY OneCall
<1>3. backend \in Generations /\ reads[backend] \in SUBSET Calls /\ backend \in 0 .. MaxGenerations
  BY <1>1, ProxyAssumption DEF Types, Generations
<1>4. meta' \in [gen : 0 .. MaxGenerations, reads : SUBSET Calls]
  BY <1>1, <1>3 DEF Types
<1>5. Types'
  BY <1>1, <1>2, <1>4 DEF Types
<1>6. MetadataIsCurrent'
  BY <1>1, <1>3 DEF MetadataIsCurrent, Current
<1>. QED
  BY <1>2, <1>5, <1>6 DEF ProxyInv

(* A step that ends a call, with an answer that is true of it.             *)
LEMMA StepThatEnds ==
  ASSUME ProxyInv, NEW c \in Calls, NEW a \in Answers,
         call[c].pc # "done", call' = [call EXCEPT ![c] = Ended(c, a)],
         UNCHANGED <<backend, reads, retired, dialling, meta, entries, changed>>,
         conn' = conn \/ conn' = Drained(call', retired),
         cut' = cut \/ cut' = cut \cup {c},
         c \in changed /\ c \notin cut' => a \notin {"rejected", "unreachable"}
  PROVE  ProxyInv'
<1>1. Types /\ call \in [Calls -> CallStates]
  BY DEF ProxyInv, Types
<1>2. Ended(c, a) \in CallStates
  BY <1>1, EndedIs
<1>3. call'[c] = Ended(c, a)
  BY <1>1
<1>4. Good(c)'
  BY <1>3, EndsGood
<1>5. conn' \in [Generations -> {"none", "open", "closed"}]
  BY <1>1, DrainedIs DEF Types
<1>6. /\ dialling' \in {None, backend} /\ entries' \in [Calls -> 0 .. 2]
      /\ changed' \subseteq Calls /\ cut' \subseteq Calls
  BY <1>1 DEF Types
<1>. QED
  BY <1>2, <1>4, <1>5, <1>6, StepOfOneCall

(* A step after which the call's tool has not run in this execution.       *)
LEMMA StepThatGoesOn ==
  ASSUME ProxyInv, NEW c \in Calls, NEW state \in CallStates,
         call[c].pc # "done", ~ToolRan(call[c]), ~ToolRan(state),
         call' = [call EXCEPT ![c] = state],
         UNCHANGED <<backend, reads, retired, dialling, entries, changed, cut>>,
         conn' = conn \/ conn' = Drained(call', retired),
         meta' = meta \/ meta' = [gen |-> backend, reads |-> reads[backend]],
         ProofIsTrue(c)',
         state.pc \notin {"reconnect", "done"},
         state.pc \in {"send", "run"} => state.gen \in Generations,
         state.why = call[c].why, state.answer = call[c].answer
  PROVE  ProxyInv'
<1>1. Types /\ call \in [Calls -> CallStates]
  BY DEF ProxyInv, Types
<1>2. call'[c] = state
  BY <1>1
<1>3. Good(c)'
  <2>1. /\ c \notin changed /\ state.answer = "none"
        /\ state.why # "network" => entries[c] = 0
        /\ state.why = "network" => entries[c] <= 1
    BY NotRun
  <2>. QED
    BY <1>2, <2>1, GoesOnGood
<1>4. conn' \in [Generations -> {"none", "open", "closed"}]
  BY <1>1, DrainedIs DEF Types
<1>5. /\ dialling' \in {None, backend} /\ entries' \in [Calls -> 0 .. 2]
      /\ changed' \subseteq Calls /\ cut' \subseteq Calls
  BY <1>1 DEF Types
<1>. QED
  BY <1>3, <1>4, <1>5, StepOfOneCall

LEMMA ArriveKeeps == ASSUME ProxyInv, NEW c \in Calls, Arrive(c) PROVE ProxyInv'
<1>. DEFINE k == call[c]
            state == IF Current THEN [k EXCEPT !.pc = "prove"] ELSE Listing(k, "expose")
<1>1. call \in [Calls -> CallStates] /\ k \in CallStates /\ k.pc = "new" /\ ~ToolRan(k)
  BY DEF ProxyInv, Types, Good, CallIsSound, Arrive
<1>2. /\ call' = [call EXCEPT ![c] = state]
      /\ UNCHANGED <<backend, reads, retired, dialling, entries, changed, cut, conn, meta>>
  BY DEF Arrive, Becomes
<1>3. /\ state \in CallStates /\ ~ToolRan(state) /\ ~Proved(state)
      /\ state.pc \in {"prove", "bind"} /\ state.why = k.why /\ state.answer = k.answer
  <2>1. CASE Current
    <3>1. state = [k EXCEPT !.pc = "prove"]
      BY <2>1
    <3>. QED
      BY <1>1, <3>1 DEF CallStates, ToolRan, Proved
  <2>2. CASE ~Current
    <3>1. state = Listing(k, "expose")
      BY <2>2
    <3>. QED
      BY <1>1, <3>1, ListingIs DEF ToolRan, Proved
  <2>. QED
    BY <2>1, <2>2
<1>. HIDE DEF state
<1>4. ProofIsTrue(c)'
  BY <1>1, <1>2, <1>3 DEF ProofIsTrue
<1>. QED
  BY <1>1, <1>2, <1>3, <1>4, StepThatGoesOn

LEMMA ProveKeeps == ASSUME ProxyInv, NEW c \in Calls, Prove(c) PROVE ProxyInv'
<1>. DEFINE k == call[c]
            proof == c \in meta.reads
            held == [k EXCEPT !.pc = "bind", !.op = "tool", !.gen = meta.gen,
                              !.auth = proof, !.ran = FALSE, !.listed = FALSE]
            listing == [Listing(k, "prove") EXCEPT !.listed = TRUE, !.stale = FALSE]
<1>1. /\ Types /\ call \in [Calls -> CallStates] /\ k \in CallStates
      /\ k.pc = "prove" /\ ~ToolRan(k)
  BY DEF ProxyInv, Types, Good, CallIsSound, Prove
<1>2. UNCHANGED <<backend, reads, retired, dialling, entries, changed, cut, conn, meta>>
  BY DEF Prove, Becomes
<1>3. c \notin changed
  BY <1>1, NotRun
<1>4. ASSUME NEW a \in {"outcome_unknown", "rejected"}, call' = [call EXCEPT ![c] = Ended(c, a)]
      PROVE  ProxyInv'
  <2>1. a \in Answers
    BY DEF Answers
  <2>. QED
    BY <1>1, <1>2, <1>3, <1>4, <2>1, StepThatEnds
<1>5. ASSUME Current, ~(k.why = "network" /\ ~proof), call' = [call EXCEPT ![c] = held]
      PROVE  ProxyInv'
  <2>1. meta.gen = backend /\ backend \in Generations /\ meta.gen \in 0 .. MaxGenerations
    BY <1>1, <1>5 DEF Current, Types
  <2>2. meta.reads = reads[backend]
    BY <2>1, ProxyAssumption DEF ProxyInv, MetadataIsCurrent, Generations, None
  <2>3. /\ held \in CallStates /\ held.pc = "bind" /\ held.op = "tool" /\ held.gen = backend
        /\ (held.auth <=> c \in reads[backend])
        /\ ~held.ran /\ held.why = k.why /\ held.answer = k.answer
    <3>1. proof \in BOOLEAN /\ (proof <=> c \in reads[backend])
      BY <2>2
    <3>. HIDE DEF proof
    <3>2. held \in CallStates
      BY <1>1, <2>1, <3>1 DEF CallStates
    <3>3. /\ held.pc = "bind" /\ held.op = "tool" /\ held.gen = backend /\ held.auth = proof
          /\ held.ran = FALSE /\ held.why = k.why /\ held.answer = k.answer
      BY <1>1, <2>1 DEF CallStates
    <3>. HIDE DEF held
    <3>. QED
      BY <3>1, <3>2, <3>3
  <2>. HIDE DEF held
  <2>4. ProofIsTrue(c)'
    <3>1. call'[c] = held /\ backend <= backend
      BY <1>1, <1>5, <2>1, ProxyAssumption DEF Generations
    <3>. QED
      BY <1>2, <1>5, <2>1, <2>2, <2>3, <3>1 DEF ProofIsTrue
  <2>. QED
    BY <1>1, <1>2, <1>5, <2>3, <2>4, StepThatGoesOn DEF ToolRan
<1>6. ASSUME call' = [call EXCEPT ![c] = listing] PROVE ProxyInv'
  <2>1. /\ Listing(k, "prove") \in CallStates /\ Listing(k, "prove").op = "list"
        /\ Listing(k, "prove").pc = "bind" /\ Listing(k, "prove").why = k.why
        /\ Listing(k, "prove").answer = k.answer
    BY <1>1, ListingIs
  <2>2. /\ listing \in CallStates /\ listing.pc = "bind" /\ listing.op = "list"
        /\ listing.why = k.why /\ listing.answer = k.answer
    BY <2>1 DEF CallStates
  <2>. HIDE DEF listing
  <2>3. ProofIsTrue(c)'
    BY <1>1, <1>6, <2>2 DEF ProofIsTrue, Proved
  <2>. QED
    BY <1>1, <1>2, <1>6, <2>2, <2>3, StepThatGoesOn DEF ToolRan
<1>. QED
  <2>1. \/ call' = [call EXCEPT ![c] = Ended(c, "outcome_unknown")]
        \/ call' = [call EXCEPT ![c] = Ended(c, "rejected")]
        \/ Current /\ ~(k.why = "network" /\ ~proof) /\ call' = [call EXCEPT ![c] = held]
        \/ call' = [call EXCEPT ![c] = listing]
    BY DEF Prove, Becomes
  <2>. QED
    BY <2>1, <1>4, <1>5, <1>6

LEMMA BindKeeps == ASSUME ProxyInv, NEW c \in Calls, Bind(c) PROVE ProxyInv'
<1>. DEFINE k == call[c]
            sends == [k EXCEPT !.pc = "send", !.gen = backend]
            proves == [k EXCEPT !.pc = "prove", !.binds = @ + 1]
<1>1. /\ Types /\ call \in [Calls -> CallStates] /\ k \in CallStates
      /\ k.pc = "bind" /\ ~ToolRan(k) /\ ProofIsTrue(c)
  BY DEF ProxyInv, Types, Good, CallIsSound, Bind
<1>2. UNCHANGED <<backend, reads, retired, dialling, entries, changed, cut, conn, meta>>
  BY DEF Bind, Becomes
<1>3. ASSUME StillBound(k), call' = [call EXCEPT ![c] = sends] PROVE ProxyInv'
  <2>1. backend \in Generations /\ backend \in 0 .. MaxGenerations /\ backend <= backend
    BY <1>1, ProxyAssumption DEF Types, Generations
  <2>2. /\ sends \in CallStates /\ sends.pc = "send" /\ sends.op = k.op /\ sends.gen = backend
        /\ sends.auth = k.auth /\ sends.ran = k.ran /\ sends.why = k.why
        /\ sends.answer = k.answer
    BY <1>1, <2>1 DEF CallStates
  <2>. HIDE DEF sends
  <2>3. call'[c] = sends
    BY <1>1, <1>3
  <2>4. ProofIsTrue(c)'
    <3>. SUFFICES ASSUME k.op = "tool"
                  PROVE  /\ (k.auth <=> c \in reads[backend])
                         /\ k.why = "network" => k.auth
      BY <1>2, <2>1, <2>2, <2>3 DEF ProofIsTrue, Proved
    <3>1. k.gen = backend
      BY <1>3 DEF StillBound
    <3>. QED
      BY <1>1, <3>1 DEF ProofIsTrue, Proved
  <2>. QED
    BY <1>1, <1>2, <1>3, <2>1, <2>2, <2>4, StepThatGoesOn DEF ToolRan
<1>4. ASSUME call' = [call EXCEPT ![c] = Ended(c, "rejected")] PROVE ProxyInv'
  <2>1. c \notin changed /\ "rejected" \in Answers
    BY <1>1, NotRun DEF Answers
  <2>. QED
    BY <1>1, <1>2, <1>4, <2>1, StepThatEnds
<1>5. ASSUME k.binds # 2, call' = [call EXCEPT ![c] = proves] PROVE ProxyInv'
  <2>1. k.binds \in 0 .. 2 /\ k.binds + 1 \in 0 .. 2
    BY <1>1, <1>5 DEF CallStates
  <2>2. /\ proves \in CallStates /\ proves.pc = "prove" /\ proves.op = k.op
        /\ proves.ran = k.ran /\ proves.why = k.why /\ proves.answer = k.answer
    BY <1>1, <2>1 DEF CallStates
  <2>. HIDE DEF proves
  <2>3. ProofIsTrue(c)'
    BY <1>1, <1>5, <2>2 DEF ProofIsTrue, Proved
  <2>. QED
    BY <1>1, <1>2, <1>5, <2>2, <2>3, StepThatGoesOn DEF ToolRan
<1>. QED
  <2>1. \/ StillBound(k) /\ call' = [call EXCEPT ![c] = sends]
        \/ call' = [call EXCEPT ![c] = Ended(c, "rejected")]
        \/ k.binds # 2 /\ call' = [call EXCEPT ![c] = proves]
    BY DEF Bind, Becomes
  <2>. QED
    BY <2>1, <1>3, <1>4, <1>5

LEMMA SendKeeps == ASSUME ProxyInv, NEW c \in Calls, Send(c) PROVE ProxyInv'
<1>. DEFINE k == call[c]
            runs == [k EXCEPT !.pc = "run"]
<1>1. /\ Types /\ call \in [Calls -> CallStates] /\ k \in CallStates
      /\ k.pc = "send" /\ ~ToolRan(k) /\ ProofIsTrue(c) /\ k.gen \in Generations
  BY DEF ProxyInv, Types, Good, CallIsSound, Send
<1>2. UNCHANGED <<backend, reads, retired, dialling, entries, changed, cut, conn, meta>>
  BY DEF Send, Becomes
<1>3. ASSUME call' = [call EXCEPT ![c] = Ended(c, "rejected")] PROVE ProxyInv'
  <2>1. c \notin changed /\ "rejected" \in Answers
    BY <1>1, NotRun DEF Answers
  <2>. QED
    BY <1>1, <1>2, <1>3, <2>1, StepThatEnds
<1>4. ASSUME call' = [call EXCEPT ![c] = runs] PROVE ProxyInv'
  <2>1. /\ runs \in CallStates /\ runs.pc = "run" /\ runs.op = k.op /\ runs.gen = k.gen
        /\ runs.auth = k.auth /\ runs.ran = k.ran /\ runs.why = k.why
        /\ runs.answer = k.answer
    BY <1>1 DEF CallStates
  <2>. HIDE DEF runs
  <2>2. call'[c] = runs
    BY <1>1, <1>4
  <2>3. ProofIsTrue(c)'
    BY <1>1, <1>2, <2>1, <2>2 DEF ProofIsTrue, Proved
  <2>. QED
    BY <1>1, <1>2, <1>4, <2>1, <2>3, StepThatGoesOn DEF ToolRan
<1>. QED
  <2>1. \/ call' = [call EXCEPT ![c] = Ended(c, "rejected")]
        \/ call' = [call EXCEPT ![c] = runs]
    BY DEF Send, Becomes
  <2>. QED
    BY <2>1, <1>3, <1>4

(* The one step that enters a handler: a tool that was not entered before, *)
(* or one that was entered once and is read-only on this connection.       *)
LEMMA ExecuteKeeps == ASSUME ProxyInv, NEW c \in Calls, Execute(c) PROVE ProxyInv'
<1>. DEFINE k == call[c]
            ran == [k EXCEPT !.ran = TRUE]
<1>1. /\ Types /\ call \in [Calls -> CallStates] /\ k \in CallStates /\ k.pc = "run" /\ ~k.ran
      /\ ProofIsTrue(c) /\ CallIsSound(c) /\ HistoryIsTrue(c)
  BY DEF ProxyInv, Types, Good, Execute
<1>2. /\ call' = [call EXCEPT ![c] = ran]
      /\ UNCHANGED <<backend, reads, retired, dialling, cut, conn, meta>>
  BY DEF Execute, Becomes
<1>3. /\ ran \in CallStates /\ ran.pc = "run" /\ ran.op = k.op /\ ran.gen = k.gen
      /\ ran.auth = k.auth /\ ran.ran = TRUE /\ ran.why = k.why /\ ran.answer = k.answer
  BY <1>1 DEF CallStates
<1>. HIDE DEF ran
<1>4. call'[c] = ran
  BY <1>1, <1>2
<1>5. /\ c \notin changed /\ k.answer = "none" /\ k.gen \in Generations
      /\ k.why # "network" => entries[c] = 0
      /\ k.why = "network" => entries[c] <= 1
  BY <1>1, NotRun DEF CallIsSound, ToolRan
<1>6. ProofIsTrue(c)' /\ CallIsSound(c)'
  BY <1>1, <1>2, <1>3, <1>4, <1>5 DEF ProofIsTrue, CallIsSound, Proved
<1>7. entries \in [Calls -> 0 .. 2] /\ entries[c] \in 0 .. 2 /\ entries[c] <= 1
  BY <1>1, <1>5 DEF Types
<1>8. CASE k.op # "tool"
  <2>1. UNCHANGED <<entries, changed>>
    BY <1>8 DEF Execute
  <2>2. Good(c)'
    BY <1>3, <1>4, <1>5, <1>6, <1>8, <2>1 DEF Good, HistoryIsTrue, EndIsTrue, ToolRan
  <2>3. /\ conn' \in [Generations -> {"none", "open", "closed"}]
        /\ dialling' \in {None, backend} /\ entries' \in [Calls -> 0 .. 2]
        /\ changed' \subseteq Calls /\ cut' \subseteq Calls
    BY <1>1, <1>2, <2>1 DEF Types
  <2>. QED
    BY <1>2, <1>3, <2>1, <2>2, <2>3, StepOfOneCall
<1>9. CASE k.op = "tool"
  <2>1. /\ entries' = [entries EXCEPT ![c] = entries[c] + 1]
        /\ changed' = IF c \in reads[k.gen] THEN changed ELSE changed \cup {c}
    BY <1>9 DEF Execute
  <2>2. k.auth <=> c \in reads[k.gen]
    BY <1>1, <1>9 DEF ProofIsTrue, Proved
  <2>3. k.why = "network" => k.auth
    BY <1>1, <1>9 DEF ProofIsTrue, Proved
  <2>4. entries'[c] = entries[c] + 1 /\ entries' \in [Calls -> 0 .. 2]
        /\ \A d \in Calls \ {c} : entries'[d] = entries[d]
    BY <1>7, <2>1
  <2>5. changed' \subseteq Calls /\ \A d \in Calls \ {c} : d \in changed' <=> d \in changed
    BY <1>1, <2>1 DEF Types
  <2>6. c \in changed' <=> ~k.auth
    BY <1>5, <2>1, <2>2
  <2>7. HistoryIsTrue(c)'
    BY <1>3, <1>4, <1>5, <1>7, <1>9, <2>3, <2>4, <2>6 DEF HistoryIsTrue, ToolRan
  <2>8. EndIsTrue(c)'
    BY <1>3, <1>4, <1>5, <2>3, <2>4, <2>6 DEF EndIsTrue
  <2>9. Good(c)'
    BY <1>6, <2>7, <2>8 DEF Good
  <2>10. /\ conn' \in [Generations -> {"none", "open", "closed"}]
         /\ dialling' \in {None, backend} /\ cut' \subseteq Calls
    BY <1>1, <1>2 DEF Types
  <2>. QED
    BY <1>2, <1>3, <2>4, <2>5, <2>9, <2>10, StepOfOneCall
<1>. QED
  BY <1>8, <1>9

LEMMA AnswerKeeps == ASSUME ProxyInv, NEW c \in Calls, Answer(c) PROVE ProxyInv'
<1>. DEFINE k == call[c]
            fresh == [k EXCEPT !.pc = "prove", !.stale = FALSE]
            repeat == [Listing(k, k.goal) EXCEPT !.stale = TRUE]
<1>1. /\ Types /\ call \in [Calls -> CallStates] /\ k \in CallStates /\ k.pc = "run"
      /\ k.goal \in {"expose", "prove"}
  BY DEF ProxyInv, Types, CallStates, Answer
<1>2. /\ UNCHANGED <<backend, reads, retired, dialling, entries, changed, cut>>
      /\ conn' = Drained(call', retired)
  BY DEF Answer, LeaseEnds
<1>3. ASSUME UNCHANGED meta,
             \/ call' = [call EXCEPT ![c] = Ended(c, "result")]
             \/ k.op # "tool" /\ call' = [call EXCEPT ![c] = Ended(c, "rejected")]
      PROVE  ProxyInv'
  <2>1. k.op # "tool" => c \notin changed
    BY <1>1, NotRun DEF ToolRan
  <2>2. "result" \in Answers /\ "rejected" \in Answers
    BY DEF Answers
  <2>. QED
    BY <1>1, <1>2, <1>3, <2>1, <2>2, StepThatEnds
<1>4. ASSUME k.op # "tool", k.gen = backend, call' = [call EXCEPT ![c] = fresh],
             meta' = [gen |-> k.gen, reads |-> reads[k.gen]]
      PROVE  ProxyInv'
  <2>1. /\ fresh \in CallStates /\ fresh.pc = "prove" /\ fresh.op = k.op
        /\ fresh.why = k.why /\ fresh.answer = k.answer
    BY <1>1 DEF CallStates
  <2>. HIDE DEF fresh
  <2>2. ProofIsTrue(c)'
    BY <1>1, <1>4, <2>1 DEF ProofIsTrue, Proved
  <2>. QED
    BY <1>1, <1>2, <1>4, <2>1, <2>2, StepThatGoesOn DEF ToolRan
<1>5. ASSUME k.op # "tool", UNCHANGED meta, call' = [call EXCEPT ![c] = repeat]
      PROVE  ProxyInv'
  <2>1. /\ Listing(k, k.goal) \in CallStates /\ Listing(k, k.goal).op = "list"
        /\ Listing(k, k.goal).pc = "bind" /\ Listing(k, k.goal).why = k.why
        /\ Listing(k, k.goal).answer = k.answer
    BY <1>1, ListingIs
  <2>2. /\ repeat \in CallStates /\ repeat.pc = "bind" /\ repeat.op = "list"
        /\ repeat.why = k.why /\ repeat.answer = k.answer
    BY <2>1 DEF CallStates
  <2>. HIDE DEF repeat
  <2>3. ProofIsTrue(c)'
    BY <1>1, <1>5, <2>2 DEF ProofIsTrue, Proved
  <2>. QED
    BY <1>1, <1>2, <1>5, <2>2, <2>3, StepThatGoesOn DEF ToolRan
<1>. QED
  <2>1. \/ UNCHANGED meta /\ call' = [call EXCEPT ![c] = Ended(c, "result")]
        \/ /\ k.op # "tool" /\ k.gen = backend /\ call' = [call EXCEPT ![c] = fresh]
           /\ meta' = [gen |-> k.gen, reads |-> reads[k.gen]]
        \/ k.op # "tool" /\ UNCHANGED meta /\ call' = [call EXCEPT ![c] = Ended(c, "rejected")]
        \/ k.op # "tool" /\ UNCHANGED meta /\ call' = [call EXCEPT ![c] = repeat]
    BY DEF Answer, LeaseEnds, ListingIsCurrent
  <2>. QED
    BY <2>1, <1>3, <1>4, <1>5

LEMMA RejectKeeps == ASSUME ProxyInv, NEW c \in Calls, Reject(c) PROVE ProxyInv'
<1>1. call[c].pc = "run" /\ ~ToolRan(call[c])
  BY DEF Reject, ToolRan
<1>2. c \notin changed /\ "rejected" \in Answers
  BY <1>1, NotRun DEF Answers
<1>. QED
  BY <1>2, StepThatEnds DEF Reject, LeaseEnds

LEMMA AbandonKeeps == ASSUME ProxyInv, NEW c \in Calls, Abandon(c) PROVE ProxyInv'
<1>1. c \in cut' /\ "rejected" \in Answers /\ call[c].pc # "done"
  BY DEF Abandon, Answers
<1>. QED
  BY <1>1, StepThatEnds DEF Abandon, LeaseEnds

-----------------------------------------------------------------------------
(* Failures and reconnections.                                             *)

Kinds == {"network", "session-invalid"}

(* A lost call whose tool is not in its second execution. *)
LostAtFirst(c, kind) ==
  /\ call[c].pc \in {"run", "reconnect"}
  /\ kind = "session-invalid" => ~call[c].ran
  /\ call[c].op = "tool" => call[c].why = "first"

(* What a call that is given up is told is true of it. *)
LEMMA LostIsTrue ==
  ASSUME ProxyInv, NEW c \in Calls, NEW kind \in Kinds,
         call[c].pc \in {"run", "reconnect"},
         kind = "session-invalid" => ~call[c].ran
  PROVE  /\ Lost(call[c], kind) \in Answers
         /\ c \in changed => Lost(call[c], kind) \notin {"rejected", "unreachable"}
<1>1. Lost(call[c], kind) \in Answers
  BY DEF Lost, Answers
<1>2. ASSUME c \in changed PROVE Lost(call[c], kind) = "outcome_unknown"
  <2>1. ToolRan(call[c]) /\ ~call[c].auth
    BY <1>2 DEF ProxyInv, Good, HistoryIsTrue
  <2>2. kind = "network"
    BY <2>1 DEF ToolRan, Kinds
  <2>. QED
    BY <2>1, <2>2 DEF Lost, ToolRan
<1>. QED
  BY <1>1, <1>2

(* A replay of a listing, of a tool whose handler was not entered, or of a *)
(* tool that is read-only; anything else ends.                             *)
LEMMA ReplayedIs ==
  ASSUME ProxyInv, NEW c \in Calls, NEW kind \in Kinds, LostAtFirst(c, kind),
         call'[c] = Replayed(c, kind), UNCHANGED <<entries, changed, cut>>
  PROVE  Replayed(c, kind) \in CallStates /\ Good(c)'
<1>. DEFINE k == call[c]
            listing == [Listing(k, k.goal) EXCEPT !.again = TRUE, !.lost = "none"]
            tool == [k EXCEPT !.pc = "prove", !.why = kind, !.lost = "none", !.binds = 0,
                              !.ran = FALSE, !.listed = FALSE]
<1>1. /\ Types /\ call \in [Calls -> CallStates] /\ k \in CallStates /\ k.pc # "done"
      /\ k.goal \in {"expose", "prove"} /\ k.op \in {"list", "tool"}
      /\ HistoryIsTrue(c) /\ CallIsSound(c) /\ k.answer = "none"
  BY DEF ProxyInv, Types, CallStates, Good, CallIsSound, LostAtFirst
<1>2. CASE ~MayReplay(k, kind)
  <2>1. Replayed(c, kind) = Ended(c, Lost(k, kind))
    BY <1>2 DEF Replayed
  <2>2. /\ Lost(k, kind) \in Answers
        /\ c \in changed => Lost(k, kind) \notin {"rejected", "unreachable"}
    BY LostIsTrue DEF LostAtFirst
  <2>3. Ended(c, Lost(k, kind)) \in CallStates
    BY <1>1, <2>2, EndedIs
  <2>4. Good(c)'
    BY <1>1, <2>1, <2>2, EndsGood
  <2>. QED
    BY <2>1, <2>3, <2>4
<1>3. CASE MayReplay(k, kind) /\ k.op = "list"
  <2>1. Replayed(c, kind) = listing
    BY <1>3 DEF Replayed
  <2>2. /\ Listing(k, k.goal) \in CallStates /\ Listing(k, k.goal).op = "list"
        /\ Listing(k, k.goal).pc = "bind" /\ Listing(k, k.goal).why = k.why
        /\ Listing(k, k.goal).answer = k.answer
    BY <1>1, ListingIs
  <2>3. /\ listing \in CallStates /\ listing.pc = "bind" /\ listing.op = "list"
        /\ listing.why = k.why /\ listing.answer = k.answer
    BY <2>2 DEF CallStates
  <2>. HIDE DEF listing
  <2>4. ~ToolRan(k) /\ ~ToolRan(listing) /\ ProofIsTrue(c)'
    BY <1>3, <2>1, <2>3 DEF ToolRan, ProofIsTrue, Proved
  <2>5. /\ c \notin changed
        /\ k.why # "network" => entries[c] = 0
        /\ k.why = "network" => entries[c] <= 1
    BY <1>1, <2>4, NotRun
  <2>6. Good(c)'
    BY <1>1, <2>1, <2>3, <2>4, <2>5, GoesOnGood
  <2>. QED
    BY <2>1, <2>3, <2>6
<1>4. CASE MayReplay(k, kind) /\ k.op = "tool"
  <2>1. Replayed(c, kind) = tool
    <3>1. k.op # "list"
      BY <1>4
    <3>. QED
      BY <1>4, <3>1, Zenon DEF Replayed
  <2>2. /\ tool \in CallStates /\ tool.pc = "prove" /\ tool.op = "tool" /\ tool.ran = FALSE
        /\ tool.why = kind /\ tool.answer = k.answer
    <3>1. kind \in {"first", "network", "session-invalid"}
      BY DEF Kinds
    <3>2. tool \in CallStates
      <4>. DEFINE zero == 0
                  first == [k EXCEPT !.binds = zero, !.ran = FALSE]
                  whole == [first EXCEPT !.pc = "prove", !.why = kind, !.lost = "none",
                                         !.listed = FALSE]
      <4>1. tool = whole
        BY Zenon
      <4>2. zero \in 0 .. 2
        OBVIOUS
      <4>. HIDE DEF zero
      <4>3. first \in CallStates
        BY <1>1, <4>2 DEF CallStates
      <4>. HIDE DEF first
      <4>4. whole \in CallStates
        BY <3>1, <4>3 DEF CallStates
      <4>. QED
        BY <4>1, <4>4
    <3>3. /\ tool.pc = "prove" /\ tool.op = k.op /\ tool.ran = FALSE
          /\ tool.why = kind /\ tool.answer = k.answer
      BY <1>1 DEF CallStates
    <3>. QED
      BY <1>4, <3>2, <3>3
  <2>. HIDE DEF tool
  <2>3. ~ToolRan(tool) /\ ProofIsTrue(c)'
    BY <2>1, <2>2 DEF ToolRan, ProofIsTrue, Proved
  <2>4. /\ k.why = "first" /\ entries[c] = IF ToolRan(k) THEN 1 ELSE 0
        /\ c \in changed => ToolRan(k) /\ ~k.auth
    BY <1>1, <1>4 DEF HistoryIsTrue, LostAtFirst
  <2>5. CASE kind = "session-invalid"
    <3>1. ~ToolRan(k)
      BY <2>5 DEF LostAtFirst, ToolRan
    <3>2. Good(c)'
      BY <1>1, <2>1, <2>2, <2>3, <2>4, <2>5, <3>1, GoesOnGood
    <3>. QED
      BY <2>1, <2>2, <3>2
  <2>6. CASE kind = "network"
    <3>1. k.auth
      BY <1>4, <2>6 DEF MayReplay
    <3>2. c \notin changed /\ entries[c] <= 1
      BY <2>4, <3>1
    <3>3. Good(c)'
      BY <1>1, <2>1, <2>2, <2>3, <2>6, <3>2, GoesOnGood
    <3>. QED
      BY <2>1, <2>2, <3>3
  <2>. QED
    BY <2>5, <2>6 DEF Kinds
<1>. QED
  BY <1>1, <1>2, <1>3, <1>4

LEMMA FailKeeps ==
  ASSUME ProxyInv, NEW c \in Calls, NEW kind \in Kinds, Fail(c, kind)
  PROVE  ProxyInv'
<1>. DEFINE k == call[c]
            waits == Waiting(k, kind)
<1>1. /\ Types /\ call \in [Calls -> CallStates] /\ k \in CallStates /\ k.pc = "run"
      /\ k.op \in {"list", "tool"} /\ Good(c)
      /\ kind = "session-invalid" => ~k.ran
  BY DEF ProxyInv, Types, CallStates, Fail
<1>2. /\ UNCHANGED <<backend, reads, retired, meta, entries, changed, cut>>
      /\ conn' = Drained(call', retired)
  BY DEF Fail, LeaseEnds
<1>3. /\ conn' \in [Generations -> {"none", "open", "closed"}]
      /\ entries' \in [Calls -> 0 .. 2] /\ changed' \subseteq Calls /\ cut' \subseteq Calls
  BY <1>1, <1>2, DrainedIs DEF Types
<1>4. CASE SecondExecution(k)
  <2>1. call' = [call EXCEPT ![c] = Ended(c, Lost(k, kind))] /\ UNCHANGED dialling
    BY <1>4 DEF Fail, LeaseEnds
  <2>2. /\ Lost(k, kind) \in Answers
        /\ c \in changed => Lost(k, kind) \notin {"rejected", "unreachable"}
    BY <1>1, LostIsTrue
  <2>. QED
    BY <1>1, <1>2, <2>1, <2>2, StepThatEnds
<1>5. CASE ~SecondExecution(k)
  <2>1. LostAtFirst(c, kind)
    BY <1>1, <1>5 DEF LostAtFirst, SecondExecution
  <2>2. CASE backend # k.gen
    <3>1. call' = [call EXCEPT ![c] = Replayed(c, kind)] /\ UNCHANGED dialling
      BY <1>5, <2>2 DEF Fail, LeaseEnds
    <3>2. call'[c] = Replayed(c, kind)
      BY <1>1, <3>1
    <3>3. Replayed(c, kind) \in CallStates /\ Good(c)'
      BY <1>2, <2>1, <3>2, ReplayedIs
    <3>4. dialling' \in {None, backend}
      BY <1>1, <3>1 DEF Types
    <3>. QED
      BY <1>2, <1>3, <3>1, <3>3, <3>4, StepOfOneCall
  <2>3. CASE backend = k.gen
    <3>1. call' = [call EXCEPT ![c] = waits] /\ dialling' = backend
      BY <1>5, <2>3 DEF Fail, LeaseEnds
    <3>2. /\ waits \in CallStates /\ waits.pc = "reconnect" /\ waits.lost = kind
          /\ waits.op = k.op /\ waits.gen = k.gen /\ waits.auth = k.auth
          /\ waits.ran = k.ran /\ waits.why = k.why /\ waits.answer = k.answer
      BY <1>1 DEF CallStates, Waiting, Kinds
    <3>. HIDE DEF waits
    <3>3. call'[c] = waits
      BY <1>1, <3>1
    <3>4. ProofIsTrue(c)'
      BY <1>1, <1>2, <3>2, <3>3 DEF Good, ProofIsTrue, Proved
    <3>5. CallIsSound(c)'
      BY <1>1, <2>1, <3>2, <3>3 DEF Good, CallIsSound, LostAtFirst, ToolRan, Kinds
    <3>6. HistoryIsTrue(c)' /\ EndIsTrue(c)'
      BY <1>1, <1>2, <3>2, <3>3 DEF Good, HistoryIsTrue, EndIsTrue, ToolRan
    <3>7. Good(c)'
      BY <3>4, <3>5, <3>6 DEF Good
    <3>. QED
      BY <1>2, <1>3, <3>1, <3>2, <3>7, StepOfOneCall
  <2>. QED
    BY <2>2, <2>3
<1>. QED
  BY <1>4, <1>5

(* What a waiting call waits for. *)
LEMMA WaiterIs ==
  ASSUME ProxyInv, NEW w \in Waiters
  PROVE  w \in Calls /\ call[w].lost \in Kinds /\ LostAtFirst(w, call[w].lost)
<1>1. w \in Calls /\ call[w].pc = "reconnect" /\ call[w] \in CallStates /\ CallIsSound(w)
  BY DEF Waiters, ProxyInv, Types, Good
<1>2. call[w].lost \in Kinds
  BY <1>1 DEF CallStates, CallIsSound, Kinds
<1>. QED
  BY <1>1, <1>2 DEF CallIsSound, LostAtFirst

LEMMA ReconnectedKeeps == ASSUME ProxyInv, Reconnected PROVE ProxyInv'
<1>1. Types /\ \A c \in Calls : Good(c)
  BY DEF ProxyInv
<1>2. /\ backend' = backend + 1 /\ backend < MaxGenerations /\ dialling = backend
      /\ meta' = NoMeta /\ retired' = retired \cup {dialling} /\ dialling' = None
      /\ UNCHANGED <<entries, changed, cut>>
  BY <1>1 DEF Reconnected, Types, MetaAfterSwap, RetiredWith
<1>3. backend' \in Generations /\ backend <= backend' /\ backend \in Generations
      /\ \A g \in Generations : g <= backend => g # backend'
  BY <1>1, <1>2, ProxyAssumption DEF Types, Generations
<1>4. /\ reads' \in [Generations -> SUBSET Calls]
      /\ \A g \in Generations : g <= backend => reads'[g] = reads[g]
  <2>1. PICK R \in Annotations : reads' = [reads EXCEPT ![backend'] = R]
    BY DEF Reconnected
  <2>2. R \in SUBSET Calls
    BY <2>1, ProxyAssumption
  <2>. QED
    BY <1>1, <1>3, <2>1, <2>2 DEF Types
<1>5. call' = [c \in Calls |->
                 IF c \in Waiters THEN Replayed(c, call[c].lost) ELSE call[c]]
  BY DEF Reconnected
<1>6. ASSUME NEW c \in Calls PROVE call'[c] \in CallStates /\ Good(c)'
  <2>1. CASE c \in Waiters
    <3>1. call[c].lost \in Kinds /\ LostAtFirst(c, call[c].lost)
      BY <2>1, WaiterIs
    <3>2. call'[c] = Replayed(c, call[c].lost)
      BY <1>5, <2>1
    <3>. QED
      BY <1>2, <3>1, <3>2, ReplayedIs
  <2>2. CASE c \notin Waiters
    <3>1. call'[c] = call[c] /\ call[c] \in CallStates
      BY <1>1, <1>5, <2>2 DEF Types
    <3>. QED
      BY <1>2, <1>3, <1>4, <3>1, Untouched
  <2>. QED
    BY <2>1, <2>2
<1>7. call' \in [Calls -> CallStates]
  BY <1>5, <1>6
<1>8. conn' \in [Generations -> {"none", "open", "closed"}]
  <2>1. Drained(call', retired') \in [Generations -> {"none", "open", "closed"}]
    BY <1>1, DrainedIs
  <2>2. conn' = [Drained(call', retired') EXCEPT ![backend'] = "open"]
    BY DEF Reconnected
  <2>. QED
    BY <2>1, <2>2
<1>9. meta' \in [gen : 0 .. MaxGenerations, reads : SUBSET Calls] /\ meta'.gen = None
  BY <1>2, ProxyAssumption DEF NoMeta, None
<1>10. Types'
  BY <1>1, <1>2, <1>3, <1>4, <1>7, <1>8, <1>9 DEF Types
<1>11. MetadataIsCurrent'
  BY <1>9 DEF MetadataIsCurrent
<1>. QED
  BY <1>6, <1>10, <1>11 DEF ProxyInv

LEMMA ReconnectFailsKeeps == ASSUME ProxyInv, ReconnectFails PROVE ProxyInv'
<1>1. Types /\ MetadataIsCurrent
  BY DEF ProxyInv
<1>2. UNCHANGED <<backend, conn, retired, reads, meta, entries, changed, cut>>
      /\ dialling' = None
  BY DEF ReconnectFails
<1>3. call' = [c \in Calls |-> IF c \in Waiters THEN GivenUp(c) ELSE call[c]]
  BY DEF ReconnectFails
<1>4. ASSUME NEW c \in Calls PROVE call'[c] \in CallStates /\ Good(c)'
  <2>0. call[c] \in CallStates
    BY <1>1 DEF Types
  <2>1. CASE c \in Waiters
    <3>. DEFINE a == Lost(call[c], call[c].lost)
    <3>1. call[c].lost \in Kinds /\ LostAtFirst(c, call[c].lost)
      BY <2>1, WaiterIs
    <3>2. a \in Answers /\ (c \in changed => a \notin {"rejected", "unreachable"})
      BY <3>1, LostIsTrue DEF LostAtFirst
    <3>3. call'[c] = Ended(c, a)
      BY <1>3, <2>1 DEF GivenUp
    <3>. HIDE DEF a
    <3>4. Ended(c, a) \in CallStates
      BY <2>0, <3>2, EndedIs
    <3>5. call[c].pc # "done"
      BY <2>1 DEF Waiters
    <3>. QED
      BY <1>2, <3>2, <3>3, <3>4, <3>5, EndsGood
  <2>2. CASE c \notin Waiters
    <3>1. call'[c] = call[c]
      BY <1>3, <2>2
    <3>2. backend' \in Generations /\ backend <= backend'
      BY <1>1, <1>2, ProxyAssumption DEF Types, Generations
    <3>. QED
      BY <1>2, <2>0, <3>1, <3>2, Untouched
  <2>. QED
    BY <2>1, <2>2
<1>5. call' \in [Calls -> CallStates]
  BY <1>3, <1>4
<1>6. Types' /\ MetadataIsCurrent'
  BY <1>1, <1>2, <1>5 DEF Types, MetadataIsCurrent, Current
<1>. QED
  BY <1>4, <1>6 DEF ProxyInv

LEMMA DrainTimeoutKeeps ==
  ASSUME ProxyInv, NEW g \in Generations, DrainTimeout(g)
  PROVE  ProxyInv'
<1>1. Types /\ MetadataIsCurrent
  BY DEF ProxyInv
<1>2. /\ UNCHANGED <<backend, retired, reads, meta, dialling, call, entries, changed, cut>>
      /\ conn' = [conn EXCEPT ![g] = "closed"]
  BY DEF DrainTimeout
<1>3. backend' \in Generations /\ backend <= backend'
  BY <1>1, <1>2, ProxyAssumption DEF Types, Generations
<1>4. \A d \in Calls : Good(d)'
  BY <1>2, <1>3, Untouched
<1>5. Types' /\ MetadataIsCurrent'
  BY <1>1, <1>2 DEF Types, MetadataIsCurrent, Current
<1>. QED
  BY <1>4, <1>5 DEF ProxyInv

LEMMA StutterKeeps == ASSUME ProxyInv, UNCHANGED vars PROVE ProxyInv'
<1>1. Types' /\ MetadataIsCurrent'
  BY DEF ProxyInv, vars, Types, MetadataIsCurrent, Current
<1>2. backend' \in Generations /\ backend <= backend'
  BY ProxyAssumption DEF ProxyInv, vars, Types, Generations
<1>3. \A d \in Calls : Good(d)'
  BY <1>2, Untouched DEF vars
<1>. QED
  BY <1>1, <1>3 DEF ProxyInv

-----------------------------------------------------------------------------
LEMMA InitInv == ASSUME Init PROVE ProxyInv
<1>1. 1 \in Generations /\ NewCall \in CallStates
  BY ProxyAssumption, NewCallIsCallState DEF Generations
<1>2. PICK R \in Annotations : reads = [g \in Generations |-> IF g = 1 THEN R ELSE {}]
  BY DEF Init
<1>3. R \in SUBSET Calls
  BY <1>2, ProxyAssumption
<1>4. meta \in [gen : 0 .. MaxGenerations, reads : SUBSET Calls] /\ meta.gen = None
  BY ProxyAssumption DEF Init, NoMeta, None
<1>5. Types
  BY <1>1, <1>2, <1>3, <1>4 DEF Init, Types
<1>6. MetadataIsCurrent
  BY <1>4 DEF MetadataIsCurrent
<1>7. ASSUME NEW c \in Calls PROVE Good(c)
  <2>1. call[c] = NewCall /\ entries[c] = 0 /\ c \notin changed
    BY DEF Init
  <2>2. NewCall.pc = "new" /\ ~NewCall.ran /\ NewCall.answer = "none" /\ NewCall.why = "first"
    BY DEF NewCall
  <2>. QED
    BY <2>1, <2>2
    DEF Good, ProofIsTrue, Proved, CallIsSound, HistoryIsTrue, EndIsTrue, ToolRan
<1>. QED
  BY <1>5, <1>6, <1>7 DEF ProxyInv

LEMMA NextInv == ASSUME ProxyInv, [Next]_vars PROVE ProxyInv'
<1>1. ASSUME NEW c \in Calls, Arrive(c) \/ Prove(c) \/ Bind(c) \/ Send(c) PROVE ProxyInv'
  BY <1>1, ArriveKeeps, ProveKeeps, BindKeeps, SendKeeps
<1>2. ASSUME NEW c \in Calls, Execute(c) \/ Answer(c) \/ Reject(c) \/ Abandon(c) PROVE ProxyInv'
  BY <1>2, ExecuteKeeps, AnswerKeeps, RejectKeeps, AbandonKeeps
<1>3. ASSUME NEW c \in Calls, NEW kind \in Kinds, Fail(c, kind) PROVE ProxyInv'
  BY <1>3, FailKeeps
<1>4. ASSUME NEW g \in Generations, DrainTimeout(g) PROVE ProxyInv'
  BY <1>4, DrainTimeoutKeeps
<1>. QED
  BY <1>1, <1>2, <1>3, <1>4, ReconnectedKeeps, ReconnectFailsKeeps, StutterKeeps
  DEF Next, Kinds

(* The inductive invariant, for any number of calls and generations. *)
THEOREM ProxyInvariant == Spec => []ProxyInv
<1>1. Init => ProxyInv
  BY InitInv
<1>2. ProxyInv /\ [Next]_vars => ProxyInv'
  BY NextInv
<1>. QED
  BY <1>1, <1>2, PTL DEF Spec

(* Every variable keeps its type; a tool is never entered a third time.    *)
THEOREM ProxyIsTyped == Spec => []TypeOK
<1>1. ProxyInv => TypeOK
  BY ProxyAssumption DEF ProxyInv, Types, TypeOK, Generations, None
<1>. QED
  BY <1>1, ProxyInvariant, PTL

(* However many connections fail and however the builds behind them        *)
(* disagree on what is read-only, a call that changed something was sent   *)
(* once.                                                                   *)
THEOREM NoMutationIsReplayed == Spec => []MutationIsNotReplayed
<1>1. ProxyInv => MutationIsNotReplayed
  BY DEF ProxyInv, Types, MutationIsNotReplayed, Good, EndIsTrue
<1>. QED
  BY <1>1, ProxyInvariant, PTL

(* A caller who is told that its call was rejected or that the backend was *)
(* out of reach can rely on it: always of a governed apply, and of a    *)
(* direct mutation unless the proxy abandoned its request.                 *)
THEOREM CallersAreToldTheTruth == Spec => []OutcomeIsHonest
<1>1. ProxyInv => OutcomeIsHonest
  BY DEF ProxyInv, Types, OutcomeIsHonest, Good, EndIsTrue
<1>. QED
  BY <1>1, ProxyInvariant, PTL

(* The annotations by which replays are decided are of the connection in   *)
(* use.                                                                    *)
THEOREM MetadataStaysCurrent == Spec => []MetadataIsCurrent
<1>1. ProxyInv => MetadataIsCurrent
  BY DEF ProxyInv
<1>. QED
  BY <1>1, ProxyInvariant, PTL

-----------------------------------------------------------------------------
(* Connections.                                                            *)

(* Every connection that was replaced is retired, and an open one among    *)
(* them still has a call running on it.                                    *)
DrainInv ==
  /\ retired = {g \in Generations : g < backend}
  /\ \A g \in retired : conn[g] = "open" => InFlight(g, call) # {}
  /\ \A g \in Generations : g > backend => conn[g] = "none"

(* No call that runs stops running, and no connection changes.             *)
LEMMA NoLeaseEnds ==
  ASSUME DrainInv, UNCHANGED <<backend, conn, retired>>,
         \A d \in Calls : call[d].pc = "run" => call'[d].pc = "run" /\ call'[d].gen = call[d].gen
  PROVE  DrainInv'
<1>1. ASSUME NEW g \in Generations PROVE InFlight(g, call) \subseteq InFlight(g, call')
  BY DEF InFlight
<1>. QED
  BY <1>1 DEF DrainInv

(* A lease ends: its connection is closed if it is the last of a retired   *)
(* one.                                                                    *)
LEMMA LeaseEndsDrains ==
  ASSUME Types, DrainInv, UNCHANGED <<backend, retired>>, conn' = Drained(call', retired)
  PROVE  DrainInv'
<1>1. ASSUME NEW g \in retired, conn'[g] = "open" PROVE InFlight(g, call') # {}
  BY <1>1 DEF Drained, Types
<1>2. ASSUME NEW g \in Generations, g > backend PROVE conn'[g] = "none"
  BY <1>2 DEF Drained, DrainInv, Types
<1>. QED
  BY <1>1, <1>2 DEF DrainInv

LEMMA InitDrain == ASSUME Init PROVE DrainInv
<1>1. backend = 1 /\ retired = {} /\ conn = [g \in Generations |-> IF g = 1 THEN "open" ELSE "none"]
  BY DEF Init
<1>. QED
  BY <1>1, ProxyAssumption DEF DrainInv, Generations

LEMMA NextDrain == ASSUME ProxyInv, DrainInv, [Next]_vars PROVE DrainInv'
<1>1. Types /\ call \in [Calls -> CallStates]
  BY DEF ProxyInv, Types
<1>2. ASSUME NEW c \in Calls, Arrive(c) \/ Prove(c) \/ Bind(c) \/ Send(c) PROVE DrainInv'
  <2>1. call[c].pc # "run" /\ UNCHANGED <<backend, conn, retired>>
    BY <1>2 DEF Arrive, Prove, Bind, Send, Becomes
  <2>2. PICK state : call' = [call EXCEPT ![c] = state]
    BY <1>2 DEF Arrive, Prove, Bind, Send, Becomes
  <2>3. \A d \in Calls : call[d].pc = "run" => call'[d] = call[d]
    BY <1>1, <2>1, <2>2
  <2>. QED
    BY <2>1, <2>3, NoLeaseEnds
<1>3. ASSUME NEW c \in Calls, Execute(c) PROVE DrainInv'
  <2>1. /\ call' = [call EXCEPT ![c] = [call[c] EXCEPT !.ran = TRUE]]
        /\ UNCHANGED <<backend, conn, retired>>
    BY <1>3 DEF Execute, Becomes
  <2>2. call[c] \in CallStates
    BY <1>1
  <2>3. \A d \in Calls : call[d].pc = "run" => call'[d].pc = "run" /\ call'[d].gen = call[d].gen
    BY <1>1, <2>1, <2>2 DEF CallStates
  <2>. QED
    BY <2>1, <2>3, NoLeaseEnds
<1>4. ASSUME NEW c \in Calls, Answer(c) \/ Reject(c) \/ Abandon(c) PROVE DrainInv'
  BY <1>1, <1>4, LeaseEndsDrains DEF Answer, Reject, Abandon, LeaseEnds
<1>5. ASSUME NEW c \in Calls, NEW kind \in Kinds, Fail(c, kind) PROVE DrainInv'
  BY <1>1, <1>5, LeaseEndsDrains DEF Fail, LeaseEnds
<1>6. ASSUME NEW h \in Generations, DrainTimeout(h) PROVE DrainInv'
  <2>1. /\ UNCHANGED <<backend, retired, call>> /\ h \in retired
        /\ conn' = [conn EXCEPT ![h] = "closed"]
    BY <1>6 DEF DrainTimeout
  <2>2. \A g \in Generations : g # h => conn'[g] = conn[g]
    BY <1>1, <2>1 DEF Types
  <2>3. conn'[h] = "closed"
    BY <1>1, <2>1 DEF Types
  <2>4. h < backend /\ h \in Generations
    BY <2>1 DEF DrainInv
  <2>5. ASSUME NEW g \in retired, conn'[g] = "open" PROVE InFlight(g, call') # {}
    BY <2>1, <2>2, <2>3, <2>5 DEF DrainInv, InFlight
  <2>6. ASSUME NEW g \in Generations, g > backend PROVE conn'[g] = "none"
    BY <1>1, <2>2, <2>4, <2>6, ProxyAssumption DEF DrainInv, Types, Generations
  <2>. QED
    BY <2>1, <2>5, <2>6 DEF DrainInv
<1>7. ASSUME Reconnected PROVE DrainInv'
  <2>1. /\ backend' = backend + 1 /\ dialling = backend /\ retired' = retired \cup {backend}
        /\ conn' = [Drained(call', retired') EXCEPT ![backend'] = "open"]
        /\ backend < MaxGenerations
    BY <1>1, <1>7 DEF Reconnected, Types, RetiredWith
  <2>2. backend \in Generations /\ backend \in Nat /\ backend' \in Generations
    BY <1>1, <2>1, ProxyAssumption DEF Types, Generations
  <2>3. retired' = {g \in Generations : g < backend'}
    BY <2>1, <2>2, ProxyAssumption DEF DrainInv, Generations
  <2>4. \A g \in Generations : g # backend' => conn'[g] = Drained(call', retired')[g]
    BY <2>1 DEF Drained
  <2>5. ASSUME NEW g \in retired', conn'[g] = "open" PROVE InFlight(g, call') # {}
    <3>1. g \in Generations /\ g # backend'
      BY <2>2, <2>3, ProxyAssumption DEF Generations
    <3>2. Drained(call', retired')[g] = "open"
      BY <2>4, <2>5, <3>1
    <3>. QED
      BY <2>5, <3>1, <3>2 DEF Drained
  <2>6. ASSUME NEW g \in Generations, g > backend' PROVE conn'[g] = "none"
    <3>1. g # backend' /\ g > backend
      BY <2>1, <2>2, <2>6, ProxyAssumption DEF Generations
    <3>2. conn[g] = "none"
      BY <3>1 DEF DrainInv
    <3>3. Drained(call', retired')[g] = "none"
      BY <3>2 DEF Drained
    <3>. QED
      BY <2>4, <3>1, <3>3
  <2>. QED
    BY <2>3, <2>5, <2>6 DEF DrainInv
<1>8. ASSUME ReconnectFails PROVE DrainInv'
  <2>1. /\ UNCHANGED <<backend, conn, retired>>
        /\ call' = [c \in Calls |-> IF c \in Waiters THEN GivenUp(c) ELSE call[c]]
    BY <1>8 DEF ReconnectFails
  <2>2. \A d \in Calls : call[d].pc = "run" => call'[d] = call[d]
    BY <2>1 DEF Waiters
  <2>. QED
    BY <2>1, <2>2, NoLeaseEnds
<1>9. ASSUME UNCHANGED vars PROVE DrainInv'
  BY <1>9, NoLeaseEnds DEF vars
<1>. QED
  BY <1>2, <1>3, <1>4, <1>5, <1>6, <1>7, <1>8, <1>9 DEF Next, Kinds

(* No replaced connection leaks, after any sequence of reconnections.      *)
THEOREM NoConnectionLeaks == Spec => []ReplacedIsDraining
<1>1. Init => DrainInv
  BY InitDrain
<1>2. ProxyInv /\ DrainInv /\ [Next]_vars => DrainInv'
  BY NextDrain
<1>3. ProxyInv /\ DrainInv => ReplacedIsDraining
  <2>. SUFFICES ASSUME ProxyInv, DrainInv, NEW g \in Generations \ {backend}, conn[g] = "open"
                PROVE  g \in retired /\ InFlight(g, call) # {}
    BY DEF ReplacedIsDraining
  <2>1. g < backend
    BY ProxyAssumption DEF ProxyInv, Types, DrainInv, Generations
  <2>. QED
    BY <2>1 DEF DrainInv
<1>. QED
  BY <1>1, <1>2, <1>3, ProxyInvariant, PTL DEF Spec

=============================================================================
