---------------------------- MODULE FenceContract ----------------------------
(***************************************************************************)
(* What the Bridge's effect fence promises to the MCP side, with nothing   *)
(* of how it keeps the promise.                                            *)
(*                                                                         *)
(* A token passes the effect point at most once, only while its own epoch  *)
(* is live, and never once it is barred: by a revocation, or because its   *)
(* epoch was retired before the token got there.  EffectFence implements   *)
(* this contract; GovernedWrite relies on it.                              *)
(***************************************************************************)
EXTENDS WriteAttempts

VARIABLES
  live,       \* the epoch the loaded fence accepts, or NoEpoch
  issued,     \* epochs issued so far; an epoch is never issued twice
  entered,    \* tokens that passed the effect point
  running,    \* tokens whose effect started and has not settled
  barred      \* tokens that can no longer pass the effect point

fenceVars == <<live, issued, entered, running, barred>>

FenceTypeOK ==
  /\ live \in Epochs \cup {NoEpoch}
  /\ issued \subseteq Epochs
  /\ entered \subseteq Tokens
  /\ running \subseteq Tokens
  /\ barred \subseteq Tokens

FenceInit ==
  /\ live \in Epochs \cup {NoEpoch}
  /\ issued = {live} \ {NoEpoch}
  /\ entered = {}
  /\ running = {}
  /\ barred = {}

-----------------------------------------------------------------------------
(* The tokens of an epoch that will never enter once that epoch is retired. *)
Unspent(e) == {t \in Tokens : t[1] = e} \ entered

(* The token can neither start an effect nor have one under way. *)
Dead(t) ==
  /\ t \notin running
  /\ t \in entered \/ t \in barred \/ (t[1] \in issued /\ t[1] # live)

Admits(t) == t[1] = live /\ t \notin entered /\ t \notin barred

Enter(t) ==
  /\ Admits(t)
  /\ entered' = entered \cup {t}
  /\ running' = running \cup {t}
  /\ UNCHANGED <<live, issued, barred>>

(* The fence reached its attempt bound: it closes the epoch in the same    *)
(* synchronous step that admits the token, and opens the next one.         *)
EnterAndRotate(t, e) ==
  /\ Admits(t)
  /\ e \notin issued
  /\ entered' = entered \cup {t}
  /\ running' = running \cup {t}
  /\ barred' = barred \cup (Unspent(live) \ {t})
  /\ live' = e
  /\ issued' = issued \cup {e}

Settle(t) ==
  /\ t \in running
  /\ running' = running \ {t}
  /\ UNCHANGED <<live, issued, entered, barred>>

(* Revocation of a set of tokens in one synchronous request. *)
Revoke(T) ==
  /\ barred' = barred \cup (T \ entered)
  /\ UNCHANGED <<live, issued, entered, running>>

(* The plugin is unloaded. *)
Retire ==
  /\ live # NoEpoch
  /\ barred' = barred \cup Unspent(live)
  /\ live' = NoEpoch
  /\ UNCHANGED <<issued, entered, running>>

(* The plugin is loaded and issues a fresh epoch. *)
Issue(e) ==
  /\ live = NoEpoch
  /\ e \notin issued
  /\ live' = e
  /\ issued' = issued \cup {e}
  /\ UNCHANGED <<entered, running, barred>>

(* The application quits: the realm and every pending handler are gone. *)
QuitRealm ==
  /\ barred' = barred \cup Unspent(live)
  /\ live' = NoEpoch
  /\ running' = {}
  /\ UNCHANGED <<issued, entered>>

FenceNext ==
  \/ \E t \in Tokens : Enter(t) \/ Settle(t)
  \/ \E t \in Tokens, e \in Epochs : EnterAndRotate(t, e)
  \/ \E T \in SUBSET Tokens : Revoke(T)
  \/ \E e \in Epochs : Issue(e)
  \/ Retire
  \/ QuitRealm

FenceSpec == FenceInit /\ [][FenceNext]_fenceVars

=============================================================================
