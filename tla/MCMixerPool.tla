----------------------------- MODULE MCMixerPool -----------------------------
(* An instance of MixerPool for TLC. *)
EXTENDS MixerPool, TLC

CONSTANTS n1, n2, n3, x, y, user, relay

\* Two notes of one holder share a nullifier, the third has its own.
MCNullifierOf == n1 :> x @@ n2 :> x @@ n3 :> y

Ask(recipient, relayer, feeField) ==
    [recipient |-> recipient, relayer |-> relayer, feeField |-> feeField]

\* An ordinary fee, a fee that is 1 only after truncation to U64, no fee with
\* the relayer as recipient, and a recipient that is the pool by mistake.
MCTerms == {Ask(user, relay, 1), Ask(user, relay, 5), Ask(relay, relay, 0),
            Ask(Pool, relay, 1)}
==============================================================================
