--------------------------- MODULE MCGuardPipeline ---------------------------
(* Instances of GuardPipeline: secret is denied, other matches no pattern. *)
EXTENDS GuardPipeline

CONSTANTS secret, other
MCKeys == {secret, other}
MCDeny == {secret}
=============================================================================
