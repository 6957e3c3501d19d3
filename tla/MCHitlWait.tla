----------------------------- MODULE MCHitlWait -----------------------------
(***************************************************************************)
(* One page whose worker may ask for help MCBudget times.  With two rounds *)
(* a recovery loop pauses the page a second time; with two verifier calls  *)
(* the verifier can see the challenge and then fail to, and its budget can *)
(* be spent; two polls and one retry reach every branch of a confirmation. *)
(***************************************************************************)
EXTENDS HitlWait

MCBudget == 2
MCMaxRounds == 2
MCMaxCalls == 2
MCMaxPolls == 2
MCMaxTries == 1
=============================================================================
