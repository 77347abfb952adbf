------------------------------ MODULE MCAccess ------------------------------
(***************************************************************************)
(* Small instances of what lets a call in or out: the OAuth token provider,*)
(* the key set and the verification of calls.                              *)
(*                                                                         *)
(* A behaviour is one of one part, chosen at the beginning: the parts share*)
(* no state, and the variables of the others stay as they begin.  p1 and p2*)
(* are whoever acts, s1 and s2 the flights of a token.                     *)
(***************************************************************************)
EXTENDS TokenProvider, KeySet, CallVerification, TLC

CONSTANTS Part, p1, p2, s1, s2

VARIABLE part

-----------------------------------------------------------------------------
(* Values of the constants. *)
Question(limit, cursor, query, values) ==
  [limit |-> limit, cursor |-> cursor, query |-> query, values |-> values]
Questions == {Question(-1, "none", TRUE, -1), Question(1, "set", FALSE, -1),
              Question(-1, "none", FALSE, 1), Question(2, "none", FALSE, -1),
              Question(-1, "none", TRUE, 1)}

AccessSymmetry == {f @@ g : f \in Permutations({p1, p2}), g \in Permutations({s1, s2})}

-----------------------------------------------------------------------------
AccessInit ==
  /\ part \in Part
  /\ ProviderInit /\ KeySetInit /\ VerificationInit
  \* A part that rests begins in one state.
  /\ part # "keys" => published = {CHOOSE k \in Kid : TRUE}
  /\ part # "deliveries" => offset = 0

AccessNext ==
  \/ part = "tokens" /\ ProviderNext /\ UNCHANGED <<part, keySetVars, verificationVars>>
  \/ part = "keys" /\ KeySetNext /\ UNCHANGED <<part, providerVars, verificationVars>>
  \/ part = "deliveries" /\ VerificationNext /\ UNCHANGED <<part, providerVars, keySetVars>>

accessVars == <<part, providerVars, keySetVars, verificationVars>>

AccessSpec == AccessInit /\ [][AccessNext]_accessVars
=============================================================================
