----------------------------- MODULE AccountsMC -----------------------------
(* Instances of Accounts for TLC *)
EXTENDS Accounts, TLC

CONSTANTS e1, e2, g1, a0, a1, a2, b0, nobody

OneEmail == {e1}
TwoEmails == {e1, e2}
OneGithub == {g1}
AllAddresses == {a0, a1, a2, b0}

(* addresses to sign up with: a0 is taken, a1 and a2 are new *)
OldAndNew == {a0, a1}
OnlyNew == {a1, a2}
OneNew == {a1}

(* the users at the start, who refer others; a0 has one reward, for b0 *)
BothOld == {a0, b0}
Rewarded == <<a0, b0>>
=============================================================================
