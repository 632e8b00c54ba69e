--------------------------- MODULE WebsocketHubMC ---------------------------
(* Instances of WebsocketHub for TLC *)
EXTENDS WebsocketHub, TLC

CONSTANTS k1, k2, a, b

TwoClients == {k1, k2}
OneMessage == {a}
TwoMessages == {a, b}
=============================================================================
