---------------------------- MODULE MCAlertDecision ----------------------------
EXTENDS AlertDecision

\* Two trades of one wallet, the second a second later and larger; a third one of
\* another wallet, from before the lifecycle gate opened.
MCWallet    == <<"a", "a", "b">>
MCNotional  == <<1, 2, 2>>
MCAt        == <<0, 1, 1>>
MCGrade     == <<1, 1, 3>>
MCBaselines == {[ready |-> TRUE, tail |-> 2]}

\* A line of one trade may be told, one of two may be critical.
MCLineMin   == <<1, 2, 2>>
MCFloor     == <<0, 1, 2>>
MCMinProfit == <<1, 3, 3>>
MCShare     == <<10, 50, 75>>
================================================================================
