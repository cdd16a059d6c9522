---------------------------- MODULE MCWebClient ----------------------------
(* Two calls of one account, one whose client reports and checks the most *)
(* and one whose client does neither; or one call and two accounts.        *)
EXTENDS WebClient

CONSTANTS c1, c2

MCMethod == [c \in Calls |-> IF c = c1 THEN "supply" ELSE "liquidate"]
============================================================================
