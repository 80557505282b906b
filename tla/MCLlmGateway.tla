---------------------------- MODULE MCLlmGateway ----------------------------
(* An article with a name, which no pattern knows, and an injection hidden  *)
(* from the patterns, and one with a number and an injection that is found; *)
(* the text of the second claim has a number too.                           *)
EXTENDS LlmGateway

CONSTANTS c1, c2

MCClaims == {c1, c2}
MCIdentifiers == {"card_number", "name"}
MCCarries == [c \in MCClaims |-> IF c = c2 THEN {"card_number"} ELSE {}]
MCArticles ==
  { [identifiers |-> {"name"}, phrases |-> {[asks |-> "verdict", hidden |-> "spaced"]},
     alleges |-> {c1}],
    [identifiers |-> {"card_number", "name"}, phrases |-> {[asks |-> "field", hidden |-> "zero_width"]},
     alleges |-> {c1, c2}] }
=============================================================================
