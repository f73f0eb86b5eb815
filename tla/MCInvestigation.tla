-------------------------- MODULE MCInvestigation --------------------------
(***************************************************************************)
(* Two functions, a card of one, a slice of the other with a limit         *)
(* boundary that occurs twice and a call boundary, and a slice that failed.*)
(***************************************************************************)
EXTENDS Investigation

CONSTANTS card, slice, failed, f, g

MCRequired == {{}, {"card", "ssa-slice"}}
MCRecords == {card, slice, failed}
MCKind == [r \in MCRecords |-> IF r = card THEN "card" ELSE "ssa-slice"]
MCFunc == [r \in MCRecords |-> IF r = card THEN g ELSE f]
MCFailed == {failed}
AtLimit == [function |-> f, limit |-> TRUE]
AtCall == [function |-> g, limit |-> FALSE]
MCNodes == [r \in MCRecords |->
  IF r = slice THEN <<AtLimit, NoBoundary, AtCall, AtLimit>> ELSE <<>>]
=============================================================================
