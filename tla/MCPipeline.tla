------------------------------- MODULE MCPipeline -------------------------------
(***************************************************************************)
(* Pipeline for TLC: three families of rules, seven reports of veraPDF and *)
(* the counts of tags at which a regression is judged.                     *)
(***************************************************************************)
EXTENDS Pipeline

MCRule == {"dicts", "unicode", "other"}
MCVerdict ==
  LET V(done, d, u, o, w) ==
        [done |-> done, errors |-> [dicts |-> d, unicode |-> u, other |-> o], warnings |-> w]
  IN {V(TRUE, 0, 0, 0, 0), V(TRUE, 0, 1, 0, 0), V(TRUE, 0, 2, 0, 0), V(TRUE, 0, 1, 0, 1),
      V(TRUE, 1, 1, 0, 0), V(TRUE, 0, 0, 1, 0), V(FALSE, 0, 0, 0, 0)}
MCTagCount ==
  {[kinds |-> 5, links |-> 1], [kinds |-> 4, links |-> 0], [kinds |-> 0, links |-> 1]}

================================================================================
