------------------------------ MODULE MCFilters ------------------------------
(* Small instances of Filters: every chain of up to three filters.          *)
EXTENDS Filters

Kinds     == {"file", "exec", "net", "spam"}
UpToThree == UNION {[1..n -> Kinds] : n \in 1..3}
OnlySpam  == {<<"spam">>}
=============================================================================
