----------------------------- MODULE MCDiscovery -----------------------------
(* Instances of Discovery for TLC.                                         *)
EXTENDS Discovery

\* One rule with one selector, and a second rule that the code ignores.
MCRules == <<<< {"export"} >>, << {} >>>>

\* One rule with two selectors.
MCTwoSelectors == <<<< {"export"}, {"public"} >>>>

=============================================================================
