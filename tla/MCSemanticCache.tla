---------------------------- MODULE MCSemanticCache ----------------------------
(* Model-checking instance of SemanticCache: two prompts, two scopes. *)
EXTENDS SemanticCache

CONSTANTS p1, p2, s1, s2

MCPrompts == {p1, p2}
MCScopes == {s1, s2}
MCAsked == {<<s1, p1>>, <<s2, p2>>}
\* One tenant and domain, two prompts.
MCAskedTogether == {<<s1, p1>>, <<s1, p2>>}
===============================================================================
