---------------------------- MODULE MCExtensions ----------------------------
\* Two ids of extensions, two names, a web extension, a legacy add-on, and a
\* legacy add-on that lacks its version; one recipe, two workers.
EXTENDS Extensions, TLC

CONSTANTS e1, e2, n1, n2, w1, w2, r1, web, legacy, v1

MCXpi == {[manifest |-> "manifest.json", id |-> web, version |-> v1, signed |-> TRUE],
          [manifest |-> "install.rdf", id |-> legacy, version |-> v1, signed |-> TRUE],
          [manifest |-> "install.rdf", id |-> legacy, version |-> None, signed |-> TRUE],
          [manifest |-> "manifest.json", id |-> web, version |-> v1, signed |-> FALSE]}

MCUse == {[argument |-> "extensionId", extension |-> e1],
          [argument |-> "extensionApiId", extension |-> e1]}

Symmetry == Permutations({n1, n2}) \cup Permutations({w1, w2})
=============================================================================
