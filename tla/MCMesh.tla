------------------------------- MODULE MCMesh -------------------------------
(* Instances of Mesh for TLC. *)
EXTENDS Mesh

CONSTANTS n1, n2, n3, e1
MCNodes == {n1, n2, n3}
MCOneEvent == {e1}

\* Two nodes that are partners of each other; one with links to two partners; and
\* two routes from n1 to n3, the longer with a link on it.
Configuration(p, l, ag) == [partners |-> p, links |-> l, agents |-> ag]
None == [n \in MCNodes |-> {}]
Mutual == Configuration([None EXCEPT ![n1] = {n2}, ![n2] = {n1}], None, {n1, n2})
Fork == Configuration([None EXCEPT ![n1] = {n2, n3}], [None EXCEPT ![n1] = {n2, n3}], {n1})
Routes == Configuration([None EXCEPT ![n1] = {n2, n3}, ![n2] = {n3}], [None EXCEPT ![n2] = {n3}], {n1})
MCTopologies == {Mutual, Fork, Routes}
=============================================================================
