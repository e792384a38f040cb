------------------------------- MODULE MC_Panel -------------------------------
(* Two requests at a time, a proxy and two exits. *)
EXTENDS Panel, TLC

Interchangeable ==
    {f @@ g @@ h @@ k @@ l @@ m :
        f \in Permutations(Request), g \in Permutations(Port), h \in Permutations(CascadeId),
        k \in Permutations(Key), l \in Permutations(Exit), m \in Permutations(Listen)}
=============================================================================
