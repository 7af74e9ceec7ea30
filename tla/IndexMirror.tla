------------------------------ MODULE IndexMirror ------------------------------
(***************************************************************************)
(* What the search index promises its readers, as small as it can be said: *)
(* a mirror of the catalogue.  The source changes one asset at a time; the *)
(* mirror only ever takes over what the source holds at that moment; and   *)
(* every asset of the mirror is right again and again.                     *)
(***************************************************************************)
CONSTANT Assets
VARIABLES source, mirror
vars == <<source, mirror>>

Init == mirror = source

Change(a) ==
    /\ source' = [source EXCEPT ![a] = source'[a]]
    /\ UNCHANGED mirror

Sync(S) ==
    /\ mirror' = [a \in Assets |-> IF a \in S THEN source[a] ELSE mirror[a]]
    /\ UNCHANGED source

Next == (\E a \in Assets : Change(a)) \/ (\E S \in SUBSET Assets : Sync(S))

Spec == Init /\ [][Next]_vars /\ \A a \in Assets : []<>(mirror[a] = source[a])
=============================================================================
