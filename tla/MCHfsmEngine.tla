---------------------------- MODULE MCHfsmEngine ----------------------------
(* Two states; "lo" and "hi" are one event type whose payload a guard may  *)
(* tell apart, "b" is another type.  An internal rule's target is not used. *)
EXTENDS HfsmEngine

MCRules ==
    {r \in [src : States \cup {AnySource}, on : {{"lo", "hi"}, {"hi"}, {"b"}},
            dst : States, internal : BOOLEAN] : r.internal => r.dst = "s"}
=============================================================================
