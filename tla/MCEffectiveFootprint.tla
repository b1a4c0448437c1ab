------------------------ MODULE MCEffectiveFootprint ------------------------
(***************************************************************************)
(* Instance of EffectiveFootprint: every function has one access of its    *)
(* own.  Three functions with up to two calls each, self-calls and         *)
(* repeated calls included, and four functions with up to two calls to     *)
(* different others.                                                       *)
(***************************************************************************)
EXTENDS EffectiveFootprint

MCAccess == 1..4

WithOwn(lists) == [f \in DOMAIN lists |-> [own |-> {f}, calls |-> lists[f]]]

CallsToOthers(f) ==
  {list \in BoundedSeq((1..4) \ {f}, 2) : IsInjective(list)}

MCPrograms ==
  {WithOwn(lists) : lists \in [1..3 -> BoundedSeq(1..3, 2)]}
    \cup {WithOwn(<<a, b, c, d>>) :
            a \in CallsToOthers(1), b \in CallsToOthers(2),
            c \in CallsToOthers(3), d \in CallsToOthers(4)}
=============================================================================
