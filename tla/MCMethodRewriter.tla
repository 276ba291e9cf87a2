-------------------------- MODULE MCMethodRewriter --------------------------
(* Methods of each kind; two have a wide parameter, and an object behind it. *)
EXTENDS MethodRewriter, TLC

Static(slots, groups) == [static |-> TRUE, init |-> FALSE, slots |-> slots, code |-> groups]
Instance(slots, groups) == [static |-> FALSE, init |-> FALSE, slots |-> slots, code |-> groups]
Constructor(slots, groups) == [static |-> FALSE, init |-> TRUE, slots |-> slots, code |-> groups]

MCMethods ==
  {Static(<<"J", "J", "L">>, {"arrays", "calls"}),
   Static(<<>>, {"moves", "objects", "fields"}),
   Static(<<"L">>, {"types", "calls"}),
   Static(<<>>, {"fields", "calls"}),
   Static(<<>>, {"calls", "labels"}),
   Instance(<<>>, {"fields", "labels"}),
   Instance(<<"J", "J", "L">>, {"primitives"}),
   Constructor(<<>>, {"objects", "fields"}),
   Constructor(<<"L">>, {"objects", "labels"})}

Symmetry == Permutations(Objects)
====
