---------------------------- MODULE MCClassSlots ----------------------------
(* Object and Class, a class A with a subclass B, and a class U that the   *)
(* VM did not tell about.                                                  *)
EXTENDS ClassSlots

CONSTANTS A, B, U, t1, t2, t3

MCSuper == [c \in Classes |-> CASE c = Object -> NoClass [] c = Class -> Object
                                [] c = A -> Object [] c = B -> A [] c = U -> A]
MCFields == [c \in Classes |-> CASE c = A -> <<"a", "s">> [] c = B -> <<"b">>
                                 [] c = U -> <<"u">> [] c = Class -> <<"name">>
                                 [] c = Object -> <<>>]
MCStatic == {<<A, "s">>}
\* B's code names the class that declares the field, its own class for one it inherits,
\* and the class the VM did not tell about
MCAccesses == [c \in Classes |-> CASE c = B -> <<<<A, "a">>, <<B, "a">>, <<B, "s">>, <<U, "u">>>>
                                   [] c = A -> <<<<A, "s">>>>
                                   [] OTHER -> <<>>]
\* B's code reaches the field a of A through B
InheritedAccesses == [c \in Classes |-> CASE c = B -> <<<<B, "b">>, <<B, "a">>>>
                                          [] OTHER -> <<>>]
====
