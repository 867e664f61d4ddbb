-------------------------- MODULE MCBusConnection --------------------------
EXTENDS BusConnection

TwoSlaves == 1..2

E(o, b) == [object |-> o, bits |-> b]

MCConfigured == {<<"as", "st">>, <<"old", "as">>}

MCCatalog ==
  [as |-> [word |-> 16, position |-> 32, limit |-> 32],
   st |-> [word |-> 16, position |-> 32, limit |-> 32],
   old |-> [word |-> 16, position |-> 16, limit |-> 32]]

MCRequired == [limit |-> 32]

MCMapping == [rx |-> <<E("word", 16), E("none", 8)>>, tx |-> <<E("position", 32)>>]

MCOther == [rx |-> <<E("position", 16), E("none", 8)>>, tx |-> <<E("position", 32)>>]
=============================================================================
