---------------------------- MODULE MCIoStation ----------------------------
EXTENDS IoStation

Row(din, dout, ain, aout, ports, iin, iout, in_, out_) ==
  [din |-> din, dout |-> dout, ain |-> ain, aout |-> aout, ports |-> ports,
   iolIn |-> iin, iolOut |-> iout, in |-> in_, out |-> out_]

\* Two bits to a byte.  Like the 4AI4AO of the ESI, aio has one output byte
\* more than its channels need.
MCEsiCatalog ==
  [di |-> Row(3, 0, 0, 0, 0, 0, 0, 2, 0), do |-> Row(0, 3, 0, 0, 0, 0, 0, 0, 2),
   dio |-> Row(1, 1, 0, 0, 0, 0, 0, 1, 1), aio |-> Row(0, 0, 1, 1, 0, 0, 0, 2, 3),
   iol1 |-> Row(0, 0, 0, 0, 1, 2, 1, 2, 1), iol2 |-> Row(0, 0, 0, 0, 1, 3, 2, 3, 2)]

MCVariants == (1 :> "iol1") @@ (2 :> "iol2")

Item(s, t) == [slot |-> s, type |-> t, product |-> FALSE]
Product(s, t) == [slot |-> s, type |-> t, product |-> TRUE]
Port(m, p, n) == [module |-> m, port |-> p, need |-> n]
Declared(ms, ps) == [modules |-> ms, ports |-> ps]

MCDeclarations ==
  { Declared(<<Item(2, "do"), Item(1, "dio")>>, <<>>),
    Declared(<<Item(0, "do"), Item(0, "dio")>>, <<>>),
    Declared(<<Item(0, "aio"), Product(0, "do")>>, <<>>),
    Declared(<<Product(0, "aio"), Item(0, "do")>>, <<>>),
    Declared(<<Item(0, "iol"), Item(0, "do")>>, <<Port(1, 0, 2)>>),
    Declared(<<Item(1, "dio"), Item(3, "do")>>, <<>>),
    Declared(<<Item(1, "di"), Item(1, "do")>>, <<>>),
    Declared(<<Item(0, "iol"), Item(0, "do")>>, <<Port(1, 0, 0)>>),
    Declared(<<Item(0, "iol"), Item(0, "do")>>, <<Port(1, 0, 3)>>),
    Declared(<<Item(0, "iol"), Item(0, "do")>>, <<Port(1, 0, 1), Port(1, 1, 1)>>),
    Declared(<<Item(0, "do"), Item(0, "do"), Item(0, "do"), Item(0, "do"),
               Item(0, "do")>>, <<>>) }

MCStations ==
  { <<"dio", "do">>, <<"do", "dio">>, <<"aio", "do">>, <<"iol1", "do">>,
    <<"di", "do">> }

MCAnalogValues == {-3, 8}

MCPayloads == {<<3, 1>>, <<2>>, <<1, 2, 3>>}
=============================================================================
