------------------------- MODULE MCParameterAccess -------------------------
EXTENDS ParameterAccess, TLC

Par(g, h, n, a) == [gw |-> g, head |-> h, size |-> n, access |-> a]
Both == {"read", "write"}

\* Two AP parameters that differ in the instance, two ISDU parameters of which
\* one is read-only, and an object.
MCDevice ==
  [ap0 |-> Par("ap", <<1, 0>>, 2, Both), ap1 |-> Par("ap", <<1, 1>>, 1, Both),
   iol0 |-> Par("iol", <<0, 1>>, 1, Both), iol1 |-> Par("iol", <<1, 1>>, 1, {"read"}),
   od |-> Par("od", <<1, 0>>, 1, Both)]

MCTypeSize == [u1 |-> 1, u2 |-> 2]

R(k, p, t, l, v) == [kind |-> k, par |-> p, type |-> t, len |-> l, value |-> v]

MCRequests ==
  { R("read", "ap0", "u2", 2, <<>>), R("read", "ap0", "u1", 1, <<>>),
    R("write", "ap0", "u2", 2, <<2>>), R("write", "ap0", "raw", 2, <<1>>),
    R("read", "ap1", "u2", 2, <<>>), R("read", "ap1", "odd", 0, <<>>),
    R("write", "ap1", "u1", 1, <<2>>),
    R("write", "iol0", "u1", 1, <<1>>), R("read", "iol0", "raw", 1, <<>>),
    R("write", "iol1", "u1", 1, <<1>>), R("read", "iol1", "u1", 1, <<>>),
    R("write", "od", "u1", 1, <<1>>), R("read", "od", "raw", 1, <<>>),
    R("write", "od", "u2", 2, <<1>>), R("read", "none", "u1", 1, <<>>) }
=============================================================================
