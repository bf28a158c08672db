------------------------------- MODULE MCBoard -------------------------------
(* Constants for checking Board.                                             *)
EXTENDS Board

MCPmicReg == {PmicCalls[k].reg : k \in DOMAIN PmicCalls}
MCPmicValue == MCPmicReg \cup {"0x11"}

\* What BoardInitDxe asks for, shortened, and a range that starts and ends
\* inside a word.
MCOtpRequests == {<<0, 8>>, <<1, 4>>, <<1, 1>>}

\* Less than a run, more than one, nothing, and a little at the end.
MCRngLengths == <<37, 0, 32, 3>>

------------------------------------------------------------------------------
(* Memories: one and two ranks, of one size and not; two channels; three     *)
(* quarters of a power of two; every version of the loader's encoding.       *)

Channel(rows, cols, banks, groups, quarters) ==
    [rows |-> rows, cols |-> cols, banks |-> banks, groups |-> groups, width |-> 2,
     quarters |-> quarters]

Memory(soc, type, version, ch) ==
    [soc |-> soc, type |-> type, version |-> version, ch |-> ch]

Ranks(rows) == {<<r>> : r \in rows} \cup {<<r, r>> : r \in rows}

MCDrams ==
    {Memory("RK356X", 7, 3, <<Channel(r, <<10, 10>>, 3, 0, q)>>) :
        r \in Ranks(15..17), q \in {3, 4}}
    \cup {Memory("RK356X", DDR4, v, <<Channel(r, <<10, 10>>, 2, g, 4)>>) :
        v \in {1, 2}, r \in Ranks({15, 16}) \cup {<<16, 15>>}, g \in {1, 2}}
    \cup {Memory("RK356X", 7, 2, <<Channel(<<16, 16>>, <<11, 10>>, 3, 0, 4)>>),
          Memory("RK356X", 3, 2, <<Channel(<<12>>, <<12>>, 3, 0, 4)>>)}
    \cup {Memory("RK3588", 7, 3, <<Channel(r, <<10, 10>>, 3, 0, 4),
                                   Channel(r, <<10, 10>>, 3, 0, 4)>>) :
        r \in {<<16>>, <<16, 16>>, <<17, 17>>, <<18, 18>>}}

------------------------------------------------------------------------------
(* Accesses of the PCI bus driver: of each width, on both sides of the link, *)
(* to functions that are not there, and buffers across every boundary.       *)

RootPort(off)  == [bus |-> 0, dev |-> 0, off |-> off]
Endpoint(off)  == [bus |-> 1, dev |-> 0, off |-> off]

Change(kind, at, size, op) ==
    [kind |-> kind, at |-> at, size |-> size, op |-> op, data |-> <<>>]
Buffer(kind, at, data) ==
    [kind |-> kind, at |-> at, size |-> Len(data), op |-> <<>>, data |-> data]
Op(and, or)                == [and |-> and, or |-> or]
FieldOp(start, end, and, or) == [start |-> start, end |-> end, and |-> and, or |-> or]

MCPciAccesses ==
    {Change("update", RootPort(25), 1, Op({}, {0})),
     Change("update", RootPort(4), 2, Op({1, 2, 8}, {2})),
     Change("update", Endpoint(16), 4, Op(0..31, {4, 31})),
     Change("update", [Endpoint(16) EXCEPT !.dev = 1], 4, Op({}, {0})),
     Change("update", [RootPort(24) EXCEPT !.dev = 1], 4, Op({}, {0})),
     Change("update", Endpoint(8), 2, Op({}, {9})),
     Change("field", RootPort(4), 1, FieldOp(1, 2, {0}, {1, 7})),
     Change("field", RootPort(62), 2, FieldOp(6, 9, {}, {0, 3, 4})),
     Change("field", Endpoint(16), 4, FieldOp(20, 31, {11}, {0})),
     Buffer("read", Endpoint(3), [i \in 1..14 |-> {}]),
     Buffer("read", [Endpoint(0) EXCEPT !.dev = 3], [i \in 1..3 |-> {}]),
     Buffer("write", Endpoint(5), <<{0}, {1}, {2}, {3}, {4}, {5}, {6}, {7}, {0}>>),
     Buffer("write", RootPort(24), <<{}, {0}, {0}>>)}
==============================================================================
