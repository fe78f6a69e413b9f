----------------------------- MODULE MCRecomp68k -----------------------------
(* Recomp68k on a program of six pieces.  A and B are the main loop, H the  *)
(* handler, E writes more than the log holds; C is what bank 1 shows where  *)
(* bank 0 shows B, and the adapter's helper has no block either.            *)
EXTENDS Recomp68k

A == <<0, 1>>
B == <<0, 2>>
H == <<0, 3>>
E == <<1, 1>>
C == <<1, 2>>
Helper == <<-1, 1>>

R(a, r) == [k |-> "read", a |-> a, r |-> r]
W(a, r) == [k |-> "write", a |-> a, r |-> r]
N(r)    == [k |-> "not", r |-> r]
M(m)    == [k |-> "mask", m |-> m]
Rel(p)  == [w |-> "rel", o |-> p]
Win(p)  == [w |-> "win", o |-> p]
Bank(p) == [w |-> "bank", o |-> p]
Vec(p)  == [w |-> "vec", o |-> p]

Piece(ops, to)   == [ops |-> ops, to |-> to, rte |-> FALSE]
Returning(ops)   == [ops |-> ops, to |-> <<Rel(A), Rel(A)>>, rte |-> TRUE]

AOps == <<W("hi", 1), W("lo", 2), M(0), N(1), W("hi", 1), R("port", 1)>>
BOps == <<M(7), R("port", 2), R("port", 1), W("bank", 2)>>
HOps == <<W("lo", 1), R("lo", 2)>>

MCCode ==
    (A :> Piece(AOps, <<Win(B), Bank(B)>>)) @@
    (B :> Piece(BOps, <<Rel(A), Vec(Helper)>>)) @@
    (H :> Returning(HOps)) @@
    (E :> Piece(<<W("lo", 2), W("hi", 2), W("lo", 1), W("hi", 1)>>, <<Win(A), Win(A)>>)) @@
    (C :> Piece(<<R("port", 1), W("lo", 1)>>, <<Rel(C), Win(A)>>)) @@
    (Helper :> Piece(<<W("bank", 1)>>, <<Win(E), Win(E)>>))

MCCompiled == {A, B, H, E}

\* A's writes of two bytes the other way round
MCEmitted ==
    [MCCode EXCEPT ![A].ops = <<W("lo", 2), W("hi", 1), M(0), N(1), W("hi", 1), R("port", 1)>>]

MCFaults ==
    { [of |-> A, code |-> Piece(<<W("hi", 1), W("lo", 2), M(0), N(1), W("hi", 2), R("port", 1)>>,
                                <<Win(B), Bank(B)>>)],
      [of |-> A, code |-> Piece(<<W("hi", 1), W("lo", 2), N(1), W("hi", 1), R("port", 1)>>,
                                <<Win(B), Bank(B)>>)],
      [of |-> A, code |-> Piece(<<N(1), W("hi", 1), N(1), W("lo", 2), M(0), W("hi", 1), N(1), R("port", 1)>>,
                                <<Win(B), Bank(B)>>)],
      [of |-> B, code |-> Piece(<<M(7), R("port", 2), W("bank", 2)>>, <<Rel(A), Vec(Helper)>>)],
      [of |-> B, code |-> Piece(<<M(7), R("port", 1), R("port", 2), W("bank", 2)>>,
                                <<Rel(A), Vec(Helper)>>)],
      [of |-> B, code |-> Piece(BOps, <<Win(E), Vec(Helper)>>)],
      [of |-> H, code |-> Returning(<<R("lo", 2), W("lo", 1)>>)],
      [of |-> E, code |-> Piece(<<W("lo", 1)>>, <<Win(A), Win(A)>>)],
      [of |-> E, code |-> Piece(<<W("lo", 2), W("hi", 2), W("lo", 1)>>, <<Win(A), Win(A)>>)] }
=============================================================================
