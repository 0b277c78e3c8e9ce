-------------------------- MODULE MCOverlayDispatch --------------------------
(***************************************************************************)
(* Overlays of every pair of types on a strip of three cells, and unary    *)
(* unions of collections on it.                                            *)
(***************************************************************************)
EXTENDS OverlayDispatch

Span(a, b) == (2 * a)..(2 * b)

MCAtoms ==
  { Geom("Polygon", <<Span(0, 1)>>), Geom("Polygon", <<Span(1, 2)>>),
    Geom("Polygon", <<Span(2, 3)>>),
    Geom("LineString", <<Span(0, 1)>>), Geom("LineString", <<Span(1, 3)>>),
    Geom("Point", <<Span(0, 0)>>), Geom("Point", <<Span(3, 3)>>) }

MCMulti ==
  { Geom("Polygon", <<{}>>),
    Geom("MultiPolygon", <<Span(2, 3), {}, Span(0, 1)>>),
    Geom("MultiPolygon", <<Span(1, 2), Span(0, 1)>>),
    Geom("MultiLineString", <<Span(2, 3), {}, Span(0, 2)>>),
    Geom("MultiPoint", <<Span(3, 3), Span(1, 1), Span(3, 3)>>) }

MCLeaves == MCAtoms \cup MCMulti
MCPairs == {<<x, y>> : x, y \in MCLeaves}

(* No more than one dimension survives in what is nested. *)
MCNested ==
  {GC(m) : m \in {p \in MCPairs : Len(Members(
      Absorb(Absorb([todo |-> <<>>, polys |-> <<>>, lines |-> <<>>, points |-> <<>>],
                    Geom(p[1].kind, NonEmpty(p[1].parts))),
             Geom(p[2].kind, NonEmpty(p[2].parts))))) <= 1}}

MCDeep == {GC(<<GC(<<x>>), y>>) : x, y \in {z \in MCAtoms : z.kind = "Polygon"}}

MCInputs ==
  MCLeaves
    \cup {GC(<<x, y, z>>) : x, y \in MCLeaves, z \in MCAtoms}
    \cup {GC(<<x, n, GC(<<>>)>>) : x \in MCAtoms, n \in MCNested \cup MCDeep}
    \cup {GC(<<n, x>>) : x \in MCLeaves, n \in MCNested \cup MCDeep}

(* A nested collection of which two dimensions survive. *)
MCMixed ==
  {GC(<<x, GC(<<y, z>>)>>) : x \in MCLeaves, y, z \in MCAtoms}

-----------------------------------------------------------------------------
Areas ==
  {Geom("Polygon", <<Span(a, b)>>) : <<a, b>> \in {<<0, 1>>, <<0, 3>>, <<1, 2>>, <<1, 3>>}}
    \cup {Geom("MultiPolygon", <<Span(2, 3), {}, Span(0, 1)>>), Geom("Polygon", <<{}>>)}

Lines ==
  {Geom("LineString", <<Span(a, b)>>) : <<a, b>> \in {<<0, 1>>, <<1, 3>>, <<0, 3>>}}
    \cup {Geom("MultiLineString", <<Span(2, 3), Span(0, 2)>>), Geom("LineString", <<{}>>)}

Points ==
  {Geom("Point", <<Span(x, x)>>) : x \in {0, 2}}
    \cup {Geom("MultiPoint", <<Span(3, 3), Span(1, 1), Span(3, 3)>>), Geom("Point", <<{}>>)}

Collections ==
  {GC(<<Geom("Polygon", <<Span(0, 1)>>), Geom("MultiPolygon", <<Span(1, 2), {}>>), Geom("Point", <<Span(1, 1)>>)>>),
   GC(<<Geom("LineString", <<Span(0, 1)>>), Geom("Polygon", <<{}>>), Geom("Point", <<Span(0, 0)>>)>>),
   GC(<<GC(<<Geom("Point", <<Span(2, 2)>>)>>), Geom("Point", <<Span(3, 3)>>)>>),
   GC(<<Geom("Polygon", <<{}>>)>>),
   GC(<<Geom("Polygon", <<Span(0, 1)>>), Geom("Point", <<Span(3, 3)>>)>>)}

Some == {Geom("Polygon", <<Span(0, 2)>>), Geom("LineString", <<Span(1, 3)>>), None}

Call(op, a, b, crs, enhanced) == [op |-> op, a |-> a, b |-> b, crs |-> crs, enhanced |-> enhanced]

MCCalls ==
  LET simple == Areas \cup Lines \cup Points
  IN  {Call(op, a, b, "plane", FALSE) : op \in Ops, a, b \in simple}
        \cup {Call(op, a, b, "plane", FALSE) : op \in Ops, a \in Collections, b \in simple \cup Collections}
        \cup {Call(op, a, b, "plane", FALSE) : op \in Ops, a \in simple, b \in Collections}
        \cup {Call(op, a, b, crs, TRUE) : op \in Ops, a, b \in Some, crs \in {"plane", "earth", "differ"}}
=============================================================================
