--------------------------- MODULE MCFormatChain ---------------------------
(***************************************************************************)
(* The formats on the geometries of each type and layout: with vertices,   *)
(* empty, with empty parts, with parts of other layouts (Z beside M among  *)
(* them), and collections within collections.                              *)
(* No ordinate is NaN, and no polygon has nothing but empty rings.         *)
(***************************************************************************)
EXTENDS FormatChain

V(x, y, layout) ==
    CASE layout = "XY" -> <<x, y>>
      [] layout \in {"XYZ", "XYM"} -> <<x, y, 7>>
      [] layout = "XYZM" -> <<x, y, 7, 8>>

Line(layout) == <<V(1, 1, layout), V(3, 2, layout)>>
Shell(layout) == <<V(0, 0, layout), V(0, 9, layout), V(9, 9, layout), V(9, 0, layout), V(0, 0, layout)>>
Hole(layout) == <<V(2, 2, layout), V(2, 3, layout), V(3, 3, layout), V(2, 2, layout)>>

Of(type, layout, rings) == Leaf(type, layout, "EPSG", rings)
Empty(type, layout) == EmptyLeaf(type, layout, "EPSG")
Multi(type, parts) == Collection(type, "EPSG", parts)
NoParts(type, layout) == NewCollection(type, layout, "EPSG", <<>>)

Point(layout) == Of("Point", layout, <<<<V(4, 5, layout)>>>>)
LineString(layout) == Of("LineString", layout, <<Line(layout)>>)
LinearRing(layout) == Of("LinearRing", layout, <<Shell(layout)>>)
Polygon(layout) == Of("Polygon", layout, <<Shell(layout), Hole(layout)>>)
MultiPoint(layout) == Of("MultiPoint", layout, <<Line(layout)>>)
HollowPolygon(layout) == Of("Polygon", layout, <<Shell(layout), <<>>>>)

Plain(layout) ==
    {Point(layout), LineString(layout), LinearRing(layout), Polygon(layout), MultiPoint(layout),
     Multi("MultiLineString", <<LineString(layout), LineString(layout)>>),
     Multi("MultiPolygon", <<Polygon(layout), Of("Polygon", layout, <<Shell(layout)>>)>>),
     Multi("GeometryCollection", <<Point(layout), LinearRing(layout)>>)}

Empties(layout) ==
    {Empty(type, layout) : type \in {"Point", "Polygon", "MultiPoint"} \cup Curves}
        \cup {NoParts(type, layout) : type \in OfParts}

\* Parts that are empty, and parts that differ.
Hollow(layout) ==
    {HollowPolygon(layout),
     Multi("MultiLineString", <<Empty("LineString", layout), LineString(layout)>>),
     Multi("MultiPolygon", <<Polygon(layout), Empty("Polygon", layout)>>),
     Multi("GeometryCollection", <<Empty("Point", layout), Polygon("XY")>>),
     Multi("GeometryCollection", <<NoParts("MultiLineString", layout), MultiPoint("XYZ")>>),
     Multi("GeometryCollection",
           <<Multi("GeometryCollection", <<Point(layout), HollowPolygon(layout)>>), Point("XYM")>>)}

\* Parts of another layout, with as many ordinates or not.
Mixed ==
    LET lines(a, b) == Multi("MultiLineString", <<LineString(a), LineString(b)>>)
    IN  {lines("XYZM", "XY"), lines("XYM", "XY"), lines("XYZ", "XYM"), lines("XYM", "XYZ"),
         Multi("MultiPolygon", <<Polygon("XYM"), Polygon("XYZ")>>),
         Multi("GeometryCollection", <<lines("XYZ", "XYM"), Point("XYM")>>)}

MCGeometries ==
    LET all == Mixed \cup UNION {Plain(l) \cup Empties(l) \cup Hollow(l) : l \in Layouts}
    IN  all \cup {WithCRS(g, "other") : g \in Plain("XYZ")}

MCSystems == {"none", "EPSG", "other"}

=============================================================================
