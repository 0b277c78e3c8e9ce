------------------------------ MODULE Formats -------------------------------
(***************************************************************************)
(* The geometry types of package geom and the formats: well-known text     *)
(* (package wkt) and binary (package wkb), and the trees of named objects, *)
(* GeoJSON and GML.                                                        *)
(***************************************************************************)
EXTENDS Integers, SequencesExt, FiniteSetsExt

(***************************************************************************)
(* Package geom.  Points, lines, rings, polygons and multipoints hold      *)
(* vertices in rings (all but a polygon in just one); the other types hold *)
(* parts.  A vertex is the sequence of its ordinates, as many as the       *)
(* layout says.                                                            *)
(***************************************************************************)
Layouts == {"XY", "XYZ", "XYM", "XYZM"}

Stride(layout) == CASE layout = "XY" -> 2 [] layout \in {"XYZ", "XYM"} -> 3 [] layout = "XYZM" -> 4

HasZ(layout) == layout \in {"XYZ", "XYZM"}
HasM(layout) == layout \in {"XYM", "XYZM"}

\* An ordinate that is no number; a test that must come before any other.
NaN == -1

Curves == {"LineString", "LinearRing"}
OfParts == {"MultiLineString", "MultiPolygon", "GeometryCollection"}

Leaf(type, layout, crs, rings) ==
    [type |-> type, layout |-> layout, crs |-> crs, rings |-> rings, parts |-> <<>>]

\* NewEmptyPoint, NewEmptyLineString, NewEmptyPolygon, NewEmptyMultiPoint.
EmptyLeaf(type, layout, crs) ==
    Leaf(type, layout, crs, IF type = "Polygon" THEN <<>> ELSE <<<<>>>>)

\* A collection has the layout of its first part, whatever the others have.
PartsLayout(parts) == IF parts = <<>> THEN "XY" ELSE parts[1].layout

NewCollection(type, layout, crs, parts) ==
    [type |-> type, layout |-> layout, crs |-> crs, rings |-> <<>>, parts |-> parts]

Collection(type, crs, parts) == NewCollection(type, PartsLayout(parts), crs, parts)

HasVertex(g) == \E i \in DOMAIN g.rings : g.rings[i] # <<>>

\* A collection of empty parts is not empty.
IsEmpty(g) == IF g.type \in OfParts THEN g.parts = <<>> ELSE ~HasVertex(g)

XY(v) == <<v[1], v[2]>>

XYs(ring) == [i \in DOMAIN ring |-> XY(ring[i])]

\* UnwrapLinearRing.
Unwrapped(g) == IF g.type = "LinearRing" THEN [g EXCEPT !.type = "LineString"] ELSE g

RECURSIVE WithCRS(_, _)
WithCRS(g, crs) == [g EXCEPT !.crs = crs, !.parts = [i \in DOMAIN g.parts |-> WithCRS(g.parts[i], crs)]]

\* Edit moves every vertex by one; Z and M stay.
Moved(v) == [v EXCEPT ![1] = @ + 1]

RECURSIVE Edit(_)
Edit(g) ==
    IF g.type \in OfParts THEN [g EXCEPT !.parts = [i \in DOMAIN g.parts |-> Edit(g.parts[i])]]
    ELSE IF IsEmpty(g) THEN EmptyLeaf(g.type, g.layout, g.crs)
    ELSE [g EXCEPT !.rings = [i \in DOMAIN g.rings |-> [j \in DOMAIN g.rings[i] |-> Moved(g.rings[i][j])]]]

\* walkComponents: the leaves of a tree, with a multipoint taken apart.
RECURSIVE Components(_)
Components(g) ==
    CASE g.type \in OfParts -> FlattenSeq([i \in DOMAIN g.parts |-> Components(g.parts[i])])
      [] g.type = "MultiPoint" ->
            [i \in DOMAIN g.rings[1] |-> Leaf("Point", "XY", g.crs, <<<<XY(g.rings[1][i])>>>>)]
      [] OTHER -> <<Unwrapped(g)>>

\* PointsOf, LineStringsOf, PolygonsOf.
ComponentsOf(g, type) == SelectSeq(Components(g), LAMBDA c : c.type = type)

\* The envelope of vertices: no box, or the least one around them.
EnvelopeOf(vertices) ==
    IF vertices = {} THEN <<>>
    ELSE << <<Min({v[1] : v \in vertices}), Min({v[2] : v \in vertices})>>,
            <<Max({v[1] : v \in vertices}), Max({v[2] : v \in vertices})>> >>

ToInclude(e, o) == EnvelopeOf(ToSet(e) \cup ToSet(o))

RECURSIVE Envelope(_)
Envelope(g) ==
    IF g.type \in OfParts THEN FoldLeft(LAMBDA e, part : ToInclude(e, Envelope(part)), <<>>, g.parts)
    ELSE EnvelopeOf(UNION {ToSet(g.rings[i]) : i \in DOMAIN g.rings})

(***************************************************************************)
(* Package wkt.  A text is its type word, its layout word, and either the  *)
(* word EMPTY or what stands in the parentheses: for a collection other    *)
(* texts, for all other types groups of lists of vertices (a polygon is a  *)
(* group, a ring or a line a list).  A group and a list are the word EMPTY *)
(* or parentheses, and the parentheses may be empty.                       *)
(***************************************************************************)

EmptyWord == [isEmpty |-> TRUE, items |-> <<>>]
Parens(items) == [isEmpty |-> FALSE, items |-> items]

NewText(type, tag, isEmpty, groups, members) ==
    [word |-> type, tag |-> tag, isEmpty |-> isEmpty, groups |-> groups, members |-> members]

\* layoutSuffix.
LayoutSuffix(layout) == IF layout = "XY" THEN "untagged" ELSE layout

Lists(rings) == Parens([i \in DOMAIN rings |-> Parens(rings[i])])

\* appendPoint, appendCurve, appendPolygon, appendMultiPoint,
\* appendMultiLineString, appendMultiPolygon.  No member is written EMPTY.
GroupsOf(g) ==
    CASE g.type = "MultiPoint" -> <<Lists([i \in DOMAIN g.rings[1] |-> <<g.rings[1][i]>>])>>
      [] g.type = "MultiLineString" -> <<Lists([i \in DOMAIN g.parts |-> g.parts[i].rings[1]])>>
      [] g.type = "MultiPolygon" -> [i \in DOMAIN g.parts |-> Lists(g.parts[i].rings)]
      [] OTHER -> <<Lists(g.rings)>>

RECURSIVE TextOf(_)
TextOf(g) ==
    LET isCollection == g.type = "GeometryCollection"
    IN  NewText(g.type, LayoutSuffix(g.layout), IsEmpty(g),
                IF IsEmpty(g) \/ isCollection THEN <<>> ELSE GroupsOf(g),
                IF isCollection THEN [i \in DOMAIN g.parts |-> TextOf(g.parts[i])] ELSE <<>>)

\* The lists with vertices, in order.
ListsOf(text) == SelectSeq(FlattenSeq([i \in DOMAIN text.groups |-> text.groups[i].items]), LAMBDA l : ~l.isEmpty)

\* readCoord, readCoordSequence, consumeMemberSeparator: each list has a
\* vertex, and each vertex has as many numbers as the layout word asks for
\* or, without one, as the first vertex has.
SameStride(text) ==
    \E n \in 2..4 :
        /\ text.tag # "untagged" => n = Stride(text.tag)
        /\ \A i \in DOMAIN ListsOf(text) :
              /\ ListsOf(text)[i].items # <<>>
              /\ \A j \in DOMAIN ListsOf(text)[i].items : Len(ListsOf(text)[i].items[j]) = n

RECURSIVE IsReadable(_)
IsReadable(text) ==
    \/ text.isEmpty
    \/ /\ text.word = "GeometryCollection"
       /\ text.members # <<>>
       /\ \A i \in DOMAIN text.members : IsReadable(text.members[i])
    \/ /\ text.word # "GeometryCollection"
       /\ \A i \in DOMAIN text.groups : text.groups[i].isEmpty \/ text.groups[i].items # <<>>
       /\ SameStride(text)
       /\ text.word \in {"Point"} \cup Curves => Len(ListsOf(text)) = 1
       /\ text.word = "Point" => Len(ListsOf(text)[1].items) = 1

\* layoutForStride, and XY where nothing says otherwise.
LayoutForStride(n) == CASE n = 2 -> "XY" [] n = 3 -> "XYZ" [] n = 4 -> "XYZM"

LayoutFrom(tag, lists) ==
    IF tag # "untagged" THEN tag
    ELSE IF lists = <<>> THEN "XY" ELSE LayoutForStride(Len(lists[1].items[1]))

\* The lists with vertices in the first k of some items.
ListsUpTo(items, k) == SelectSeq(SubSeq(items, 1, k), LAMBDA l : ~l.isEmpty)

RingsOf(group) ==
    LET lists == SelectSeq(group.items, LAMBDA l : ~l.isEmpty) IN [i \in DOMAIN lists |-> lists[i].items]

\* parseMultiLineString: an EMPTY line has the layout known when it is read.
LinesIn(text, crs) ==
    LET items == text.groups[1].items
    IN  [i \in DOMAIN items |->
            Leaf("LineString", LayoutFrom(text.tag, ListsUpTo(items, i)), crs,
                 IF items[i].isEmpty THEN <<<<>>>> ELSE <<items[i].items>>)]

\* parseMultiPolygon.
PolygonsIn(text, crs) ==
    [i \in DOMAIN text.groups |->
        LET before == FlattenSeq([j \in 1..i |-> text.groups[j].items])
        IN  Leaf("Polygon", LayoutFrom(text.tag, ListsUpTo(before, Len(before))), crs, RingsOf(text.groups[i]))]

\* parsePoint, parseLineString, parseLinearRing, parsePolygon,
\* parseMultiPoint: members that are EMPTY are left out.
LeafIn(text, crs) ==
    LET rings == RingsOf(text.groups[1])
        layout == LayoutFrom(text.tag, ListsOf(text))
    IN  Leaf(text.word, layout, crs, IF text.word = "MultiPoint" THEN <<FlattenSeq(rings)>> ELSE rings)

\* parseGeometry: the empty collections forget their layout.
RECURSIVE Parsed(_, _)
Parsed(text, crs) ==
    CASE text.isEmpty /\ text.word \in OfParts -> Collection(text.word, crs, <<>>)
      [] text.isEmpty /\ text.word \notin OfParts -> EmptyLeaf(text.word, LayoutFrom(text.tag, <<>>), crs)
      [] ~text.isEmpty /\ text.word = "GeometryCollection" ->
            Collection(text.word, crs, [i \in DOMAIN text.members |-> Parsed(text.members[i], crs)])
      [] ~text.isEmpty /\ text.word = "MultiLineString" -> Collection(text.word, crs, LinesIn(text, crs))
      [] ~text.isEmpty /\ text.word = "MultiPolygon" -> Collection(text.word, crs, PolygonsIn(text, crs))
      [] OTHER -> LeafIn(text, crs)

\* MarshalEWKT writes an EPSG code, Marshal no system at all.
SridOf(crs) == IF crs = "EPSG" THEN "EPSG" ELSE "none"

-----------------------------------------------------------------------------
(***************************************************************************)
(* Package wkb.  A record is its type code, a reference system where the   *)
(* code says so, counted runs of vertices and records of its own.  A code  *)
(* is a number, to which ISO adds thousands for Z and M, and flags, which  *)
(* is how EWKB says the same.                                              *)
(***************************************************************************)

\* baseCode: there is no code for a LinearRing.
BaseCode(type) ==
    CASE type = "Point" -> 1
      [] type \in Curves -> 2
      [] type = "Polygon" -> 3
      [] type = "MultiPoint" -> 4
      [] type = "MultiLineString" -> 5
      [] type = "MultiPolygon" -> 6
      [] type = "GeometryCollection" -> 7

TypeOfCode(code) ==
    CHOOSE type \in {"Point", "LineString", "Polygon", "MultiPoint"} \cup OfParts : BaseCode(type) = code

IsoOffset(layout) ==
    CASE layout = "XY" -> 0 [] layout = "XYZ" -> 1000 [] layout = "XYM" -> 2000 [] layout = "XYZM" -> 3000

\* A reader that takes no notice of M.
LayoutOfFlagsNoM(flags) == IF "Z" \in flags THEN "XYZ" ELSE "XY"

LayoutOfFlags(flags) ==
    CASE {"Z", "M"} \subseteq flags -> "XYZM"
      [] "Z" \in flags /\ "M" \notin flags -> "XYZ"
      [] "M" \in flags /\ "Z" \notin flags -> "XYM"
      [] OTHER -> "XY"

\* encodeTypeCode, encodeTypeCodeForChild.
TypeCode(type, layout, iso, srid) ==
    IF iso THEN [number |-> BaseCode(type) + IsoOffset(layout), flags |-> {}]
    ELSE [number |-> BaseCode(type),
          flags |-> {f \in {"Z", "M", "SRID"} :
                        \/ f = "Z" /\ HasZ(layout)
                        \/ f = "M" /\ HasM(layout)
                        \/ f = "SRID" /\ srid # "none"}]

\* decodeTypeCode asks for the ISO offset only where no flag is set.
LayoutOfCode(code) ==
    IF code.flags = {}
    THEN CHOOSE l \in Layouts : code.number - (code.number % 100) = IsoOffset(l)
    ELSE LayoutOfFlags(code.flags)

\* resolveSRID.
SridFor(g, iso) == IF iso \/ g.crs # "EPSG" THEN "none" ELSE g.crs

Record(type, layout, iso, srid, runs, records) ==
    [code |-> TypeCode(type, layout, iso, srid), srid |-> srid, runs |-> runs, records |-> records]

\* appendPointBody: an empty point is a vertex of NaNs.
PointRuns(g) == IF IsEmpty(g) THEN <<<<[i \in 1..Stride(g.layout) |-> NaN]>>>> ELSE g.rings

\* appendLineStringBody, appendPolygonBody: the runs of all other leaves.
RunsOf(g) ==
    CASE g.type = "Point" -> PointRuns(g) [] g.type = "MultiPoint" -> <<>> [] OTHER -> g.rings

\* appendMultiPointBody: a record for each vertex.
PointRecords(g, iso) ==
    [i \in DOMAIN g.rings[1] |-> Record("Point", g.layout, iso, "none", <<<<g.rings[1][i]>>>>, <<>>)]

\* appendGeometry, and the bodies of the types that have parts: only the top
\* has a reference system.
RECURSIVE RecordOf(_, _, _)
RecordOf(g, iso, srid) ==
    Record(g.type, g.layout, iso, srid, RunsOf(g),
           IF g.type = "MultiPoint" THEN PointRecords(g, iso)
           ELSE [i \in DOMAIN g.parts |-> RecordOf(g.parts[i], iso, "none")])

IsNaNs(v) == \A i \in DOMAIN v : v[i] = NaN

\* readBody: readPoint, readLineString, readPolygon.
LeafOf(type, layout, crs, runs) ==
    IF type = "Point" /\ IsNaNs(runs[1][1]) THEN EmptyLeaf(type, layout, crs) ELSE Leaf(type, layout, crs, runs)

\* readMultiPoint: the vertices of the points that are not empty.
VerticesOf(points) == FlattenSeq([i \in DOMAIN points |-> points[i].rings[1]])

\* readMultiPoint, readMultiLineString, readMultiPolygon,
\* readGeometryCollection.
MembersOf(type, layout, crs, members) ==
    IF type = "MultiPoint" THEN Leaf(type, layout, crs, <<VerticesOf(members)>>) ELSE Collection(type, crs, members)

\* readGeometry: a record without a reference system has that of the record
\* around it.
RECURSIVE ReadRecord(_, _)
ReadRecord(record, inherited) ==
    LET layout == LayoutOfCode(record.code)
        type == TypeOfCode(record.code.number % 100)
        crs == IF "SRID" \in record.code.flags THEN record.srid ELSE inherited
    IN  IF type \in {"MultiPoint"} \cup OfParts
        THEN MembersOf(type, layout, crs, [i \in DOMAIN record.records |-> ReadRecord(record.records[i], crs)])
        ELSE LeafOf(type, layout, crs, record.runs)

-----------------------------------------------------------------------------

(***************************************************************************)
(* Package geojson.  An object has a type word and the positions of its    *)
(* rings, or the objects it is made of; a position has two numbers or      *)
(* three.  No object says what layout or reference system it has.          *)
(***************************************************************************)

Object(type, lists, objects) == [type |-> type, lists |-> lists, objects |-> objects]

\* writeVertex: no M.
Position(v, layout) == IF HasZ(layout) THEN SubSeq(v, 1, 3) ELSE XY(v)

Positions(ring, layout) == [i \in DOMAIN ring |-> Position(ring[i], layout)]

\* ringSignedArea, doubled, with the vertices one further to the left.
SignedArea(ring) ==
    FoldLeft(LAMBDA sum, i : sum + ring[i][1] * ring[i + 1][2] - ring[i + 1][1] * ring[i][2],
             0, [i \in 1..(Len(ring) - 1) |-> i])

\* The same turn for every ring.
OrientedAlike(ring, isFirst) ==
    IF Len(ring) < 4 \/ SignedArea(ring) > 0 THEN ring ELSE Reverse(ring)

\* orientedFlatRing: the first ring to the left, the others to the right.
Oriented(ring, isFirst) ==
    IF Len(ring) < 4 \/ (SignedArea(ring) > 0) = isFirst THEN ring ELSE Reverse(ring)

\* writePolygonRings.
RingsOut(g, ccw) ==
    [i \in DOMAIN g.rings |->
        Positions(IF ccw /\ g.type = "Polygon" THEN Oriented(g.rings[i], i = 1) ELSE g.rings[i], g.layout)]

\* writeGeometry.
RECURSIVE ObjectOf(_, _)
ObjectOf(g, ccw) ==
    Object(Unwrapped(g).type, RingsOut(g, ccw), [i \in DOMAIN g.parts |-> ObjectOf(g.parts[i], ccw)])

\* decodeFlatLine: the first position says what the others must have.
LayoutOfList(list) == IF list # <<>> /\ Len(list[1]) >= 3 THEN "XYZ" ELSE "XY"

\* relayoutFlat, and the padding in decodeFlatLine.
Relaid(v, layout) == [i \in 1..Stride(layout) |-> IF i <= Len(v) THEN v[i] ELSE 0]

\* decodePolygonRings.
RingsIn(lists) ==
    [i \in DOMAIN lists |->
        [j \in DOMAIN lists[i] |-> Relaid(Relaid(lists[i][j], LayoutOfList(lists[i])), LayoutOfList(lists[1]))]]

\* decodeGeometry.
RECURSIVE Decoded(_, _)
Decoded(object, crs) ==
    CASE object.type \in OfParts ->
            Collection(object.type, crs, [i \in DOMAIN object.objects |-> Decoded(object.objects[i], crs)])
      [] object.type = "Polygon" /\ object.lists = <<>> -> EmptyLeaf("Polygon", "XY", crs)
      [] OTHER -> Leaf(object.type, LayoutOfList(object.lists[1]), crs, RingsIn(object.lists))

(***************************************************************************)
(* Features: a geometry with an identifier, members of its own, and no box *)
(* or the envelope that the program gave it, which may be the empty one.   *)
(***************************************************************************)
ReservedFeatureKeys == {"type", "id", "bbox", "geometry", "properties"}

NewFeatureObject(feature, box) ==
    [id |-> feature.id,
     bbox |-> box,
     geometry |-> ObjectOf(feature.geometry, FALSE),
     keys |-> feature.foreign \ ReservedFeatureKeys]

\* A writer that gives the corners by axis.
FeatureObjectByAxis(feature) ==
    NewFeatureObject(feature,
        [i \in DOMAIN feature.bbox |->
            LET e == feature.bbox[i] IN FlattenSeq([axis \in DOMAIN e |-> <<e[1][axis], e[2][axis]>>])])

\* Feature.MarshalJSON: writeBBox, and writeForeign with its own keys only.
\* The empty envelope is infinite; json.Marshal refuses it, writeBBox drops
\* the error, and the key of the box is left without a value.
FeatureObject(feature) ==
    NewFeatureObject(feature, [i \in DOMAIN feature.bbox |-> FlattenSeq(feature.bbox[i])])

\* json.Unmarshal asks for a value after each key.
IsJson(object) == \A i \in DOMAIN object.bbox : object.bbox[i] # <<>>

\* decodeBBox: four numbers, or six with the heights left out.
Box(numbers) ==
    IF Len(numbers) = 4 THEN <<SubSeq(numbers, 1, 2), SubSeq(numbers, 3, 4)>>
    ELSE <<SubSeq(numbers, 1, 2), SubSeq(numbers, 4, 5)>>

\* Feature.UnmarshalJSON.
FeatureIn(object) ==
    [id |-> object.id,
     bbox |-> [i \in DOMAIN object.bbox |-> Box(object.bbox[i])],
     geometry |-> Decoded(object.geometry, "none"),
     foreign |-> object.keys]

-----------------------------------------------------------------------------
(***************************************************************************)
(* Package gml.  An element has a name, and what is in it: coordinate      *)
(* tuples, the boundaries of a polygon, or members that are elements.      *)
(***************************************************************************)

Element(name, tuples, boundaries, members) ==
    [name |-> name, tuples |-> tuples, boundaries |-> boundaries, members |-> members]

\* writePoint: the Z of a layout with one; NaN, and no third number, without.
PointTuples(g) == IF IsEmpty(g) THEN <<>> ELSE <<IF HasZ(g.layout) THEN SubSeq(g.rings[1][1], 1, 3) ELSE XY(g.rings[1][1])>>

MemberPoint(v) == Element("Point", <<XY(v)>>, <<>>, <<>>)

ElementName(type) == IF type = "GeometryCollection" THEN "MultiGeometry" ELSE type

\* writeCurve.
TuplesOut(g) ==
    CASE g.type = "Point" -> PointTuples(g) [] g.type \in Curves -> XYs(g.rings[1]) [] OTHER -> <<>>

\* writePolygon, writeRing: the first boundary is the outer one.
BoundariesOut(g) ==
    IF g.type = "Polygon" /\ ~IsEmpty(g) THEN [i \in DOMAIN g.rings |-> XYs(g.rings[i])] ELSE <<>>

\* writeGeom, writeMultiPoint, writeMultiLineString, writeMultiPolygon,
\* writeMultiGeometry.
RECURSIVE ElementOf(_)
ElementOf(g) ==
    Element(ElementName(g.type), TuplesOut(g), BoundariesOut(g),
            IF g.type = "MultiPoint" THEN [i \in DOMAIN g.rings[1] |-> MemberPoint(g.rings[1][i])]
            ELSE [i \in DOMAIN g.parts |-> ElementOf(g.parts[i])])

\* parsePoint: the first tuple says whether there is a Z.
PointIn(tuples) ==
    IF tuples = <<>> THEN EmptyLeaf("Point", "XY", "none")
    ELSE Leaf("Point", IF Len(tuples[1]) = 3 THEN "XYZ" ELSE "XY", "none", <<<<tuples[1]>>>>)

\* parseLineString: a ring comes back as a line.
LineIn(tuples) == Leaf("LineString", "XY", "none", <<XYs(tuples)>>)

\* parsePolygon, readBoundary, readRing.
PolygonIn(boundaries) == Leaf("Polygon", "XY", "none", [i \in DOMAIN boundaries |-> XYs(boundaries[i])])

\* parseMultiPoint keeps the points that are not empty, and not their heights.
VerticesIn(points) == FlattenSeq([i \in DOMAIN points |-> XYs(points[i].rings[1])])

\* parseMultiPoint, parseMultiLineString, parseMultiPolygon,
\* parseMultiGeometry, of the members that parseMembers found.
MultiIn(name, members) ==
    CASE name = "MultiPoint" -> Leaf("MultiPoint", "XY", "none", <<VerticesIn(members)>>)
      [] name = "MultiGeometry" -> Collection("GeometryCollection", "none", members)
      [] OTHER -> Collection(name, "none", members)

\* parseGeom: every geometry it returns is without a reference system.
RECURSIVE ParsedElement(_)
ParsedElement(element) ==
    CASE element.name = "Point" -> PointIn(element.tuples)
      [] element.name \in Curves -> LineIn(element.tuples)
      [] element.name = "Polygon" -> PolygonIn(element.boundaries)
      [] OTHER -> MultiIn(element.name, [i \in DOMAIN element.members |-> ParsedElement(element.members[i])])

=============================================================================
