---------------------------- MODULE FormatChain ----------------------------
(***************************************************************************)
(* A program that hands a geometry from format to format: it writes the    *)
(* geometry, reads what it wrote, and goes on with what it read.  In       *)
(* between it moves the geometry and stamps a reference system on it.      *)
(***************************************************************************)
EXTENDS Formats

CONSTANTS
    Geometries0,    \* the geometries it starts from
    Systems,        \* the reference systems it stamps
    MaxPasses       \* the bound on the passes through a format

VARIABLES
    original,       \* the geometry at the start, moved as often as the other
    feature,        \* the geometry as it is now, as a feature
    used,           \* the formats it went through
    stamp,          \* the last reference system it was given
    since,          \* the formats since then
    boxed,          \* the program gave the feature a box, after the last move
    textFirst,      \* a text was read while no web format had been used
    passes,         \* the number of passes
    refused         \* what could not be read of what was written

vars == <<original, feature, used, stamp, since, boxed, textFirst, passes, refused>>

geometry == feature.geometry

Texts == {"WKT", "EWKT"}
WebFormats == {"GeoJSON", "CCW", "GML"}
Formats == Texts \cup {"WKB", "EWKB"} \cup WebFormats

Id == "id"
Foreign == {"title", "id"}

Init ==
    /\ original \in Geometries0
    /\ stamp = original.crs
    /\ feature = [id |-> Id, bbox |-> <<>>, geometry |-> original, foreign |-> Foreign]
    /\ used = {} /\ since = {} /\ boxed = FALSE /\ textFirst = FALSE
    /\ passes = 0 /\ refused = "nothing"

\* Another pass: what was read takes the place of what was written.
PassFeature(format, read) ==
    /\ feature' = read
    /\ used' = used \cup {format} /\ since' = since \cup {format}
    /\ textFirst' = (textFirst \/ (format \in Texts /\ used \cap WebFormats = {}))
    /\ passes' = passes + 1
    /\ UNCHANGED <<original, stamp, refused>>

Pass(format, read) == PassFeature(format, [feature EXCEPT !.geometry = read]) /\ UNCHANGED boxed

\* The program gives up where what it wrote cannot be read.
Refuse(what) ==
    /\ refused' = what
    /\ UNCHANGED <<original, feature, used, stamp, since, boxed, textFirst, passes>>

MayPass == passes < MaxPasses /\ refused = "nothing"

\* wkt.Marshal or MarshalEWKT, and Unmarshal.
ThroughText(format) ==
    LET text == TextOf(geometry)
    IN  /\ MayPass
        /\ IsReadable(text)
        /\ Pass(format, Parsed(text, IF format = "EWKT" THEN SridOf(geometry.crs) ELSE "none"))

RefusedAsText ==
    /\ MayPass
    /\ ~IsReadable(TextOf(geometry))
    /\ Refuse("text")

\* wkb.Marshal, as EWKB or with WithISO, and Unmarshal.
ThroughBinary(format) ==
    LET iso == format = "WKB"
    IN  MayPass /\ Pass(format, ReadRecord(RecordOf(geometry, iso, SridFor(geometry, iso)), "none"))

\* geojson.Marshal, plain or with WithForceCCW, and Unmarshal.
ThroughObject(format) ==
    MayPass /\ Pass(format, Decoded(ObjectOf(geometry, format = "CCW"), "none"))

\* The program leaves a feature's box as it is, or gives it the envelope of its
\* geometry for a box.
Boxes == {feature.bbox, <<Envelope(geometry)>>}

ObjectWith(box) == FeatureObject([feature EXCEPT !.bbox = box])

\* Feature.MarshalJSON and UnmarshalJSON.
ThroughFeature ==
    \E box \in Boxes :
        /\ MayPass
        /\ IsJson(ObjectWith(box))
        /\ PassFeature("GeoJSON", FeatureIn(ObjectWith(box)))
        /\ boxed' = (box # <<>>)

RefusedAsFeature ==
    /\ MayPass
    /\ \E box \in Boxes : ~IsJson(ObjectWith(box))
    /\ Refuse("feature")

\* gml.Marshal and Unmarshal.
ThroughElement == MayPass /\ Pass("GML", ParsedElement(ElementOf(geometry)))

\* geom.Edit; the box is no longer the geometry's.
Move ==
    /\ MayPass /\ passes = 1 /\ boxed
    /\ original' = Edit(original)
    /\ feature' = [feature EXCEPT !.geometry = Edit(geometry), !.bbox = <<>>]
    /\ boxed' = FALSE
    /\ UNCHANGED <<used, stamp, since, textFirst, passes, refused>>

\* geom.WithCRS.
Stamp(crs) ==
    /\ MayPass /\ passes = 1 /\ since # {}
    /\ feature' = [feature EXCEPT !.geometry = WithCRS(geometry, crs)]
    /\ stamp' = crs /\ since' = {}
    /\ UNCHANGED <<original, used, boxed, textFirst, passes, refused>>

Over == ~MayPass /\ UNCHANGED vars

Next ==
    \/ \E format \in Texts : ThroughText(format)
    \/ RefusedAsText
    \/ \E format \in {"WKB", "EWKB"} : ThroughBinary(format)
    \/ \E format \in {"GeoJSON", "CCW"} : ThroughObject(format)
    \/ ThroughFeature
    \/ RefusedAsFeature
    \/ ThroughElement
    \/ Move
    \/ \E crs \in Systems : Stamp(crs)
    \/ Over

Spec == Init /\ [][Next]_vars

-----------------------------------------------------------------------------
RECURSIVE IsGeometry(_)
IsGeometry(g) ==
    /\ g.layout \in Layouts
    /\ \A i \in DOMAIN g.rings : \A j \in DOMAIN g.rings[i] : Len(g.rings[i][j]) = Stride(g.layout)
    /\ g.type \in OfParts => g.rings = <<>> /\ \A i \in DOMAIN g.parts : IsGeometry(g.parts[i])
    /\ g.type \in {"Point", "MultiPoint"} \cup Curves => Len(g.rings) = 1
    /\ g.type \notin OfParts => g.parts = <<>>

(***************************************************************************)
(* What the formats lose, however often, and with one exception whatever   *)
(* their order.                                                            *)
(***************************************************************************)
JsonUsed == used \cap {"GeoJSON", "CCW"} # {}

\* GML keeps the heights of points, and no others (package gml's own words are
\* that a tuple has its Z); GeoJSON keeps all heights; neither keeps M, and
\* neither knows the layout of what is empty.
LayoutLeft(g) ==
    CASE "GML" \in used -> IF g.type = "Point" /\ ~IsEmpty(g) /\ HasZ(g.layout) THEN "XYZ" ELSE "XY"
      [] "GML" \notin used /\ JsonUsed -> IF ~IsEmpty(g) /\ HasZ(g.layout) THEN "XYZ" ELSE "XY"
      [] OTHER -> g.layout

TypeLeft(g) ==
    IF used \subseteq Texts THEN g.type ELSE Unwrapped(g).type

\* A reference system lives on in the extended formats, if it has a number.
SystemLeft ==
    IF since = {} \/ (since \subseteq {"EWKT", "EWKB"} /\ stamp = "EPSG") THEN stamp ELSE "none"

\* A ring runs to the left if it does so at its lowest leftmost vertex.
RunsLeft(ring) ==
    LET n == Len(ring) - 1
        k == CHOOSE k \in 1..n : \A j \in 1..n :
                ring[k][1] < ring[j][1] \/ (ring[k][1] = ring[j][1] /\ ring[k][2] <= ring[j][2])
        a == ring[IF k = 1 THEN n ELSE k - 1]
        b == ring[k]
        c == ring[k + 1]
    IN  (b[1] - a[1]) * (c[2] - b[2]) > (b[2] - a[2]) * (c[1] - b[1])

TurnLeft(g, ring, i) ==
    IF "CCW" \in used /\ g.type = "Polygon" /\ ring # <<>> /\ RunsLeft(ring) # (i = 1)
    THEN Reverse(ring) ELSE ring

\* Text has one layout word for the lines or polygons of a geometry: of parts
\* with as many ordinates, the M of the one is read as the Z of the other.
\* A web format that comes before it has dropped the M.
PartIn(g, part) ==
    IF textFirst /\ g.type \in {"MultiLineString", "MultiPolygon"} THEN [part EXCEPT !.layout = g.layout]
    ELSE part

RECURSIVE Left(_)
Left(g) ==
    LET parts == [i \in DOMAIN g.parts |-> Left(PartIn(g, g.parts[i]))]
        ordinates == Stride(LayoutLeft(g))
        vertices(ring) == [j \in DOMAIN ring |-> SubSeq(ring[j], 1, ordinates)]
    IN  IF g.type \in OfParts
        THEN IF used = {} THEN NewCollection(g.type, g.layout, SystemLeft, parts)
             ELSE Collection(g.type, SystemLeft, parts)
        ELSE Leaf(TypeLeft(g), LayoutLeft(g), SystemLeft,
                  [i \in DOMAIN g.rings |-> vertices(TurnLeft(g, g.rings[i], i))])

\* The writer has no word for an empty ring or line within another geometry,
\* and one layout word for all parts.
RECURSIVE IsUnreadable(_)
IsUnreadable(g) ==
    CASE g.type = "Polygon" -> \E i \in DOMAIN g.rings : g.rings[i] = <<>>
      [] g.type \in {"MultiLineString", "MultiPolygon"} ->
            \E i \in DOMAIN g.parts :
                \/ IsEmpty(g.parts[i])
                \/ Stride(g.parts[i].layout) # Stride(g.layout)
                \/ IsUnreadable(g.parts[i])
      [] g.type = "GeometryCollection" -> \E i \in DOMAIN g.parts : IsUnreadable(g.parts[i])
      [] OTHER -> FALSE

EnvelopesOf(g, type) ==
    LET c == ComponentsOf(g, type) IN [i \in DOMAIN c |-> Envelope(c[i])]

\* A chain of formats loses what its formats lose, nothing by going through
\* one twice, and by their order only this: text gives lines and polygons of
\* different layouts the first one's.  What is left has the shape of its type
\* and layout; text is refused only for empty or mixed parts, and a feature
\* only when it was given the box of a geometry without any vertex; each
\* element stays the element it was, where it was; and a feature that is read
\* again keeps its box, or that it has none, and its own members.
\* (wkt, wkb, geojson and gml, Marshal and Unmarshal.)
LossIsByFormat ==
    /\ IsGeometry(geometry) /\ geometry = Left(original)
    /\ refused = "text" => IsUnreadable(geometry)
    /\ textFirst => ~IsUnreadable(original)
    /\ refused = "feature" => \A c \in ToSet(Components(geometry)) : ~HasVertex(c)
    /\ \A type \in {"Point", "LineString", "Polygon"} :
          EnvelopesOf(geometry, type) = EnvelopesOf(original, type)
    /\ feature.bbox = IF boxed THEN <<Envelope(original)>> ELSE <<>>
    /\ feature.bbox # <<<<>>>>
    /\ feature.id = Id /\ feature.foreign \in {Foreign, Foreign \ ReservedFeatureKeys}

=============================================================================
