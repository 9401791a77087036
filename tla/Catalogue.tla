------------------------------ MODULE Catalogue ------------------------------
(***************************************************************************)
(* What the public catalogue shows of a listing.  The service asks the     *)
(* database in two languages: through Prisma, and in SQL of its own when   *)
(* the search is around a point; both have to find the same listings, at   *)
(* the place and the distance the response then tells.                     *)
(*                                                                         *)
(* A coordinate is a multiple of a hundredth of a degree, and distances    *)
(* are taken along one axis and in the same unit.  Texts, categories to    *)
(* choose from, areas, sorting and the offset into the list are left out.  *)
(***************************************************************************)
EXTENDS Integers

Absent == -1                \* a parameter of the query that is not given

Cell == 10                  \* SPARSE_COARSE_CELL_DEGREES
Half == Cell \div 2
MaxRadius == 50

\* An entry is what the conditions ask of a listing: [status, listable, active, price, stays],
\* with the state of its category and of its owner, and the periods of its bookings that are
\* PENDING, CONFIRMED or ACTIVE.  A query is [min, max, from, to, at, radius].

\* ensurePriceRange, getAvailabilityFilter and getGeoFilter accept the query.
Accepted(q) ==
  /\ q.min # Absent /\ q.max # Absent => q.min <= q.max
  /\ (q.from = Absent) = (q.to = Absent)
  /\ q.from # Absent => q.from <= q.to
  /\ q.radius # Absent => q.at # Absent /\ q.radius \in 1 .. MaxRadius

Radius(q) == IF q.radius = Absent THEN MaxRadius ELSE q.radius

-----------------------------------------------------------------------------
\* getPublicById.
PublicById(entry) == entry.status = "APPROVED" /\ entry.listable /\ entry.active

\* buildPublicWhere.
PublicWhere(entry, q) ==
  /\ entry.status = "APPROVED" /\ entry.listable /\ entry.active
  /\ q.min # Absent => entry.price >= q.min
  /\ q.max # Absent => entry.price <= q.max
  /\ q.from # Absent =>
       ~\E stay \in entry.stays : stay.first <= q.to /\ stay.last >= q.from

\* A favorite can be added if getPublicById finds it, and is listed while an empty query does.
Favorite(entry) ==
  PublicWhere(entry, [min |-> Absent, max |-> Absent, from |-> Absent, to |-> Absent,
                      at |-> Absent, radius |-> Absent])

\* As if the day a booking ends were free again.
RawConditionsTouching(entry, q) ==
  /\ entry.status = "APPROVED" /\ entry.listable /\ entry.active
  /\ q.min = Absent \/ entry.price >= q.min
  /\ q.max = Absent \/ entry.price <= q.max
  /\ q.from = Absent \/ \A stay \in entry.stays : stay.first > q.to \/ stay.last <= q.from

\* buildRawPublicConditions.
RawConditions(entry, q) ==
  /\ entry.status = "APPROVED" /\ entry.listable /\ entry.active
  /\ q.min = Absent \/ entry.price >= q.min
  /\ q.max = Absent \/ entry.price <= q.max
  /\ q.from = Absent \/ \A stay \in entry.stays : stay.first > q.to \/ stay.last < q.from

-----------------------------------------------------------------------------
Least(a, b) == IF a < b THEN a ELSE b
Greatest(a, b) == IF a > b THEN a ELSE b

\* toSparseCellCenter: the middle of the cell, moved back into the range of the axis.
SparseCellCenter(value, min, max) ==
  Least(max - Half, Greatest(min + Half, min + ((value - min) \div Cell) * Cell + Half))

\* buildRawPublicItemPoint, whose steps are the same.
RawItemPoint(value, min, max) ==
  LET cell == (value - min) \div Cell IN
  IF min + cell * Cell + Half > max - Half THEN max - Half
  ELSE IF min + cell * Cell + Half < min + Half THEN min + Half
  ELSE min + cell * Cell + Half

Distance(a, b) == IF a > b THEN a - b ELSE b - a

\* toDistanceBucket, by its upper end in kilometers.
DistanceBucket(d) ==
  CASE d < 1 -> 1 [] d < 3 -> 3 [] d < 5 -> 5 [] d < 10 -> 10 [] d < 25 -> 25
    [] d <= MaxRadius -> MaxRadius [] OTHER -> Absent

\* listPublicByGeo: found by the conditions and the radius in SQL, then read once more.
FoundByGeo(entry, place, q, min, max) ==
  /\ RawConditions(entry, q)
  /\ Distance(RawItemPoint(place, min, max), q.at) <= Radius(q)
  /\ PublicWhere(entry, q)

\* The response tells the place of the cell and how far away it is.
GeoResponse(place, q, min, max) ==
  [place |-> SparseCellCenter(place, min, max),
   bucket |-> DistanceBucket(Distance(RawItemPoint(place, min, max), q.at))]
=============================================================================
