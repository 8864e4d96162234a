----------------------------- MODULE GeoCommands -----------------------------
(***************************************************************************)
(* commands/redis/geospatial_commands.cpp.  A coordinate is a cell number  *)
(* in 0..2^GeoBits, the largest one standing for the upper limit itself;   *)
(* the score of a place is the geohash of its cells.  How far a place is   *)
(* from a point is the constant Distance (haversine in the code).          *)
(***************************************************************************)
EXTENDS ZSetCommands
LOCAL INSTANCE SequencesExt
LOCAL INSTANCE FiniteSetsExt

CONSTANTS GeoBits,              \* 26 in the code
          Distance(_, _)        \* of two points [lon, lat]

BitAt(n, i) == (n \div 2^i) % 2

\* Mutant: the top bit is lost.
interleaveBelow(x, y) ==
    MapThenSumSet(LAMBDA i : BitAt(x, i) * 2^(2 * i) + BitAt(y, i) * 2^(2 * i + 1), 0..GeoBits - 1)

\* x in the even places, y in the odd ones.
interleave64(x, y) ==
    MapThenSumSet(LAMBDA i : BitAt(x, i) * 2^(2 * i) + BitAt(y, i) * 2^(2 * i + 1), 0..GeoBits)

Even(n) == MapThenSumSet(LAMBDA i : BitAt(n, 2 * i) * 2^i, 0..GeoBits)

\* The upper limits take one bit more than the 26 of a cell.
Geohash52(p) == interleave64(p.lat, p.lon)

DecodeGeohash(hash) == [lat |-> Even(hash), lon |-> Even(hash \div 2)]

\* The 4-bit digits of the lower 2 * GeoBits bits, the highest first.
GeohashToString(hash) ==
    LET n == (2 * GeoBits) \div 4 IN [i \in 1..n |-> (hash \div 2^(2 * GeoBits - 4 * i)) % 16]

\* static_cast<double>: the score has 2 * GeoBits + 1 bits (53).  A hash with
\* one more, that of longitude 180, loses its lowest; the bit above that one is
\* then 0, so a half is rounded down.
DoubleOf(hash) == IF hash >= 2^(2 * GeoBits + 1) THEN hash - (hash % 2) ELSE hash

\* The number of arguments is tested before the options are taken off, so they
\* pass only with as many arguments left over at the end, which are ignored, as
\* make up a multiple of three.
HandleGeoAdd(d, k, options, places, left) ==
    LET Given(o) == \E i \in DOMAIN options : options[i] = o
        Exists(db, i) == ZScoreReply(db, k, places[i].member) # Nil
        Skipped(db, i) == Given(IF Exists(db, i) THEN "NX" ELSE "XX")
        Step[i \in 0..Len(places)] ==
            IF i = 0 THEN Touch(d, k)
            ELSE IF Skipped(Step[i - 1], i) THEN Step[i - 1]
            ELSE ZAdd(Step[i - 1], k, DoubleOf(Geohash52(places[i].point)), places[i].member)
        counted == {i \in DOMAIN places :
                        /\ ~Skipped(Step[i - 1], i)
                        /\ ~Exists(Step[i - 1], i) \/ Given("CH")}
    IN IF (Len(options) + left) % 3 # 0 \/ (Given("NX") /\ Given("XX")) THEN Result(d, Error)
       ELSE Result(Step[Len(places)], Cardinality(counted))

PointOf(d, k, m) == DecodeGeohash(ZScoreReply(d, k, m))

IsPlace(d, k, m) == ZScoreReply(d, k, m) # Nil

HandleGeoDist(d, k, m1, m2) ==
    Result(Touch(d, k), IF IsPlace(d, k, m1) /\ IsPlace(d, k, m2)
                        THEN Distance(PointOf(d, k, m1), PointOf(d, k, m2)) ELSE Nil)

HandleGeoHash(d, k, m) ==
    Result(Touch(d, k), IF IsPlace(d, k, m) THEN GeohashToString(ZScoreReply(d, k, m)) ELSE Nil)

HandleGeoPos(d, k, m) == Result(Touch(d, k), IF IsPlace(d, k, m) THEN PointOf(d, k, m) ELSE Nil)

-----------------------------------------------------------------------------
(* Searches.  A result entry is [member, distance]; a count of zero is     *)
(* none except for GEORADIUS, where count is Nil if it is not given.       *)

Places(d, k, center) ==
    LET s == RankedMembers(d, k)
    IN [i \in DOMAIN s |-> [member |-> s[i].member, distance |-> Distance(center, DecodeGeohash(s[i].score))]]

\* std::sort leaves the order of equal distances open.
ByDistance(s, ascending) ==
    LET Nearer(x, y) == x.distance < y.distance \/ (x.distance = y.distance /\ LexLess(x.member, y.member))
    IN SetToSortSeq({s[i] : i \in DOMAIN s}, LAMBDA x, y : IF ascending THEN Nearer(x, y) ELSE Nearer(y, x))

FirstFew(s, count) == IF count < Len(s) THEN SubSeq(s, 1, count) ELSE s

Within(s, radius) == SelectSeq(s, LAMBDA e : e.distance <= radius)

\* GEORADIUS_RO calls it too.
HandleGeoRadius(d, k, center, radius, count) ==
    LET s == ByDistance(Within(Places(d, k, center), radius), TRUE)
    IN Result(Touch(d, k), IF count = Nil THEN s ELSE FirstFew(s, count))

\* GEORADIUSBYMEMBER_RO calls it too.
HandleGeoRadiusByMember(d, k, m, radius, ascending, count) ==
    LET s == ByDistance(Within(Places(d, k, PointOf(d, k, m)), radius), ascending)
    IN Result(Touch(d, k), IF ~IsPlace(d, k, m) THEN <<>> ELSE IF count > 0 THEN FirstFew(s, count) ELSE s)

\* GEOSEARCH BYRADIUS lon lat radius
HandleGeoSearchByRadius(d, k, center, radius, count) ==
    LET s == ByDistance(Within(Places(d, k, center), radius), TRUE)
    IN Result(Touch(d, k), IF count > 0 THEN FirstFew(s, count) ELSE s)

\* GEOSEARCH FROMMEMBER member radius: the radius is read and not used.
HandleGeoSearchFromMember(d, k, m, count) ==
    LET s == ByDistance(Places(d, k, PointOf(d, k, m)), TRUE)
    IN Result(Touch(d, k), IF ~IsPlace(d, k, m) THEN <<>> ELSE IF count > 0 THEN FirstFew(s, count) ELSE s)

\* GEOSEARCH FROMLONLAT lon lat: the radius is zero, the order that of the zset.
HandleGeoSearchFromLonLat(d, k, center, count) ==
    LET s == Within(Places(d, k, center), 0)
    IN Result(Touch(d, k), IF count > 0 THEN FirstFew(s, count) ELSE s)

\* GEOSEARCHSTORE is a stub.
HandleGeoSearchStore(d) == Result(d, Error)

=============================================================================
