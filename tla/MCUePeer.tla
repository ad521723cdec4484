------------------------------ MODULE MCUePeer ------------------------------
(* Instances of UePeer for TLC.                                            *)
EXTENDS UePeer, TLC

IdSymmetry == Permutations(Ids)

At(lon, lat) == [lon |-> lon, lat |-> lat]

(* In tenths of a degree: two positions on the equator, 44 km apart across *)
(* the antimeridian, and one within the limit of the first only.           *)
East == At(1798, 0)
West == At(-1798, 0)
North == At(1790, 4)
MCPlaces == {East, West, North}

(* SeparationMeters between these positions and their means, in meters.    *)
Meters ==
  LET ew == Mean(East, West)
      en == Mean(East, North)
      wn == Mean(West, North)
  IN  {East, West} :> 44478     @@ {East, North} :> 99455
      @@ {West, North} :> 140651
      @@ {East, ew} :> 19992848 @@ {West, ew} :> 19992848 @@ {North, ew} :> 19895327
      @@ {East, en} :> 49728    @@ {West, en} :> 91694    @@ {North, en} :> 49727
      @@ {East, wn} :> 19983636 @@ {West, wn} :> 19944761 @@ {North, wn} :> 19920735
MCSeparation(p, q) == IF p = q THEN 0 ELSE Meters[{p, q}]
=============================================================================
