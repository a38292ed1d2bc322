---------------------------- MODULE SliceGroups ----------------------------
(***************************************************************************)
(* Flexible macroblock ordering: the map from macroblocks to slice groups, *)
(* which encoder and decoder compute from a picture parameter set, each    *)
(* with its own copy of the code (lencod/fmo.c, ldecod/fmo.c).  Operators  *)
(* only.  A picture p has its width and height in map units and its coding:*)
(* "progressive" (also a field), "interlaced" (a frame of a sequence with  *)
(* fields, without MBAFF) or "mbaff".  A pps has num_slice_groups, a type  *)
(* and what the type needs; cycle is slice_group_change_cycle.             *)
(***************************************************************************)
EXTENDS Integers, FiniteSets, SequencesExt

PicSizeInMapUnits(p) == p.width * p.height
PicSizeInMbs(p) == IF p.coding = "progressive" THEN PicSizeInMapUnits(p)
                   ELSE 2 * PicSizeInMapUnits(p)

MapUnits(p) == 0 .. PicSizeInMapUnits(p) - 1
Mbs(p) == 0 .. PicSizeInMbs(p) - 1
Groups(pps) == 0 .. pps.num_slice_groups - 1
Column(p, i) == i % p.width
Row(p, i) == i \div p.width

Smaller(a, b) == IF a < b THEN a ELSE b
Larger(a, b) == IF a > b THEN a ELSE b

-----------------------------------------------------------------------------
(* Types 0 and 1: runs of each group in turn; dispersed.                    *)
Interleaved(p, pps) ==
  LET turn == FlattenSeq([g \in 1 .. pps.num_slice_groups |->
                            [j \in 1 .. pps.run_length[g] |-> g - 1]])
  IN [i \in MapUnits(p) |-> turn[(i % Len(turn)) + 1]]

Dispersed(p, pps) ==
  LET n == pps.num_slice_groups
  IN [i \in MapUnits(p) |-> (Column(p, i) + (Row(p, i) * n) \div 2) % n]

(* Type 2: rectangles over a background; of two that overlap the lower      *)
(* group is drawn last.                                                     *)
InRectangle(p, pps, g, i) ==
  LET a == pps.top_left[g + 1]
      b == pps.bottom_right[g + 1]
  IN /\ Column(p, i) \in Column(p, a) .. Column(p, b)
     /\ Row(p, i) \in Row(p, a) .. Row(p, b)

Foreground(p, pps) ==
  LET last == pps.num_slice_groups - 1
  IN [i \in MapUnits(p) |->
        LET over == {g \in 0 .. last - 1 : InRectangle(p, pps, g, i)}
        IN IF over = {} THEN last ELSE CHOOSE g \in over : \A h \in over : g <= h]

(* Types 3 to 5 evolve: group 0 has so many map units, and more in every    *)
(* cycle.                                                                   *)
MapUnitsInGroup0(p, pps, cycle) ==
  Smaller(pps.change_rate * cycle, PicSizeInMapUnits(p))

(* Type 3, box-out: a spiral from the middle.  One turn of the loop gives   *)
(* the map unit at x, y to a group if it is vacant, and moves on.           *)
Vacant == 2

BoxMove(p, d, s) ==
  IF s.xDir = -1 /\ s.x = s.left
    THEN LET e == Larger(s.left - 1, 0)
         IN [s EXCEPT !.left = e, !.x = e, !.xDir = 0, !.yDir = 2 * d - 1]
  ELSE IF s.xDir = 1 /\ s.x = s.right
    THEN LET e == Smaller(s.right + 1, p.width - 1)
         IN [s EXCEPT !.right = e, !.x = e, !.xDir = 0, !.yDir = 1 - 2 * d]
  ELSE IF s.yDir = -1 /\ s.y = s.top
    THEN LET e == Larger(s.top - 1, 0)
         IN [s EXCEPT !.top = e, !.y = e, !.xDir = 1 - 2 * d, !.yDir = 0]
  ELSE IF s.yDir = 1 /\ s.y = s.bottom
    THEN LET e == Smaller(s.bottom + 1, p.height - 1)
         IN [s EXCEPT !.bottom = e, !.y = e, !.xDir = 2 * d - 1, !.yDir = 0]
  ELSE [s EXCEPT !.x = @ + s.xDir, !.y = @ + s.yDir]

BoxTurnCounting(p, d, units, s) ==   (* Mutant of BoxTurn. *)
  LET at == s.y * p.width + s.x
      marked == [s EXCEPT !.map[at] = IF @ # Vacant THEN @
                                      ELSE IF s.k >= units THEN 1 ELSE 0, !.k = @ + 1]
  IN IF s.k = PicSizeInMapUnits(p) THEN s ELSE BoxMove(p, d, marked)

BoxTurn(p, d, units, s) ==
  LET at == s.y * p.width + s.x
      marked == IF s.map[at] # Vacant THEN s
                ELSE [s EXCEPT !.map[at] = IF s.k >= units THEN 1 ELSE 0, !.k = @ + 1]
  IN IF s.k = PicSizeInMapUnits(p) THEN s ELSE BoxMove(p, d, marked)

(* Bound: turns of the loop.  A map unit that is still vacant after them    *)
(* would leave the code in its loop for ever.                               *)
BoxTurns(p) == 4 * (PicSizeInMapUnits(p) + p.width + p.height)

BoxOut(p, pps, cycle) ==
  LET d == pps.change_direction
      x == (p.width - d) \div 2
      y == (p.height - d) \div 2
      start == [map |-> [i \in MapUnits(p) |-> Vacant], k |-> 0, x |-> x, y |-> y,
                left |-> x, right |-> x, top |-> y, bottom |-> y,
                xDir |-> d - 1, yDir |-> d]
      turn(s, i) == BoxTurn(p, d, MapUnitsInGroup0(p, pps, cycle), s)
  IN FoldLeft(turn, start, [i \in 1 .. BoxTurns(p) |-> i]).map

(* Types 4 and 5: the first map units in raster order, or in columns; place *)
(* is the order.                                                            *)
Evolving(p, pps, cycle, place) ==
  LET d == pps.change_direction
      units == MapUnitsInGroup0(p, pps, cycle)
      upperLeft == IF d = 1 THEN PicSizeInMapUnits(p) - units ELSE units
  IN [i \in MapUnits(p) |-> IF place[i] < upperLeft THEN d ELSE 1 - d]

RasterScan(p, pps, cycle) == Evolving(p, pps, cycle, [i \in MapUnits(p) |-> i])
Wipe(p, pps, cycle) ==
  Evolving(p, pps, cycle, [i \in MapUnits(p) |-> Column(p, i) * p.height + Row(p, i)])

MapUnitToSliceGroupMap(p, pps, cycle) ==
  CASE pps.num_slice_groups = 1 -> [i \in MapUnits(p) |-> 0]
    [] pps.type = 0 -> Interleaved(p, pps)
    [] pps.type = 1 -> Dispersed(p, pps)
    [] pps.type = 2 -> Foreground(p, pps)
    [] pps.type = 3 -> BoxOut(p, pps, cycle)
    [] pps.type = 4 -> RasterScan(p, pps, cycle)
    [] pps.type = 5 -> Wipe(p, pps, cycle)
    [] OTHER -> [i \in MapUnits(p) |-> pps.slice_group_id[i + 1]]

(* The map unit of a macroblock: itself, its pair, or the two frame         *)
(* macroblocks of a unit one above the other.                               *)
MapUnitOf(p, mb) ==
  CASE p.coding = "progressive" -> mb
    [] p.coding = "mbaff" -> mb \div 2
    [] OTHER -> (mb \div (2 * p.width)) * p.width + (mb % p.width)

MbToSliceGroupMap(p, pps, cycle) ==
  LET map == MapUnitToSliceGroupMap(p, pps, cycle)
  IN [mb \in Mbs(p) |-> map[MapUnitOf(p, mb)]]

-----------------------------------------------------------------------------
(* Walking through a slice group in scan order; -1: there is no such        *)
(* macroblock.                                                              *)
GroupMbs(map, g) == {mb \in DOMAIN map : map[mb] = g}
Lowest(S) == IF S = {} THEN -1 ELSE CHOOSE mb \in S : \A other \in S : mb <= other
Highest(S) == IF S = {} THEN -1 ELSE CHOOSE mb \in S : \A other \in S : mb >= other

FmoGetFirstMBOfSliceGroup(map, g) == Lowest(GroupMbs(map, g))
FmoGetLastCodedMBOfSliceGroup(map, g) == Highest(GroupMbs(map, g))
FmoGetNextMBNr(map, mb) == Lowest({other \in GroupMbs(map, map[mb]) : other > mb})
FmoGetPreviousMBNr(map, mb) == Highest({other \in GroupMbs(map, map[mb]) : other < mb})
=============================================================================
