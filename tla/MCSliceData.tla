---------------------------- MODULE MCSliceData ----------------------------
(* Small pictures, with a slice group map of each type.                     *)
EXTENDS SliceData

Frame(w, h, coding) == [width |-> w, height |-> h, coding |-> coding]

(* The evolving types take change_rate and change_direction, the others     *)
(* what their map is made of.                                               *)
OneGroup == [num_slice_groups |-> 1, type |-> 0]
Runs == [num_slice_groups |-> 2, type |-> 0, run_length |-> <<1, 2>>]
Scattered(n) == [num_slice_groups |-> n, type |-> 1]
Rectangle == [num_slice_groups |-> 3, type |-> 2, top_left |-> <<1, 0>>, bottom_right |-> <<4, 3>>]
Evolves(type, direction, rate) ==
  [num_slice_groups |-> 2, type |-> type, change_direction |-> direction, change_rate |-> rate]
Listed == [num_slice_groups |-> 2, type |-> 6, slice_group_id |-> <<1, 0, 1, 1, 0, 0>>]

Job(p, pps, mode, cabac, intra) ==
  [picture |-> p, pps |-> pps, cycle |-> 1, mode |-> mode, argument |-> 2,
   cabac |-> cabac, intra |-> intra, MbInterlace |-> p.coding = "mbaff"]

(* A field, when the frames of the sequence are in MBAFF.                   *)
Field(p, pps, mode, cabac, intra) ==
  [Job(p, pps, mode, cabac, intra) EXCEPT !.MbInterlace = TRUE]

Coder == {[cabac |-> c, intra |-> i] : c \in BOOLEAN, i \in BOOLEAN}

MCJobs ==
  (* limited slices: the encoder takes macroblocks back *)
  {Job(Frame(3, 2, "progressive"), pps, "FIXED_RATE", c.cabac, c.intra) :
     pps \in {OneGroup, Rectangle}, c \in Coder}
  \cup
  (* every mode and every type of map *)
  {Job(Frame(3, 2, "progressive"), pps, mode, c.cabac, c.intra) :
     pps \in {Runs, Rectangle, Listed}, mode \in {"NO_SLICES", "FIXED_MB", "CALL_BACK"},
     c \in Coder}
  \cup
  {Job(Frame(1, 2, coding), pps, mode, cabac, FALSE) :
     coding \in {"interlaced", "mbaff"}, pps \in {OneGroup, Scattered(2)},
     mode \in {"NO_SLICES", "FIXED_MB"}, cabac \in BOOLEAN}
  \cup
  {Job(Frame(3, 1, "mbaff"), Evolves(4, 0, 1), "FIXED_MB", cabac, FALSE) : cabac \in BOOLEAN}
  \cup
  (* pairs in limited slices, with and without CABAC *)
  {Job(Frame(3, 1, "mbaff"), OneGroup, "FIXED_RATE", c, ~c) : c \in BOOLEAN}
  \cup
  {Field(Frame(2, 2, "progressive"), Scattered(2), mode, c.cabac, c.intra) :
     mode \in {"FIXED_MB", "CALL_BACK"}, c \in Coder}
  \cup
  (* the evolving types, with one way of coding *)
  {[Job(Frame(w, h, "progressive"), Evolves(type, direction, rate), "NO_SLICES", TRUE, TRUE)
      EXCEPT !.cycle = cycle] :
     w \in 1 .. 4, h \in 1 .. 3, type \in 3 .. 5, direction \in {0, 1}, rate \in {1, 2},
     cycle \in 0 .. 3}

(* An MBAFF picture in slices of limited size.                              *)
PairsOfLimitedSlices ==
  {Job(Frame(2, 2, "mbaff"), OneGroup, "FIXED_RATE", TRUE, FALSE)}

ASSUME JobsOfProofs == RunsWithPairs /\ PlacesKept
=============================================================================
