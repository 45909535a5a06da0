---------------------------- MODULE MCMediaScan -----------------------------
(***************************************************************************)
(* Frames for TLC: one vehicle that fires faintly, strongly or not, drawn  *)
(* where it was or far away; two vehicles that overlap each other; a box   *)
(* that cannot be read; an empty road.                                     *)
(***************************************************************************)
EXTENDS MediaScan

Here  == [x |-> 0, y |-> 0, w |-> 10, h |-> 10]
Moved == [x |-> 4, y |-> 0, w |-> 10, h |-> 10]

Least == [side |-> 12, area |-> 2, blob |-> 2, pixels |-> 64, density |-> 15]
Faint  == [Least EXCEPT !.density = 20]
Dense  == [Least EXCEPT !.density = 80]
Tiny   == [Dense EXCEPT !.pixels = 63]

Det(box, region, conf) == [box |-> box, region |-> region, conf |-> conf]

Frames ==
  {<<>>,
   <<Det(Here, NoRegion, 5)>>,
   <<Det(Here, Faint, 5)>>,
   <<Det(Moved, Dense, 5)>>,
   <<Det(NoBox, Faint, 5), Det(Moved, Tiny, 5)>>,
   <<Det(Here, Faint, 5), Det(Moved, Tiny, 7)>>}
=============================================================================
