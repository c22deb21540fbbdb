------------------------------ MODULE MCImages ------------------------------
(* Tracks of four words of two characters: an image that fills a track,    *)
(* one that crosses a cylinder, one of no words and one the loader does    *)
(* not take; words at and beyond the limits of a sector.                   *)
EXTENDS Images

MCImage == [full |-> <<10, 99, -9, 1>>, three |-> <<5, 100, -10>>,
            empty |-> <<>>, long |-> <<1, 2, 3, 4, 7>>, one |-> <<-123>>]
MCPrograms == DOMAIN MCImage

(* The first sector of the disk, which the test programs write, and the    *)
(* last of the next track.                                                 *)
MCTargets == {[track |-> 0, cylinder |-> 0, sector |-> 0],
              [track |-> 1, cylinder |-> 1, sector |-> 1]}
=============================================================================
