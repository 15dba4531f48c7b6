------------------------------- MODULE MCSprites -------------------------------
(* Three sprites, two of them drawn, two by two pixels or two by four, on  *)
(* two lines: some start above the screen or left of it, and overlap.  The *)
(* tile is transparent along its left edge.  The tile maps are three by    *)
(* three; the screens wrap to the right, to the bottom, both or neither.   *)
EXTENDS Sprites

MCLooks == {[tile |-> "edge", flip_x |-> FALSE, flip_y |-> FALSE],
            [tile |-> "edge", flip_x |-> TRUE, flip_y |-> TRUE]}
MCClear == [t \in {"edge"} |-> {"whole", "upper", "lower"} \X {0, 1} \X {0}]

MCMaps == [m \in 1..2 |-> [place \in 0..8 |-> (place + 3 * m) % 8]]
MCScreens == {[SCX |-> 0, SCY |-> 0, map |-> 1, is_CHR_map_index_signed |-> TRUE],
              [SCX |-> 3, SCY |-> 1, map |-> 2, is_CHR_map_index_signed |-> FALSE],
              [SCX |-> 1, SCY |-> 5, map |-> 1, is_CHR_map_index_signed |-> FALSE],
              [SCX |-> 5, SCY |-> 4, map |-> 2, is_CHR_map_index_signed |-> TRUE]}

=============================================================================
