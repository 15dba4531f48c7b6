-------------------------------- MODULE Sprites --------------------------------
(***************************************************************************)
(* The rendering of one line (gb_DISPLAY_render_line): the background,     *)
(* then the sprites, collected from the sprite table, sorted by X, and     *)
(* drawn over it one by one.                                               *)
(*                                                                         *)
(* A sprite is named by its place in the table.  Colours are left out: of  *)
(* a sprite's tile only its transparent pixels matter, and of the picture  *)
(* only whose pixel each one is, or which pixel of which background tile.  *)
(***************************************************************************)
EXTENDS Integers, SequencesExt

CONSTANTS
    Count,              \* GB_OBJ_COUNT
    MaxPerLine,         \* GB_OBJ_MAX_PER_LINE
    Width,              \* GB_TILE_WIDTH: a tile's width and height
    ScreenW, ScreenH,   \* the screen in pixels
    ByteSpan,           \* 2^8: the values of a byte
    Xs, Ys,             \* the coordinates the program gives its sprites
    Looks,              \* the tiles and flips it gives them
    Clear,              \* the transparent pixels of each tile: <<part, row, column>>
    Lines,              \* the lines considered
    MapWidth,           \* 32: the width and height of a tile map in tiles
    Codes,              \* 2^8: the values of a tile code
    Maps,               \* the two tile maps: a code for each place
    Screens             \* the scroll positions and LCDC bits considered

ASSUME SpritesAssumption ==
    /\ Count \in Nat \ {0} /\ MaxPerLine \in Nat
    /\ Width \in Nat \ {0} /\ ScreenW \in Nat \ {0} /\ ScreenH \in Nat \ {0}
    /\ ByteSpan \in Nat /\ ByteSpan >= ScreenH + 4 * Width
    /\ Xs \subseteq 0..(ByteSpan - 1) /\ Ys \subseteq 0..(ByteSpan - 1)
    /\ \A k \in Looks : /\ k.tile \in DOMAIN Clear
                        /\ k.flip_x \in BOOLEAN /\ k.flip_y \in BOOLEAN
    /\ Lines \subseteq 0..(ScreenH - 1)
    /\ MapWidth \in Nat \ {0} /\ Codes \in Nat /\ Codes % 2 = 0
    /\ Maps \in [1..2 -> [0..(MapWidth * MapWidth - 1) -> 0..(Codes - 1)]]
    /\ \A s \in Screens :
        /\ s.SCX \in 0..(MapWidth * Width - 1) /\ s.SCY \in 0..(MapWidth * Width - 1)
        /\ s.map \in 1..2 /\ s.is_CHR_map_index_signed \in BOOLEAN

XOffset == Width
YOffset == 2 * Width
Heights == {Width, 2 * Width}       \* LCDC bit 2: 8x8 or 8x16 sprites
Columns == 0..(ScreenW - 1)
Table   == 0..(Count - 1)
Background == Count                 \* in the picture: no sprite's pixel

VARIABLES
    oam,                    \* the sprite table
    LY, OBJ_height_px,      \* of gb_screen_state_s
    screen,                 \* its scroll position, tile map and tile data area
    ground,                 \* the background pixel at each column
    phase,                  \* "background", "collect", "sort", "draw" or "done"
    i,                      \* the loop counter of the phase
    sprites,                \* the sprites collected
    picture                 \* whose pixel is seen at each column

vars == <<oam, LY, OBJ_height_px, screen, ground, phase, i, sprites, picture>>
scene == <<oam, LY, OBJ_height_px, screen>>

Init ==
    /\ oam \in [Table -> [x : Xs, y : Ys, look : Looks]]
    /\ LY \in Lines /\ OBJ_height_px \in Heights
    /\ screen \in Screens /\ ground = <<>>
    /\ phase = "background" /\ i = 0 /\ sprites = <<>>
    /\ picture = [c \in Columns |-> Background]

-----------------------------------------------------------------------------

VramW == MapWidth * Width

(* gb_DISPLAY_get_CHR_px: the tile of a code, counted from the start of    *)
(* the tile data; the signed area starts in the middle of the other.       *)
Flipped(code) == (code + (Codes \div 2)) % Codes       \* XOR 0x80

(* Slip: the code is not adjusted.                                         *)
TileUnadjusted(code) ==
    IF screen.is_CHR_map_index_signed THEN (Codes \div 2) + code ELSE code

TileOf(code) ==
    IF screen.is_CHR_map_index_signed THEN (Codes \div 2) + Flipped(code) ELSE code

(* The background loop of gb_DISPLAY_render_line: the map repeats in both  *)
(* directions.                                                             *)
DrawBackground ==
    /\ phase = "background"
    /\ ground' = [c \in Columns |->
         LET vram_x == (screen.SCX + c) % VramW
             vram_y == (screen.SCY + LY) % VramW
             place == (vram_y \div Width) * MapWidth + (vram_x \div Width)
         IN  [tile |-> TileOf(Maps[screen.map][place]), x |-> vram_x % Width, y |-> vram_y % Width]]
    /\ phase' = "collect" /\ i' = Count - 1
    /\ UNCHANGED <<scene, sprites, picture>>

(* Neither hidden nor below or above the screen; and on the line, with the *)
(* byte onscreen_y wrapping for a sprite that starts above the screen.     *)
OnScreen(s) ==
    s.y # 0 /\ s.y < ScreenH + YOffset /\ s.y + OBJ_height_px >= YOffset

(* Slip: the line below the sprite still counts as its own.                *)
OnLineBelow(s) ==
    LET onscreen_y == (s.y - YOffset) % ByteSpan
    IN  onscreen_y + OBJ_height_px >= LY /\ onscreen_y <= LY

(* Slip: tall sprites are taken for short ones.                            *)
OnLineShort(s) ==
    LET onscreen_y == (s.y - YOffset) % ByteSpan
    IN  onscreen_y + Width > LY /\ onscreen_y <= LY

OnLine(s) ==
    LET onscreen_y == (s.y - YOffset) % ByteSpan
    IN  onscreen_y + OBJ_height_px > LY /\ onscreen_y <= LY

(* gb_DISPLAY_collect_intersecting_sprites, from the last sprite down.     *)
Collect ==
    /\ phase = "collect" /\ i >= 0
    /\ sprites' = IF OnScreen(oam[i]) /\ OnLine(oam[i])
                  THEN Append(sprites, i) ELSE sprites
    /\ i' = i - 1
    /\ UNCHANGED <<scene, ground, phase, picture>>

Collected ==
    /\ phase = "collect" /\ i < 0
    /\ phase' = "sort" /\ i' = 2
    /\ UNCHANGED <<scene, ground, sprites, picture>>

(* Slip: the sprite also passes those with the same X.                     *)
InsertUnstable ==
    /\ phase = "sort" /\ i <= Len(sprites)
    /\ LET tmp == sprites[i]
           stay == {j \in 1..(i - 1) : oam[sprites[j]].x < oam[tmp].x}
           after == IF stay = {} THEN 0 ELSE CHOOSE j \in stay : \A k \in stay : k <= j
       IN  sprites' = InsertAt(RemoveAt(sprites, i), after + 1, tmp)
    /\ i' = i + 1
    /\ UNCHANGED <<scene, ground, phase, picture>>

(* gb_DISPLAY_sort_sprites_X: an insertion sort.  The next sprite goes     *)
(* after the last one before it that is not to its right.                  *)
Insert ==
    /\ phase = "sort" /\ i <= Len(sprites)
    /\ LET tmp == sprites[i]
           stay == {j \in 1..(i - 1) : oam[sprites[j]].x <= oam[tmp].x}
           after == IF stay = {} THEN 0 ELSE CHOOSE j \in stay : \A k \in stay : k <= j
       IN  sprites' = InsertAt(RemoveAt(sprites, i), after + 1, tmp)
    /\ i' = i + 1
    /\ UNCHANGED <<scene, ground, phase, picture>>

(* Slip: the sort stops before the last sprite.                            *)
SortedEarly ==
    /\ phase = "sort" /\ i >= Len(sprites)
    /\ phase' = "draw" /\ i' = 1
    /\ UNCHANGED <<scene, ground, sprites, picture>>

Sorted ==
    /\ phase = "sort" /\ i > Len(sprites)
    /\ phase' = "draw" /\ i' = 1
    /\ UNCHANGED <<scene, ground, sprites, picture>>

(* gb_DISPLAY_get_OBJ_px: the pixel of the tile at column x of row y.  A   *)
(* tall sprite is two tiles; which one does not depend on the flip.        *)
Texel(s, x, y) ==
    LET sprite_y == IF s.look.flip_y THEN OBJ_height_px - 1 - y ELSE y
        sprite_x == IF s.look.flip_x THEN Width - 1 - x ELSE x
        part == IF OBJ_height_px = Width THEN "whole"
                ELSE IF y < Width THEN "upper" ELSE "lower"
    IN  <<part, sprite_y % Width, sprite_x>>

Row(s) == LY - (s.y - YOffset)

(* The columns where gb_DISPLAY_render_sprite_line puts an opaque pixel:   *)
(* gbdisp_putpixel drops the transparent ones.                             *)
Inked(s) ==
    {c \in Columns :
        LET x == c - (s.x - XOffset)
        IN  x \in 0..(Width - 1) /\ Texel(s, x, Row(s)) \notin Clear[s.look.tile]}

Draw ==
    /\ phase = "draw" /\ i <= Len(sprites) /\ i <= MaxPerLine
    /\ picture' = [c \in Columns |->
                     IF c \in Inked(oam[sprites[i]]) THEN sprites[i] ELSE picture[c]]
    /\ i' = i + 1
    /\ UNCHANGED <<scene, ground, phase, sprites>>

Drawn ==
    /\ phase = "draw" /\ (i > Len(sprites) \/ i > MaxPerLine)
    /\ phase' = "done"
    /\ UNCHANGED <<scene, ground, i, sprites, picture>>

Next == DrawBackground \/ Collect \/ Collected \/ Insert \/ Sorted \/ Draw \/ Drawn

Spec == Init /\ [][Next]_vars

-----------------------------------------------------------------------------

TypeOK ==
    /\ phase \in {"background", "collect", "sort", "draw", "done"}
    /\ i \in -1..(Count + 1)
    /\ sprites \in Seq(Table) /\ Len(sprites) <= Count     \* the buffer's size
    /\ picture \in [Columns -> Table \cup {Background}]

(* The sprites drawn by the end, and those that were left out.             *)
Shown   == {sprites[k] : k \in 1..(IF Len(sprites) < MaxPerLine THEN Len(sprites) ELSE MaxPerLine)}
Omitted == {sprites[k] : k \in 1..Len(sprites)} \ Shown

(* The assertion in gb_DISPLAY_render_sprite_line: whatever was collected, *)
(* the row drawn is one of the sprite's rows.                              *)
RowsExist ==
    \A k \in 1..Len(sprites) : Row(oam[sprites[k]]) \in 0..(OBJ_height_px - 1)

(* No sprite that starts on the screen and meets the line is lost, nor any *)
(* drawn twice, by the collection or by the sort.                          *)
EachOnce ==
    phase \in {"sort", "draw", "done"} =>
        /\ \A k, m \in 1..Len(sprites) : sprites[k] = sprites[m] => k = m
        /\ \A n \in Table :
              oam[n].y >= YOffset /\ Row(oam[n]) \in 0..(OBJ_height_px - 1)
                => \E k \in 1..Len(sprites) : sprites[k] = n

(* Past the limit, the comment on priorities drops the lower ones: no      *)
(* sprite left out is to the left of one that is drawn.                    *)
LimitKeepsLeftmost ==
    phase = "done" => \A m \in Omitted, n \in Shown : oam[n].x <= oam[m].x

(* The comment's second rule: of sprites drawn with the same X, the first  *)
(* in the table is seen; and no drawn pixel is ever lost to the background.*)
TableOrderBreaksTies ==
    phase = "done" =>
        \A n \in Shown : \A c \in Inked(oam[n]) :
            /\ picture[c] # Background
            /\ oam[picture[c]].x = oam[n].x => picture[c] <= n

(* What is seen at a column is the place of the endless tiling it looks    *)
(* at, whichever way it is addressed: in the signed area a code is the     *)
(* distance of its tile from tile 100h (display.c:173, 319-344).           *)
SignedCode(code) == IF code >= Codes \div 2 THEN code - Codes ELSE code

TilingIsSeamless ==
    phase = "done" =>
        \A c \in Columns : \E col, row \in 0..(MapWidth - 1) :
            LET g == ground[c]
                code == Maps[screen.map][row * MapWidth + col]
            IN  /\ (col * Width + g.x - c - screen.SCX) % VramW = 0
                /\ (row * Width + g.y - LY - screen.SCY) % VramW = 0
                /\ g.x \in 0..(Width - 1) /\ g.y \in 0..(Width - 1)
                /\ g.tile = IF screen.is_CHR_map_index_signed THEN Codes + SignedCode(code) ELSE code

(* The comment's first rule: of overlapping sprites the one "with the      *)
(* smaller x coordinate (closer to the left)" appears above the others.    *)
SmallerXAbove ==
    phase = "done" =>
        \A n \in Shown : \A c \in Inked(oam[n]) : oam[picture[c]].x <= oam[n].x

=============================================================================
