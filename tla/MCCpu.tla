--------------------------------- MODULE MCCpu ---------------------------------
(* Bytes around every boundary a carry or a sign makes, decimal bytes with *)
(* digits that carry and borrow, and for the other routines words whose    *)
(* two bytes differ.                                                       *)
EXTENDS CpuPrograms

MCRom      == ProgramRom
MCOperands == {0, 1, 127, 128, 255}
MCDecimals == {0, 9, \h50, \h45, \h99}
MCFew      == {0, 1, \h80FF, \h7F80, \h3A85}
MCCorners  == {\h80FF, \h3A85}

=============================================================================
