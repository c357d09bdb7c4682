---------------------------- MODULE MCBootSect ----------------------------
(***************************************************************************)
(* Segments of 8 sectors instead of 128, disks of 7, 5 or 4 sectors per    *)
(* track, so that segments end within tracks and tracks within segments;   *)
(* a system of two segments and a bit under the limit of three.            *)
(***************************************************************************)
EXTENDS BootSect

MCDisksizes == <<7, 5, 4>>
=============================================================================
