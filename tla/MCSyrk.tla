------------------------------- MODULE MCSyrk -------------------------------
EXTENDS Syrk

(* Three tile rows and columns: three diagonal and three off-diagonal      *)
(* tiles, two of them in one column (sharing A(n,0) on one device).        *)
MCNT == 3

(* One tile column of A, the panel update every target is written for.     *)
MCPanelKT == 1

(* Two tile columns of A: HostTask creates two updates of each C(m,n).     *)
MCWideKT == 2

(* Two devices: rows 0 and 2 on device 0, row 1 on device 1.               *)
MCDevices == 2

(* Four tile rows for the Devices run: device 1 holds four pairs, three of *)
(* them in row 3, and both devices use A(0,0), A(1,0) and A(2,0).          *)
MCDevNT == 4

=============================================================================
