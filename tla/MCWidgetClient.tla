--------------------------- MODULE MCWidgetClient ---------------------------
(* Small instances of WidgetClient for TLC.                                 *)
EXTENDS WidgetClient
=============================================================================
