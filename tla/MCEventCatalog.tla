--------------------------- MODULE MCEventCatalog ---------------------------
(* A TLC instance of EventCatalog: two events of one day and one of the next, *)
(* which a flush may still put into the first day's directory.                *)
EXTENDS EventCatalog

MCDayOf == <<1, 1, 2>>
=============================================================================
