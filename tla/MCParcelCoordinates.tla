------------------------- MODULE MCParcelCoordinates -------------------------
(***************************************************************************)
(* Three parcels: one the county locates only in its second file, one that *)
(* only sales files know before the third, and one that is located, then   *)
(* retired, and comes back without coordinates.  The geocode command may   *)
(* run beside the server at any time.                                      *)
(***************************************************************************)
EXTENDS ParcelCoordinates

CONSTANTS p1, p2, p3, server, command

MCExport == <<[listed |-> {p1, p3}, located |-> {p3}],
              [listed |-> {p1}, located |-> {p1}],
              [listed |-> {p1, p2, p3}, located |-> {p2}]>>
==============================================================================
