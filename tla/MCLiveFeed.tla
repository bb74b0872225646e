----------------------------- MODULE MCLiveFeed -----------------------------
(***************************************************************************)
(* One line, a window of two buckets, production days of two: an event     *)
(* that ends with its day and one of the next day.                         *)
(***************************************************************************)
EXTENDS LiveFeed

CONSTANTS early, late

MCEventOrder == <<early, late>>

MCEventStart == early :> 0 @@ late :> 2
MCEventEnd   == early :> 2 @@ late :> 4
MCEventDay   == early :> 0 @@ late :> 1
=============================================================================
