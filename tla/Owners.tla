------------------------------- MODULE Owners -------------------------------
(* The users every component tags its entries with (the owner fields).     *)
CONSTANTS Users,    \* the user names
          NoUser    \* the empty owner string: nobody

ASSUME OwnersAssumption == NoUser \notin Users
=============================================================================
