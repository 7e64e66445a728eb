------------------------------ MODULE MCRefresh ------------------------------
(***************************************************************************)
(* Refresh with a plain command, one that is refreshed, and one that is    *)
(* refreshed without an interval.                                          *)
(***************************************************************************)
EXTENDS Refresh

Command(refresh, val) == [is_refresh |-> refresh, refresh_val |-> val]

Plain    == Command(FALSE, 0)
Repeated == Command(TRUE, 1)
Once     == Command(TRUE, 0)

\* The commands the user types when he always gives the interval.
WithInterval == {Plain, Repeated}
AnyCommand   == {Plain, Repeated, Once}
=============================================================================
