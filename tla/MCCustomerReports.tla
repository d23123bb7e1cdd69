--------------------------- MODULE MCCustomerReports ---------------------------
(***************************************************************************)
(* CustomerReports for TLC.  A report and its correction, each reviewed    *)
(* once or twice, with nothing going wrong; and, with one mishap, the       *)
(* overlap of two generations or of two renderings.                        *)
(***************************************************************************)
EXTENDS CustomerReports

\* runs, artifacts, crashes and failing calls
CheckedTogether == {<<2, 2, 0>>, <<2, 0, 1>>, <<1, 2, 1>>}
================================================================================
