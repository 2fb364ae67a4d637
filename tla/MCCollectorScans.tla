-------------------------- MODULE MCCollectorScans --------------------------
(* Bounded instance of CollectorScans for TLC.                             *)
EXTENDS CollectorScans

CONSTANTS c1, c2

Confirm(scan, result, rows, fingerprint) ==
    [scan |-> scan, result |-> result, rows |-> rows, fingerprint |-> fingerprint]

(* Scan 1 sees a CI; it is also sent again after a second preview.  The    *)
(* others see it again, leave it out, or fail.  No two CIs fit the limit.  *)
EachScan ==
    {Confirm(1, "incomplete", {c1}, 1), Confirm(1, "incomplete", {c1}, 2),
     Confirm(2, "complete", {c2}, 1), Confirm(2, "complete", {}, 1),
     Confirm(3, "complete", {}, 1), Confirm(3, "failed", {}, 1),
     Confirm(4, "complete", {c1}, 1), Confirm(4, "complete", {}, 1)}
=============================================================================
