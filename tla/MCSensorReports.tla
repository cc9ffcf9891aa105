--------------------------- MODULE MCSensorReports ---------------------------
(* Jobs that report a pool, a certificate, a disk, or what a script says.   *)
EXTENDS SensorReports

CONSTANTS r1, r2

O(k, has) == [kind |-> k, has |-> has]

Healthy == O("zpool", {"vdev", "capacity", "scan_stats"})
Degraded == O("zpool", {"vdev", "capacity", "scan_stats", "status", "action"})
Valid == O("tls", {"issuer_org"})
Expired == O("tls", {"expired"})
Failed == O("generic", {"status", "records"})
Ok == O("generic", {"records"})
Heartbeat == O("generic", {})
Nvme == O("smart", {"nvme"})
Worn == O("smart", {"ata", "reallocated_sectors", "power_on_hours"})

SomeObservations ==
  {Healthy, Degraded, O("zpool", {"status"}), Valid, Expired, Nvme, Worn,
   Failed, Ok, Heartbeat}

R(name, key, bad, asks, target) ==
  [name |-> name, key |-> key, bad |-> bad, asks |-> asks, target |-> target]

SomeRules == [
  zpool |-> <<R("state", "state", {Degraded}, FALSE, "DEGRADED"),
              R("status", "status", {Degraded}, TRUE, "FAILED")>>,
  tls |-> <<R("expired", "expired", {Expired}, TRUE, "FAILED"),
            R("days", "days_remaining", {Valid}, FALSE, "")>>,
  smart |-> <<R("disk", "health_status", {Worn}, FALSE, "DEGRADED"),
              R("hours", "power_on_hours", {Worn}, FALSE, "PAUSED")>>,
  generic |-> <<R("failed", "status", {Failed}, TRUE, "FAILED")>> ]
=============================================================================
