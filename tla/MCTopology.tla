----------------------------- MODULE MCTopology -----------------------------
(* Three disks, one of them with a zpool.  Each budget is one scenario:  *)
(* a disk that goes bad, hangs and comes back; calls of topology() that     *)
(* overlap a change; a disk that fills up; latencies that drift apart.      *)
EXTENDS Topology, TLC

MCStarts == {{}, {1}, {3}}
MCLot == <<3, 2, 5>>
Budget(fa, fi, ha, ca, ti, i, zh, ds) ==
  [fault |-> fa, fill |-> fi, hang |-> ha, call |-> ca, tick |-> ti, io |-> i, zfs_health |-> zh, disk_slow |-> ds]
MCBudgets ==
  {Budget(3, 0, 1, 0, 0, 0, 1, 0), Budget(1, 0, 0, 3, 1, 0, 1, 0), Budget(0, 1, 0, 2, 1, 0, 1, 0),
   Budget(0, 0, 0, 0, 0, 4, 0, 1), Budget(0, 0, 0, 1, 0, 3, 0, 1)}
=============================================================================
