------------------------------ MODULE MCWalks -------------------------------
(* Two disks and a few keys on one or both of them, in both tables.  Each   *)
(* budget is one scenario: one kind of walk, or two on the same cursor,     *)
(* with keys that come and go, errors and crashes.                          *)
EXTENDS CarImport, TLC

MCStores ==
  {[addr |-> <<{1, 3}, {3}>>, inline |-> <<{2}, {4}>>]}
MCNulls == {{}, {1}}
MCArchives ==
  LET f(k, x) == [key |-> k, fault |-> x] IN
  {[header |-> "v2", frames |-> << >>],
   [header |-> "ok", frames |-> <<f(4, "none"), f(1, "bad_hash"), f(2, "none"), f(2, "none")>>],
   [header |-> "ok", frames |-> <<f(3, "bad_cid"), f(2, "none"), f(3, "none"), f(4, "cut")>>]}

Budget(re, mi, rs, ex, s, ml, sl, im, ad, rm, er, cr) ==
  [resilver |-> re, migrate |-> mi, run_scrub |-> rs, export |-> ex, s3 |-> s, migrate_loop |-> ml, scrub_loop |-> sl,
   import |-> im, add |-> ad, remove |-> rm, error |-> er, crash |-> cr]
MCBudgets ==
  {Budget(2, 0, 0, 0, 0, 0, 0, 0, 0, 1, 1, 1), Budget(2, 0, 0, 0, 0, 0, 0, 0, 1, 0, 0, 1),
   Budget(0, 1, 0, 0, 0, 1, 0, 0, 1, 0, 0, 0), Budget(0, 1, 0, 0, 0, 1, 0, 0, 0, 1, 0, 0), Budget(0, 1, 0, 0, 0, 1, 0, 0, 0, 0, 1, 1),
   Budget(0, 0, 0, 0, 0, 0, 1, 0, 1, 1, 0, 0), Budget(0, 0, 0, 0, 0, 0, 1, 0, 0, 1, 1, 1), Budget(0, 0, 1, 0, 0, 0, 0, 0, 1, 1, 1, 0),
   Budget(0, 0, 0, 1, 0, 0, 0, 0, 1, 1, 1, 0), Budget(0, 0, 0, 0, 1, 0, 0, 0, 1, 1, 1, 0),
   Budget(0, 0, 0, 0, 0, 0, 0, 1, 0, 0, 2, 1), Budget(0, 0, 0, 1, 0, 0, 0, 1, 0, 0, 0, 0)}
=============================================================================
