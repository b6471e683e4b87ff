-------------------------- MODULE MCDirectoryBackup --------------------------
(* Small instances of DirectoryBackup for TLC.                             *)
EXTENDS DirectoryBackup

CONSTANTS d1, d2

(* One entry copies to both destinations and keeps two backups, the other  *)
(* keeps three in the second destination only, and compresses them.        *)
MCDestinations == {d1, d2}
MCJobs == {[to |-> <<d1, d2>>, max |-> 2, compress |-> FALSE],
           [to |-> <<d2>>, max |-> 3, compress |-> TRUE]}
MCOneJob == {[to |-> <<d1>>, max |-> 2, compress |-> TRUE]}
MCOneDestination == {d1}
=============================================================================
