------------------------------ MODULE MCLaunch ------------------------------
(* Launch with recordings of a few accesses.                               *)
EXTENDS Launch

CONSTANTS
  MaxRecords,   \* bound on the number of accesses recorded
  Places        \* the addresses in recordings

SomeLines == [ip : {2, 17}, op : {"R", "W"}, addr : Places]

NoNumbers(op) == [ip |-> 0, op |-> op, addr |-> 0]

(* What PinTrace leaves: three lines of header, the records, a footer.     *)
SmallRecordings ==
  {<<NoNumbers(""), NoNumbers("Memory"), NoNumbers("")>> \o records
     \o <<NoNumbers("")>> :
       records \in UNION {[1 .. n -> SomeLines] : n \in 0 .. MaxRecords}}
=============================================================================
