----------------------------- MODULE AppendLog -----------------------------
(***************************************************************************)
(* What ingestion promises of its partitions: they are only ever appended, *)
(* and one that was acknowledged stays readable.                           *)
(***************************************************************************)
CONSTANT Partitions

VARIABLES
  log,    \* the partitions that can be read
  acked   \* those an ingestion was answered for

LogInit == log = {} /\ acked = {}
Append(part) == log' = log \cup {part} /\ UNCHANGED acked
Acknowledge(part) ==
  part \in log /\ acked' = acked \cup {part} /\ UNCHANGED log
LogNext == \E part \in Partitions : Append(part) \/ Acknowledge(part)
LogSpec == LogInit /\ [][LogNext]_<<log, acked>>
=============================================================================
